----------------------------- MODULE SccpProofs -----------------------------
(***************************************************************************)
(* What Sccp concludes is true of every run, what it makes of the function *)
(* is again a function the verifier accepts and does what the function it  *)
(* was given did, it comes to an end, and a second run changes nothing.    *)
(*                                                                         *)
(* First what it is to be done: no visit of a reached block would teach    *)
(* anything, and the edges found lead to reached blocks.  That is enough   *)
(* for every run.  Then that the two stacks get there: whatever would      *)
(* still teach something is on the agenda, or waits for a value on a stack.*)
(* They get no further than that either: every solution concludes at least *)
(* as much, so that what is left of the function has nothing new to tell.  *)
(***************************************************************************)
EXTENDS Sccp, SsaFunctionProofs, SequenceTheorems

-----------------------------------------------------------------------------
(***************************************************************************)
(* The lattice of Known.                                                   *)
(***************************************************************************)
\* k promises no more than e.
Covers(k, e) == e = Nothing \/ k = e \/ k = Anything

\* What is known of c, if c is what it turns out to be.
True(c) == {Constant(c), Anything}

LEMMA KnownDiffer ==
    /\ Nothing # Anything
    /\ \A c : /\ Constant(c) # Nothing /\ Constant(c) # Anything
              /\ Constant(c).is = "constant" /\ Constant(c).value = c
              /\ \A d : Constant(c) = Constant(d) => c = d
<1>1. Nothing.is # Anything.is
  BY DEF Nothing, Anything
<1>2. ASSUME NEW c
      PROVE  /\ Constant(c) # Nothing /\ Constant(c) # Anything
             /\ Constant(c).is = "constant" /\ Constant(c).value = c
  <2>1. Constant(c).is = "constant" /\ Constant(c).value = c
    BY DEF Constant
  <2>2. Nothing.is = "nothing" /\ Anything.is = "anything"
    BY DEF Nothing, Anything
  <2> QED BY <2>1, <2>2
<1> QED BY <1>1, <1>2

LEMMA MeetCovers ==
    ASSUME NEW p, NEW q
    PROVE  /\ Covers(Meet(p, q), p) /\ Covers(Meet(p, q), q)
           /\ Meet(p, q) \in {p, q, Anything}
  BY DEF Covers, Meet

LEMMA CoversTransitive ==
    ASSUME NEW j, NEW k, NEW e, Covers(j, k), Covers(k, e)
    PROVE  Covers(j, e)
<1>1. Nothing # Anything
  BY KnownDiffer
<1> QED BY <1>1 DEF Covers

LEMMA CoveredIsTrue ==
    ASSUME NEW k, NEW e, NEW c, Covers(k, e), e \in True(c)
    PROVE  k \in True(c)
  BY KnownDiffer DEF Covers, True

-----------------------------------------------------------------------------
(***************************************************************************)
(* A solution: nothing in a reached block would teach anything.            *)
(***************************************************************************)
PhiSettled(f, s, b, p) ==
    \A k \in DOMAIN f.blocks[b].phis[p].args :
       <<f.blocks[b].preds[k], b>> \in s.edges
          => Covers(s.known[f.blocks[b].phis[p].dest], KnownOf(s, f.blocks[b].phis[p].args[k]))

InstSettled(f, s, b, i) ==
    f.blocks[b].insts[i].dest # NoValue
       => Covers(s.known[f.blocks[b].insts[i].dest], Evaluate(s, f.blocks[b].insts[i]))

ExitSettled(f, s, b) ==
    \A t \in ToSet(Leaving(s, f.blocks[b].term)) : <<b, t>> \in s.edges \cup ToSet(s.flow)

IsSolution(f, s) ==
    /\ 1 \in s.executable
    /\ \A e \in s.edges : e[2] \in s.executable
    /\ s.flow = <<>>
    /\ \A b \in s.executable :
          /\ b \in BlockIds(f)
          /\ \A p \in DOMAIN f.blocks[b].phis : PhiSettled(f, s, b, p)
          /\ \A i \in DOMAIN f.blocks[b].insts : InstSettled(f, s, b, i)
          /\ ExitSettled(f, s, b)

\* What is known of an operand is true in an environment.
Holds(s, env, operand) == KnownOf(s, operand) \in True(ValueIn(env, operand))

LEMMA LiteralsHold ==
    ASSUME NEW s, NEW env, NEW operand, operand \notin Values
    PROVE  Holds(s, env, operand)
  BY DEF Holds, KnownOf, ValueIn, True

(***************************************************************************)
(* An instruction whose operands are known rightly is evaluated rightly.   *)
(***************************************************************************)
LEMMA EvaluateIsTrue ==
    ASSUME NEW s, NEW inst, NEW input, NEW t, IsState(t), inst.dest \in Values,
           inst.op = "copy" \/ inst.op \in BinaryOps => Holds(s, t.env, inst.args[1]),
           inst.op \in BinaryOps => Holds(s, t.env, inst.args[2]),
           Executed(inst, input, t).status # "undefined"
    PROVE  Evaluate(s, inst) \in True(Executed(inst, input, t).env[inst.dest])
<1>1. PICK x, y, value : /\ x = ValueIn(t.env, inst.args[1]) /\ y = ValueIn(t.env, inst.args[2])
                         /\ value = Executed(inst, input, t).env[inst.dest]
  OBVIOUS
<1>2. /\ inst.op = "copy" => value = x
      /\ inst.op = "undef" => value = 0
      /\ inst.op \in BinaryOps => value = Fold(inst.op, x, y) /\ ~(inst.op = "div" /\ y = 0)
  BY <1>1, ExecutedDefines
<1>3. PICK j, k : j = KnownOf(s, inst.args[1]) /\ k = KnownOf(s, inst.args[2])
  OBVIOUS
<1>4. CASE inst.op = "copy"
  <2>1. Evaluate(s, inst) = j
    BY <1>3, <1>4 DEF Evaluate, BinaryOps
  <2> QED BY <1>1, <1>2, <1>3, <1>4, <2>1 DEF Holds
<1>5. CASE inst.op = "undef"
  <2>1. Evaluate(s, inst) = Constant(0)
    BY <1>5 DEF Evaluate, BinaryOps
  <2> QED BY <1>1, <1>2, <1>5, <2>1 DEF True
<1>6. CASE inst.op \in BinaryOps
  <2>1. Evaluate(s, inst) = IF Anything \in {j, k} THEN Anything
                            ELSE IF Nothing \in {j, k} THEN Nothing
                            ELSE IF inst.op = "div" /\ k.value = 0 THEN Anything
                            ELSE Constant(Fold(inst.op, j.value, k.value))
    BY <1>3, <1>6 DEF Evaluate, BinaryOps
  <2>2. j \in True(x) /\ k \in True(y)
    BY <1>1, <1>3, <1>6 DEF Holds
  <2>3. CASE Anything \in {j, k}
    BY <1>1, <2>1, <2>3 DEF True
  <2>4. CASE Anything \notin {j, k}
    <3>1. j = Constant(x) /\ k = Constant(y)
      BY <2>2, <2>4 DEF True
    <3>2. Nothing \notin {j, k} /\ j.value = x /\ k.value = y
      BY <3>1, KnownDiffer
    <3>3. Evaluate(s, inst) = Constant(Fold(inst.op, x, y))
      BY <1>2, <1>6, <2>1, <2>4, <3>2
    <3> QED BY <1>1, <1>2, <1>6, <3>3 DEF True
  <2> QED BY <2>3, <2>4
<1>7. CASE inst.op # "copy" /\ inst.op # "undef" /\ inst.op \notin BinaryOps
  <2>1. Evaluate(s, inst) = Anything
    BY <1>7 DEF Evaluate
  <2> QED BY <2>1 DEF True
<1> QED BY <1>4, <1>5, <1>6, <1>7

-----------------------------------------------------------------------------
(***************************************************************************)
(* A solution is true of every run.  Where a run is, everything defined on *)
(* every way to it is known rightly: at a position of a block, and when a  *)
(* block is entered, of what is defined on every way to where it came from.*)
(***************************************************************************)
KnownBefore(f, s, env, b, position) ==
    \A v \in Values :
       Definitions(f, v) # {} /\ DefinedBefore(f, v, b, position) => Holds(s, env, v)

EnteredRightly(f, s, t) ==
    /\ t.block \in s.executable
    /\ \/ t.from = 0 /\ t.block = 1
       \/ /\ t.from \in BlockIds(f) /\ t.block \in ToSet(Successors(f, t.from))
          /\ <<t.from, t.block>> \in s.edges
          /\ \A v \in Values : \A d \in Definitions(f, v) :
                Dominates(f, d[1], t.from) => Holds(s, t.env, v)

\* The only definition of a value.
LEMMA TheDefinition ==
    ASSUME NEW f, DefinedOnce(f), NEW v \in Values, NEW d \in Definitions(f, v)
    PROVE  \A e \in Definitions(f, v) : e = d
  BY DEF DefinedOnce

(***************************************************************************)
(* The phis: what arrives along the edge the run came by is known rightly. *)
(***************************************************************************)
LEMMA PhisSound ==
    ASSUME NEW f, NEW s, NEW t, IsFunction(f), WellFormed(f), IsSolution(f, s),
           IsState(t), EnteredRightly(f, s, t)
    PROVE  KnownBefore(f, s, PhisDone(f, t).env, t.block, 1)
<1>1. PICK b : b = t.block
  OBVIOUS
<1>2. PICK env : env = PhisDone(f, t).env
  OBVIOUS
<1>3. b \in s.executable /\ b \in BlockIds(f)
  BY <1>1 DEF EnteredRightly, IsSolution
<1>4. SUFFICES ASSUME NEW v \in Values, Definitions(f, v) # {}, DefinedBefore(f, v, b, 1)
               PROVE  Holds(s, env, v)
  BY <1>1, <1>2 DEF KnownBefore
<1>5. PICK d \in Definitions(f, v) : \A e \in Definitions(f, v) : e = d
  BY <1>4, TheDefinition DEF WellFormed
<1>6. /\ d[1] \in BlockIds(f) /\ d = <<d[1], d[2]>>
      /\ \/ d[2] = 0 /\ \E p \in DOMAIN f.blocks[d[1]].phis : f.blocks[d[1]].phis[p].dest = v
         \/ d[2] \in DOMAIN f.blocks[d[1]].insts /\ f.blocks[d[1]].insts[d[2]].dest = v
  BY DefinitionFacts
<1>7. CASE d[1] = b
  <2>1. d[2] < 1
    BY <1>4, <1>7 DEF DefinedBefore
  <2>2. DOMAIN f.blocks[b].insts = 1 .. Len(f.blocks[b].insts)
    BY <1>3, InstTypes
  <2>3. \E p \in DOMAIN f.blocks[b].phis : f.blocks[b].phis[p].dest = v
    BY <1>6, <1>7, <2>1, <2>2
  <2>4. b # 1
    <3>1. b = 1 => f.blocks[b].phis = <<>>
      BY DEF IsFunction
    <3>2. DOMAIN <<>> = {}
      OBVIOUS
    <3> QED BY <2>3, <3>1, <3>2
  <2>5. /\ t.from \in BlockIds(f) /\ b \in ToSet(Successors(f, t.from))
        /\ <<t.from, b>> \in s.edges
        /\ \A w \in Values : \A e \in Definitions(f, w) :
              Dominates(f, e[1], t.from) => Holds(s, t.env, w)
    BY <1>1, <2>4 DEF EnteredRightly
  <2>6. \E k \in DOMAIN f.blocks[b].preds : f.blocks[b].preds[k] = t.from
    <3>1. EdgesAgree(f)
      BY DEF WellFormed
    <3> QED BY <1>3, <2>5, <3>1, EdgeIsRecorded, ZenonT(30)
  <2>7. PICK k \in DOMAIN f.blocks[b].preds :
               /\ f.blocks[b].preds[k] = t.from
               /\ \E p \in DOMAIN f.blocks[b].phis :
                     /\ f.blocks[b].phis[p].dest = v
                     /\ env[v] = ValueIn(t.env, f.blocks[b].phis[p].args[k])
    BY <1>1, <1>2, <2>3, <2>6, PhisDoneFacts
  <2>8. PICK p \in DOMAIN f.blocks[b].phis :
                  /\ f.blocks[b].phis[p].dest = v
                  /\ env[v] = ValueIn(t.env, f.blocks[b].phis[p].args[k])
    BY <2>7
  <2>9. PICK args : args = f.blocks[b].phis[p].args
    OBVIOUS
  <2>10. k \in DOMAIN args
    <3>1. Len(args) = Len(f.blocks[b].preds)
      BY <1>3, <2>9 DEF WellFormed, EdgesAgree
    <3>2. args \in Seq(Operands)
      BY <1>3, <2>9, PhiTypes
    <3>3. f.blocks[b].preds \in Seq(BlockIds(f))
      BY <1>3, PartTypes
    <3>4. DOMAIN args = 1 .. Len(args)
      BY <3>2
    <3>5. DOMAIN f.blocks[b].preds = 1 .. Len(f.blocks[b].preds)
      BY <3>3
    <3> QED BY <3>1, <3>4, <3>5
  <2>11. Covers(s.known[v], KnownOf(s, args[k]))
    <3>1. PhiSettled(f, s, b, p)
      BY <1>3 DEF IsSolution
    <3> QED BY <2>5, <2>7, <2>8, <2>9, <2>10, <3>1 DEF PhiSettled
  <2>12. Holds(s, t.env, args[k])
    <3>1. CASE args[k] \notin Values
      BY <3>1, LiteralsHold
    <3>2. CASE args[k] \in Values
      <4>1. args[k] \in ToSet(args)
        BY <2>10 DEF ToSet
      <4>2. Definitions(f, args[k]) # {}
        BY <1>3, <2>9, <3>2, <4>1, ReadIsDefined DEF WellFormed
      <4>3. PICK e \in Definitions(f, args[k]) : TRUE
        BY <4>2
      <4>4. Dominates(f, e[1], f.blocks[b].preds[k])
        BY <1>3, <2>9, <2>10, <3>2 DEF WellFormed, PhiArgumentsDominated
      <4> QED BY <2>5, <2>7, <3>2, <4>4
    <3> QED BY <3>1, <3>2
  <2>13. s.known[v] \in True(env[v])
    BY <2>8, <2>9, <2>11, <2>12, CoveredIsTrue DEF Holds
  <2> QED BY <2>13 DEF Holds, KnownOf, ValueIn
<1>8. CASE d[1] # b
  <2>1. Dominates(f, d[1], b)
    BY <1>4, <1>8 DEF DefinedBefore
  <2>2. b # 1
    BY <1>8, <2>1, NothingBeforeTheEntry
  <2>3. /\ t.from \in BlockIds(f) /\ b \in ToSet(Successors(f, t.from))
        /\ \A w \in Values : \A e \in Definitions(f, w) :
              Dominates(f, e[1], t.from) => Holds(s, t.env, w)
    BY <1>1, <2>2 DEF EnteredRightly
  <2>4. Holds(s, t.env, v)
    BY <1>3, <1>6, <1>8, <2>1, <2>3, DominatesBefore
  <2>5. \A p \in DOMAIN f.blocks[b].phis : f.blocks[b].phis[p].dest # v
    <3>1. SUFFICES ASSUME NEW p \in DOMAIN f.blocks[b].phis, f.blocks[b].phis[p].dest = v
                   PROVE  FALSE
      OBVIOUS
    <3>2. <<b, 0>> \in Definitions(f, v)
      BY <1>3, <3>1, DefinitionFacts
    <3> QED BY <1>5, <1>8, <3>2
  <2>6. env[v] = t.env[v]
    BY <1>1, <1>2, <2>5, PhisDoneFacts
  <2> QED BY <2>4, <2>6 DEF Holds, ValueIn
<1> QED BY <1>7, <1>8

(***************************************************************************)
(* An operand of a block was defined on every way to it.                   *)
(***************************************************************************)
LEMMA OperandsAreKnown ==
    ASSUME NEW f, NEW s, NEW env, IsFunction(f), WellFormed(f), NEW b \in BlockIds(f)
    PROVE  /\ \A i \in DOMAIN f.blocks[b].insts :
                 KnownBefore(f, s, env, b, i) =>
                    \A a \in DOMAIN f.blocks[b].insts[i].args :
                       Holds(s, env, f.blocks[b].insts[i].args[a])
           /\ KnownBefore(f, s, env, b, Len(f.blocks[b].insts) + 1) =>
                 \A a \in DOMAIN f.blocks[b].term.args : Holds(s, env, f.blocks[b].term.args[a])
<1>1. ASSUME NEW i \in DOMAIN f.blocks[b].insts, KnownBefore(f, s, env, b, i),
             NEW a \in DOMAIN f.blocks[b].insts[i].args
      PROVE  Holds(s, env, f.blocks[b].insts[i].args[a])
  <2>1. PICK v : v = f.blocks[b].insts[i].args[a]
    OBVIOUS
  <2>2. CASE v \notin Values
    BY <2>1, <2>2, LiteralsHold
  <2>3. CASE v \in Values
    <3>1. v \in ToSet(f.blocks[b].insts[i].args)
      BY <2>1 DEF ToSet
    <3>2. Definitions(f, v) # {}
      BY <2>3, <3>1, ReadIsDefined DEF WellFormed
    <3>3. DefinedBefore(f, v, b, i)
      BY <2>3, <3>1 DEF WellFormed, UsesDominated, ValuesRead
    <3> QED BY <1>1, <2>1, <2>3, <3>2, <3>3 DEF KnownBefore
  <2> QED BY <2>2, <2>3
<1>2. ASSUME KnownBefore(f, s, env, b, Len(f.blocks[b].insts) + 1),
             NEW a \in DOMAIN f.blocks[b].term.args
      PROVE  Holds(s, env, f.blocks[b].term.args[a])
  <2>1. PICK v : v = f.blocks[b].term.args[a]
    OBVIOUS
  <2>2. CASE v \notin Values
    BY <2>1, <2>2, LiteralsHold
  <2>3. CASE v \in Values
    <3>1. v \in ToSet(f.blocks[b].term.args)
      BY <2>1 DEF ToSet
    <3>2. Definitions(f, v) # {}
      BY <2>3, <3>1, ReadIsDefined DEF WellFormed
    <3>3. DefinedBefore(f, v, b, Len(f.blocks[b].insts) + 1)
      BY <2>3, <3>1 DEF WellFormed, UsesDominated, ValuesRead
    <3> QED BY <1>2, <2>1, <2>3, <3>2, <3>3 DEF KnownBefore
  <2> QED BY <2>2, <2>3
<1> QED BY <1>1, <1>2

(***************************************************************************)
(* An instruction.                                                         *)
(***************************************************************************)
LEMMA InstSound ==
    ASSUME NEW f, NEW s, NEW input, NEW u, IsFunction(f), WellFormed(f), IsSolution(f, s),
           IsState(u), NEW b \in s.executable, NEW i \in DOMAIN f.blocks[b].insts,
           KnownBefore(f, s, u.env, b, i),
           Executed(f.blocks[b].insts[i], input, u).status # "undefined"
    PROVE  KnownBefore(f, s, Executed(f.blocks[b].insts[i], input, u).env, b, i + 1)
<1>1. PICK inst : inst = f.blocks[b].insts[i]
  OBVIOUS
<1>2. PICK env : env = Executed(inst, input, u).env
  OBVIOUS
<1>3. b \in BlockIds(f)
  BY DEF IsSolution
<1>4. i \in Nat /\ i >= 1
  BY <1>3, InstTypes
<1>5. SUFFICES ASSUME NEW v \in Values, Definitions(f, v) # {}, DefinedBefore(f, v, b, i + 1)
               PROVE  Holds(s, env, v)
  BY <1>1, <1>2 DEF KnownBefore
<1>6. PICK d \in Definitions(f, v) : \A e \in Definitions(f, v) : e = d
  BY <1>5, TheDefinition, SMTT(30) DEF WellFormed
<1>7. /\ d[1] \in BlockIds(f) /\ d = <<d[1], d[2]>>
      /\ \/ d[2] = 0 /\ \E p \in DOMAIN f.blocks[d[1]].phis : f.blocks[d[1]].phis[p].dest = v
         \/ d[2] \in DOMAIN f.blocks[d[1]].insts /\ f.blocks[d[1]].insts[d[2]].dest = v
  BY DefinitionFacts
<1>8. d[2] \in Nat
  <2>1. DOMAIN f.blocks[d[1]].insts = 1 .. Len(f.blocks[d[1]].insts)
    BY <1>7, InstTypes
  <2>2. \A k \in DOMAIN f.blocks[d[1]].insts : k \in Nat
    BY <2>1
  <2>3. d[2] = 0 \/ d[2] \in DOMAIN f.blocks[d[1]].insts
    BY <1>7
  <2> QED BY <2>2, <2>3, SMTT(30)
<1>9. CASE d[1] = b /\ d[2] = i
  <2>1. inst.dest = v
    BY <1>1, <1>4, <1>7, <1>9
  <2>2. \A a \in DOMAIN inst.args : Holds(s, u.env, inst.args[a])
    BY <1>1, <1>3, OperandsAreKnown
  <2>3. inst.args \in Seq(Operands) /\ HasItsOperands(inst)
    BY <1>1, <1>3, InstTypes
  <2>4. DOMAIN inst.args = 1 .. Len(inst.args)
    BY <2>3
  <2>5. ASSUME inst.op = "copy" \/ inst.op \in BinaryOps PROVE 1 \in DOMAIN inst.args
    <3>1. Len(inst.args) \in {1, 2}
      BY <2>3, <2>5 DEF HasItsOperands
    <3> QED BY <2>4, <3>1
  <2>6. ASSUME inst.op \in BinaryOps PROVE 2 \in DOMAIN inst.args
    <3>1. Len(inst.args) = 2
      BY <2>3, <2>6 DEF HasItsOperands
    <3> QED BY <2>4, <3>1
  <2>7. Evaluate(s, inst) \in True(Executed(inst, input, u).env[inst.dest])
    BY <1>1, <2>1, <2>2, <2>5, <2>6, EvaluateIsTrue
  <2>8. InstSettled(f, s, b, i)
    BY DEF IsSolution
  <2>9. Covers(s.known[v], Evaluate(s, inst))
    <3>1. v # NoValue
      BY SsaAssumption
    <3> QED BY <1>1, <2>1, <2>8, <3>1 DEF InstSettled
  <2>10. s.known[v] \in True(env[v])
    BY <1>2, <2>1, <2>7, <2>9, CoveredIsTrue
  <2> QED BY <2>10 DEF Holds, KnownOf, ValueIn
<1>10. CASE ~(d[1] = b /\ d[2] = i)
  <2>1. DefinedBefore(f, v, b, i)
    <3>1. SUFFICES IF d[1] = b THEN d[2] < i ELSE Dominates(f, d[1], b)
      BY <1>6 DEF DefinedBefore
    <3>2. IF d[1] = b THEN d[2] < i + 1 ELSE Dominates(f, d[1], b)
      BY <1>5 DEF DefinedBefore
    <3>3. CASE d[1] = b
      <4>1. d[2] < i + 1 /\ d[2] # i
        BY <1>10, <3>2, <3>3
      <4>2. d[2] < i
        BY <1>4, <1>8, <4>1
      <4> QED BY <3>3, <4>2
    <3> QED BY <3>2, <3>3
  <2>2. Holds(s, u.env, v)
    BY <1>5, <2>1 DEF KnownBefore
  <2>3. inst.dest # v
    <3>1. SUFFICES ASSUME inst.dest = v PROVE FALSE
      OBVIOUS
    <3>2. <<b, i>> \in Definitions(f, v)
      BY <1>1, <1>3, <3>1, DefinitionFacts
    <3>3. d = <<b, i>>
      BY <1>6, <3>2
    <3> QED BY <1>10, <3>3
  <2>4. env[v] = u.env[v]
    BY <1>2, <2>3, ExecutedFacts
  <2> QED BY <2>2, <2>4 DEF Holds, ValueIn
<1> QED BY <1>9, <1>10

(***************************************************************************)
(* A whole block.                                                          *)
(***************************************************************************)
LEMMA BlockSound ==
    ASSUME NEW f, NEW s, NEW input, NEW t, IsFunction(f), WellFormed(f), IsSolution(f, s),
           IsState(t), EnteredRightly(f, s, t)
    PROVE  /\ IsState(BlockDone(f, input, t))
           /\ BlockDone(f, input, t).block = t.block
           /\ BlockDone(f, input, t).status # "undefined" =>
                 KnownBefore(f, s, BlockDone(f, input, t).env, t.block,
                             Len(f.blocks[t.block].insts) + 1)
<1>1. PICK b : b = t.block
  OBVIOUS
<1>2. b \in s.executable /\ b \in BlockIds(f)
  BY <1>1 DEF EnteredRightly, IsSolution
<1>3. PICK N \in Nat : N = Len(f.blocks[b].insts) /\ DOMAIN f.blocks[b].insts = 1 .. N
  BY <1>2, InstTypes
<1>4. PICK after :
         /\ after[0] = PhisDone(f, t)
         /\ \A i \in 1 .. N : after[i] = Executed(f.blocks[b].insts[i], input, after[i - 1])
         /\ BlockDone(f, input, t) = after[N]
  BY <1>1, <1>3, BlockUnfolds
<1> DEFINE Right(i) == /\ IsState(after[i]) /\ after[i].block = b
                       /\ after[i].status # "undefined" => KnownBefore(f, s, after[i].env, b, i + 1)
           T == {i \in 0 .. N : Right(i)}
<1>5. Right(0)
  <2>1. KnownBefore(f, s, after[0].env, b, 1)
    BY <1>1, <1>4, PhisSound
  <2>2. IsState(after[0]) /\ after[0].block = b
    BY <1>1, <1>4, PhisDoneFacts
  <2> QED BY <2>1, <2>2
<1>6. ASSUME NEW i \in 0 .. N - 1, Right(i) PROVE Right(i + 1)
  <2>1. PICK u, w : u = after[i] /\ w = after[i + 1]
    OBVIOUS
  <2>2. PICK j : j = i + 1
    OBVIOUS
  <2>3. j \in 1 .. N /\ j - 1 = i
    BY <2>2
  <2>4. PICK inst : inst = f.blocks[b].insts[j]
    OBVIOUS
  <2>5. w = Executed(inst, input, u)
    BY <1>4, <2>1, <2>2, <2>3, <2>4
  <2>6. IsState(u) /\ u.block = b /\ (u.status # "undefined" => KnownBefore(f, s, u.env, b, j))
    BY <1>6, <2>1, <2>2
  <2>7. IsState(w) /\ w.block = b /\ w.status \in {u.status, "undefined"}
    BY <2>5, <2>6, ExecutedFacts
  <2>8. ASSUME w.status # "undefined" PROVE KnownBefore(f, s, w.env, b, j + 1)
    <3>1. KnownBefore(f, s, u.env, b, j)
      BY <2>6, <2>7, <2>8
    <3>2. j \in DOMAIN f.blocks[b].insts
      BY <1>3, <2>3
    <3> QED BY <1>2, <2>4, <2>5, <2>6, <2>8, <3>1, <3>2, InstSound
  <2> QED BY <2>1, <2>2, <2>7, <2>8
<1>7. \A i \in 0 .. N : i \in T
  <2> HIDE DEF Right
  <2>1. 0 \in T /\ \A k \in 0 .. N - 1 : k \in T => k + 1 \in T
    BY <1>5, <1>6
  <2> HIDE DEF T
  <2> QED BY <2>1, UpToBound
<1>8. Right(N)
  <2>1. N \in 0 .. N
    OBVIOUS
  <2> HIDE DEF Right
  <2> QED BY <1>7, <2>1
<1> QED BY <1>1, <1>3, <1>4, <1>8

(***************************************************************************)
(* The transfer at its end: along an edge that was proved traversable.     *)
(***************************************************************************)
LEMMA ExitSound ==
    ASSUME NEW f, NEW s, NEW input, NEW t, IsFunction(f), WellFormed(f), IsSolution(f, s),
           IsState(t), EnteredRightly(f, s, t), NextOf(f, input, t).status = "running"
    PROVE  IsState(NextOf(f, input, t)) /\ EnteredRightly(f, s, NextOf(f, input, t))
<1>1. PICK b, done, next, term :
         /\ b = t.block /\ done = BlockDone(f, input, t) /\ next = NextOf(f, input, t)
         /\ term = f.blocks[b].term
  OBVIOUS
<1>2. b \in s.executable /\ b \in BlockIds(f)
  BY <1>1 DEF EnteredRightly, IsSolution
<1>3. IsState(done) /\ done.block = b
  BY <1>1, BlockSound
<1>4. next = Transferred(term, done)
  BY <1>1 DEF NextOf
<1>5. /\ IsState(next) /\ next.env = done.env /\ next.from = b /\ done.status = "running"
      /\ \/ term.kind = "jump" /\ next.block = term.to[1]
         \/ /\ term.kind = "branch"
            /\ next.block = IF ValueIn(done.env, term.args[1]) # 0 THEN term.to[1] ELSE term.to[2]
  BY <1>1, <1>3, <1>4, TransferredFacts
<1>6. KnownBefore(f, s, done.env, b, Len(f.blocks[b].insts) + 1)
  <2>1. done.status # "undefined"
    BY <1>5
  <2> QED BY <1>1, <2>1, BlockSound
<1>7. /\ term.to \in Seq(BlockIds(f)) /\ term.args \in Seq(Operands)
      /\ HasItsTargets(term)
  BY <1>1, <1>2, PartTypes DEF IsFunction
<1>8. DOMAIN term.to = 1 .. Len(term.to) /\ DOMAIN term.args = 1 .. Len(term.args)
  BY <1>7
<1>9. next.block \in ToSet(Leaving(s, term)) /\ next.block \in ToSet(term.to)
  <2>1. CASE term.kind = "jump"
    <3>1. Leaving(s, term) = term.to
      BY <2>1 DEF Leaving
    <3>2. 1 \in DOMAIN term.to /\ next.block = term.to[1]
      BY <1>5, <1>7, <1>8, <2>1 DEF HasItsTargets
    <3> QED BY <3>1, <3>2 DEF ToSet
  <2>2. CASE term.kind = "branch"
    <3>1. PICK c, k : c = ValueIn(done.env, term.args[1]) /\ k = KnownOf(s, term.args[1])
      OBVIOUS
    <3>2. 1 \in DOMAIN term.to /\ 2 \in DOMAIN term.to /\ 1 \in DOMAIN term.args
      <4>1. Len(term.to) = 2 /\ Len(term.args) = 1
        BY <1>7, <2>2 DEF HasItsTargets
      <4> QED BY <1>8, <4>1
    <3>3. Holds(s, done.env, term.args[1])
      BY <1>1, <1>2, <1>6, <3>2, OperandsAreKnown
    <3>4. k \in True(c)
      BY <3>1, <3>3 DEF Holds
    <3>5. next.block = IF c # 0 THEN term.to[1] ELSE term.to[2]
      BY <1>5, <2>2, <3>1
    <3>6. next.block \in ToSet(term.to)
      BY <3>2, <3>5 DEF ToSet
    <3>7. Leaving(s, term) = IF k = Nothing THEN <<>>
                             ELSE IF k = Anything THEN term.to
                             ELSE IF k.value = 0 THEN <<term.to[2]>> ELSE <<term.to[1]>>
      BY <2>2, <3>1 DEF Leaving
    <3>8. CASE k = Anything
      <4>1. Leaving(s, term) = term.to
        BY <3>7, <3>8, KnownDiffer
      <4> QED BY <3>6, <4>1
    <3>9. CASE k = Constant(c)
      <4>1. k # Nothing /\ k # Anything /\ k.value = c
        BY <3>9, KnownDiffer
      <4>2. Leaving(s, term) = <<next.block>>
        BY <3>5, <3>7, <4>1
      <4> QED BY <3>6, <4>2 DEF ToSet
    <3> QED BY <3>4, <3>8, <3>9 DEF True
  <2> QED BY <1>5, <2>1, <2>2
<1>10. <<b, next.block>> \in s.edges /\ next.block \in s.executable
  <2>1. <<b, next.block>> \in s.edges \cup ToSet(s.flow)
    BY <1>1, <1>2, <1>9 DEF IsSolution, ExitSettled
  <2>2. ToSet(s.flow) = {}
    BY DEF IsSolution, ToSet
  <2>3. <<b, next.block>> \in s.edges
    BY <2>1, <2>2
  <2> QED BY <2>3 DEF IsSolution
<1>11. ASSUME NEW v \in Values, NEW d \in Definitions(f, v), Dominates(f, d[1], b)
       PROVE  Holds(s, next.env, v)
  <2>1. \A e \in Definitions(f, v) : e = d
    BY TheDefinition DEF WellFormed
  <2>2. d[1] = b => d[2] < Len(f.blocks[b].insts) + 1
    <3>1. ASSUME d[1] = b PROVE d[2] = 0 \/ d[2] \in DOMAIN f.blocks[b].insts
      BY <3>1, DefinitionFacts
    <3>2. DOMAIN f.blocks[b].insts = 1 .. Len(f.blocks[b].insts) /\ Len(f.blocks[b].insts) \in Nat
      BY <1>2, InstTypes
    <3> QED BY <3>1, <3>2
  <2>3. DefinedBefore(f, v, b, Len(f.blocks[b].insts) + 1)
    BY <1>11, <2>1, <2>2 DEF DefinedBefore
  <2>4. Holds(s, done.env, v)
    BY <1>6, <2>3 DEF KnownBefore
  <2> QED BY <1>5, <2>4
<1>12. EnteredRightly(f, s, next)
  BY <1>1, <1>2, <1>5, <1>9, <1>10, <1>11 DEF EnteredRightly, Successors
<1> QED BY <1>1, <1>5, <1>12

(***************************************************************************)
(* A run: every state it goes through.                                     *)
(***************************************************************************)
LEMMA RunSound ==
    ASSUME NEW f, NEW s, NEW input, NEW steps \in Nat, IsFunction(f), WellFormed(f), IsSolution(f, s),
           NEW n \in DOMAIN RunOf(f, input, steps), RunOf(f, input, steps)[n].status = "running"
    PROVE  IsState(RunOf(f, input, steps)[n]) /\ EnteredRightly(f, s, RunOf(f, input, steps)[n])
<1>1. PICK states : states = RunOf(f, input, steps)
  OBVIOUS
<1>2. /\ \E S : states \in Seq(S)
      /\ Len(states) >= 1 /\ states[1] = Start(input)
      /\ \A k \in 1 .. Len(states) - 1 :
            states[k].status = "running" /\ states[k + 1] = NextOf(f, input, states[k])
  BY <1>1, RunUnfolds DEF IsRun
<1>3. PICK L \in Nat : L = Len(states) /\ DOMAIN states = 1 .. L
  BY <1>2
<1>4. PICK N \in Nat : N + 1 = L
  BY <1>2, <1>3, SMTT(30)
<1> DEFINE Right(k) == states[k + 1].status = "running" =>
                          IsState(states[k + 1]) /\ EnteredRightly(f, s, states[k + 1])
           T == {k \in 0 .. N : Right(k)}
<1>5. Right(0)
  <2>1. IsState(states[1]) /\ states[1].block = 1 /\ states[1].from = 0
    BY <1>2, StartIsState
  <2>2. EnteredRightly(f, s, states[1])
    BY <2>1 DEF EnteredRightly, IsSolution
  <2> QED BY <2>1, <2>2
<1>6. ASSUME NEW k \in 0 .. N - 1, Right(k) PROVE Right(k + 1)
  <2>1. PICK t, u : t = states[k + 1] /\ u = states[(k + 1) + 1]
    OBVIOUS
  <2>2. k + 1 \in 1 .. Len(states) - 1
    BY <1>3, <1>4
  <2>3. t.status = "running" /\ u = NextOf(f, input, t)
    BY <1>2, <2>1, <2>2
  <2>4. IsState(t) /\ EnteredRightly(f, s, t)
    BY <1>6, <2>1, <2>3
  <2>5. u.status = "running" => IsState(u) /\ EnteredRightly(f, s, u)
    BY <2>3, <2>4, ExitSound
  <2> QED BY <2>1, <2>5
<1>7. \A k \in 0 .. N : k \in T
  <2> HIDE DEF Right
  <2>1. 0 \in T /\ \A k \in 0 .. N - 1 : k \in T => k + 1 \in T
    BY <1>5, <1>6
  <2> HIDE DEF T
  <2>2. \A k \in 0 .. N : k \in T
    BY <2>1, UpToBound
  <2> QED BY <2>2
<1>8. PICK k \in 0 .. N : k + 1 = n
  <2>1. n \in 1 .. L
    BY <1>1, <1>3
  <2>2. n - 1 \in 0 .. N /\ (n - 1) + 1 = n
    BY <1>4, <2>1
  <2> QED BY <2>2
<1>9. Right(k)
  <2> HIDE DEF Right
  <2> QED BY <1>7, <1>8
<1> QED BY <1>1, <1>8, <1>9

(***************************************************************************)
(* What a solution says of a state at the entry of a block.                *)
(***************************************************************************)
SaysOf(f, s, input, t) ==
    LET done == BlockDone(f, input, t)
    IN  t.status = "running" =>
          /\ t.block \in s.executable
          /\ t.from = 0 \/ <<t.from, t.block>> \in s.edges
          /\ \A v \in DefinedIn(f, t.block) :
                done.status # "undefined" => s.known[v] \in {Constant(done.env[v]), Anything}

LEMMA SolutionsAreSound ==
    ASSUME NEW f, NEW s, NEW input, IsFunction(f), WellFormed(f), IsSolution(f, s),
           NEW n \in DOMAIN RunOf(f, input, Steps)
    PROVE  SaysOf(f, s, input, RunOf(f, input, Steps)[n])
<1>1. PICK t : t = RunOf(f, input, Steps)[n]
  OBVIOUS
<1>2. SUFFICES ASSUME t.status = "running" PROVE SaysOf(f, s, input, t)
  BY <1>1 DEF SaysOf
<1>3. IsState(t) /\ EnteredRightly(f, s, t)
  BY <1>1, <1>2, RunSound, SccpAssumption
<1>4. PICK b, done : b = t.block /\ done = BlockDone(f, input, t)
  OBVIOUS
<1>5. b \in s.executable /\ b \in BlockIds(f) /\ (t.from = 0 \/ <<t.from, b>> \in s.edges)
  BY <1>3, <1>4 DEF EnteredRightly, IsSolution
<1>6. ASSUME NEW v \in DefinedIn(f, b), done.status # "undefined"
      PROVE  s.known[v] \in {Constant(done.env[v]), Anything}
  <2>1. v \in Values
    BY DEF DefinedIn
  <2>2. PICK d \in Definitions(f, v) : d[1] = b
    BY DEF DefinedIn
  <2>3. \A e \in Definitions(f, v) : e = d
    BY <2>1, TheDefinition DEF WellFormed
  <2>4. d[2] < Len(f.blocks[b].insts) + 1
    <3>1. d[2] = 0 \/ d[2] \in DOMAIN f.blocks[b].insts
      <4>1. d[2] = 0 \/ d[2] \in DOMAIN f.blocks[d[1]].insts
        BY DefinitionFacts
      <4> QED BY <2>2, <4>1
    <3>2. PICK N \in Nat : N = Len(f.blocks[b].insts) /\ DOMAIN f.blocks[b].insts = 1 .. N
      BY <1>5, InstTypes
    <3>3. d[2] = 0 \/ d[2] \in 1 .. N
      BY <3>1, <3>2
    <3>4. d[2] < N + 1
      BY <3>3
    <3> QED BY <3>2, <3>4
  <2>5. DefinedBefore(f, v, b, Len(f.blocks[b].insts) + 1)
    BY <2>2, <2>3, <2>4 DEF DefinedBefore
  <2>6. KnownBefore(f, s, done.env, b, Len(f.blocks[b].insts) + 1)
    BY <1>3, <1>4, <1>6, BlockSound
  <2>7. Holds(s, done.env, v)
    BY <2>1, <2>2, <2>5, <2>6 DEF KnownBefore
  <2> QED BY <2>1, <2>7 DEF Holds, KnownOf, ValueIn, True
<1>7. SaysOf(f, s, input, t)
  BY <1>4, <1>5, <1>6 DEF SaysOf
<1> QED BY <1>7

-----------------------------------------------------------------------------
(***************************************************************************)
(* The solver gets there.  What holds on its way: a visit of a reached     *)
(* block that would still teach something is on the agenda or reads a      *)
(* value that waits on the ssa stack, and what an edge leads to is reached *)
(* or about to be.                                                         *)
(***************************************************************************)
AllVisits == UNION {VisitsOf(b) : b \in BlockIds(function)}

Edges == BlockIds(function) \X BlockIds(function)

Solvers(K) ==
    [known : [Values -> K], executable : SUBSET BlockIds(function), edges : SUBSET Edges,
     flow : Seq(Edges), ssa : Seq(Values), agenda : SUBSET AllVisits,
     arriving : BlockIds(function) \cup {0}]

Settled(s, visit) ==
    CASE visit[2] = 0 -> PhiSettled(function, s, visit[1], visit[3])
      [] visit[2] = 1 -> InstSettled(function, s, visit[1], visit[3])
      [] OTHER -> ExitSettled(function, s, visit[1])

Waits(s, visit) == \E v \in ToSet(s.ssa) : Contains(ArgsAt(visit), v)

OnItsWay(s) ==
    /\ \E K : s \in Solvers(K)
    /\ 1 \in s.executable \cup {s.arriving}
    /\ \A e \in s.edges : e[2] \in s.executable \cup {s.arriving}
    /\ \A b \in s.executable : \A visit \in VisitsOf(b) :
          visit \in s.agenda \/ Waits(s, visit) \/ Settled(s, visit)

\* The visits of a block, one kind after the other.
LEMMA VisitFacts ==
    ASSUME NEW b, NEW visit
    PROVE  /\ visit \in VisitsOf(b) <=>
                 \/ \E p \in DOMAIN function.blocks[b].phis : visit = <<b, 0, p>>
                 \/ \E i \in DOMAIN function.blocks[b].insts : visit = <<b, 1, i>>
                 \/ visit = <<b, 2, 1>>
           /\ visit \in PhiVisits(b) <=>
                 \E p \in DOMAIN function.blocks[b].phis : visit = <<b, 0, p>>
  BY DEF VisitsOf, PhiVisits

LEMMA SettledFacts ==
    ASSUME NEW s, NEW b, NEW i
    PROVE  /\ Settled(s, <<b, 0, i>>) <=> PhiSettled(function, s, b, i)
           /\ Settled(s, <<b, 1, i>>) <=> InstSettled(function, s, b, i)
           /\ Settled(s, <<b, 2, i>>) <=> ExitSettled(function, s, b)
           /\ ArgsAt(<<b, 0, i>>) = function.blocks[b].phis[i].args
           /\ ArgsAt(<<b, 1, i>>) = function.blocks[b].insts[i].args
           /\ ArgsAt(<<b, 2, i>>) = function.blocks[b].term.args
  BY DEF Settled, ArgsAt

LEMMA VisitCases ==
    ASSUME NEW s, NEW b, NEW i
    PROVE  /\ Visit(s, <<b, 0, i>>) = VisitPhi(s, b, function.blocks[b].phis[i])
           /\ Visit(s, <<b, 1, i>>) = VisitInst(s, function.blocks[b].insts[i])
           /\ Visit(s, <<b, 2, i>>) = VisitTerminator(s, b)
  BY DEF Visit

(***************************************************************************)
(* Looking at an instruction or a terminator again tells nothing else as   *)
(* long as the same is known of its operands.                              *)
(***************************************************************************)
SameOf(s, t, args) == \A a \in DOMAIN args : KnownOf(t, args[a]) = KnownOf(s, args[a])

LEMMA SameEvaluation ==
    ASSUME NEW s, NEW t, NEW inst, inst.args \in Seq(Operands), HasItsOperands(inst),
           SameOf(s, t, inst.args)
    PROVE  Evaluate(t, inst) = Evaluate(s, inst)
<1>1. DOMAIN inst.args = 1 .. Len(inst.args)
  OBVIOUS
<1>2. CASE inst.op \in BinaryOps
  <2>1. Len(inst.args) = 2
    BY <1>2 DEF HasItsOperands
  <2>2. 1 \in DOMAIN inst.args /\ 2 \in DOMAIN inst.args
    BY <1>1, <2>1
  <2>3. KnownOf(t, inst.args[1]) = KnownOf(s, inst.args[1])
        /\ KnownOf(t, inst.args[2]) = KnownOf(s, inst.args[2])
    BY <2>2 DEF SameOf
  <2> QED BY <2>3 DEF Evaluate
<1>3. CASE inst.op = "copy"
  <2>1. Len(inst.args) = 1
    BY <1>3 DEF HasItsOperands
  <2>2. 1 \in DOMAIN inst.args
    BY <1>1, <2>1
  <2>3. KnownOf(t, inst.args[1]) = KnownOf(s, inst.args[1])
    BY <2>2 DEF SameOf
  <2>4. \A u : Evaluate(u, inst) = KnownOf(u, inst.args[1])
    BY <1>3 DEF Evaluate, BinaryOps
  <2> QED BY <2>3, <2>4
<1>4. CASE inst.op = "undef"
  <2>1. \A u : Evaluate(u, inst) = Constant(0)
    BY <1>4 DEF Evaluate, BinaryOps
  <2> QED BY <2>1
<1>5. CASE inst.op # "copy" /\ inst.op # "undef" /\ inst.op \notin BinaryOps
  <2>1. \A u : Evaluate(u, inst) = Anything
    BY <1>5 DEF Evaluate
  <2> QED BY <2>1
<1> QED BY <1>2, <1>3, <1>4, <1>5

LEMMA SameLeaving ==
    ASSUME NEW s, NEW t, NEW term, term.args \in Seq(Operands), HasItsTargets(term),
           SameOf(s, t, term.args)
    PROVE  Leaving(t, term) = Leaving(s, term)
<1>1. DOMAIN term.args = 1 .. Len(term.args)
  OBVIOUS
<1>2. CASE term.kind = "branch"
  <2>1. Len(term.args) = 1
    BY <1>2 DEF HasItsTargets
  <2>2. 1 \in DOMAIN term.args
    BY <1>1, <2>1
  <2>3. KnownOf(t, term.args[1]) = KnownOf(s, term.args[1])
    BY <2>2 DEF SameOf
  <2> QED BY <2>3 DEF Leaving
<1>3. CASE term.kind = "jump"
  BY <1>3 DEF Leaving
<1>4. CASE term.kind # "branch" /\ term.kind # "jump"
  BY <1>4 DEF Leaving
<1> QED BY <1>2, <1>3, <1>4

(***************************************************************************)
(* What is settled stays so while no more is known of its operands and, of *)
(* a phi, no more ways lead to it.                                         *)
(***************************************************************************)
LEMMA SettledStays ==
    ASSUME IsFunction(function), NEW s, NEW t, NEW b \in BlockIds(function),
           NEW visit \in VisitsOf(b), Settled(s, visit),
           \A v \in Values : Covers(t.known[v], s.known[v]),
           SameOf(s, t, ArgsAt(visit)),
           visit \in PhiVisits(b) => \A a : <<a, b>> \in t.edges => <<a, b>> \in s.edges,
           s.edges \cup ToSet(s.flow) \subseteq t.edges \cup ToSet(t.flow)
    PROVE  Settled(t, visit)
<1>1. CASE \E p \in DOMAIN function.blocks[b].phis : visit = <<b, 0, p>>
  <2>1. PICK p \in DOMAIN function.blocks[b].phis : visit = <<b, 0, p>>
    BY <1>1
  <2>2. PICK phi : phi = function.blocks[b].phis[p]
    OBVIOUS
  <2>3. phi.dest \in Values
    BY <2>2, PhiTypes
  <2>4. visit \in PhiVisits(b)
    BY <2>1, VisitFacts
  <2>5. SUFFICES ASSUME NEW k \in DOMAIN phi.args, <<function.blocks[b].preds[k], b>> \in t.edges
                 PROVE  Covers(t.known[phi.dest], KnownOf(t, phi.args[k]))
    BY <2>1, <2>2, SettledFacts DEF PhiSettled
  <2>6. <<function.blocks[b].preds[k], b>> \in s.edges
    BY <2>4, <2>5
  <2>7. Covers(s.known[phi.dest], KnownOf(s, phi.args[k]))
    BY <2>1, <2>2, <2>6, SettledFacts DEF PhiSettled
  <2>8. KnownOf(t, phi.args[k]) = KnownOf(s, phi.args[k])
    BY <2>1, <2>2, SettledFacts, ZenonT(40) DEF SameOf
  <2> QED BY <2>3, <2>7, <2>8, CoversTransitive
<1>2. CASE \E i \in DOMAIN function.blocks[b].insts : visit = <<b, 1, i>>
  <2>1. PICK i \in DOMAIN function.blocks[b].insts : visit = <<b, 1, i>>
    BY <1>2
  <2>2. PICK inst : inst = function.blocks[b].insts[i]
    OBVIOUS
  <2>3. inst.dest \in Values \cup {NoValue} /\ inst.args \in Seq(Operands) /\ HasItsOperands(inst)
    BY <2>2, InstTypes
  <2>4. Evaluate(t, inst) = Evaluate(s, inst)
    <3>1. ArgsAt(visit) = inst.args
      BY <2>1, <2>2, SettledFacts
    <3>2. SameOf(s, t, inst.args)
      BY <3>1
    <3> QED BY <2>3, <3>2, SameEvaluation
  <2>5. inst.dest # NoValue => Covers(s.known[inst.dest], Evaluate(s, inst))
    BY <2>1, <2>2, SettledFacts DEF InstSettled
  <2>6. inst.dest # NoValue => Covers(t.known[inst.dest], Evaluate(t, inst))
    BY <2>3, <2>4, <2>5, CoversTransitive
  <2> QED BY <2>1, <2>2, <2>6, SettledFacts DEF InstSettled
<1>3. CASE visit = <<b, 2, 1>>
  <2>1. PICK term : term = function.blocks[b].term
    OBVIOUS
  <2>2. term.args \in Seq(Operands) /\ HasItsTargets(term)
    BY <2>1, PartTypes DEF IsFunction
  <2>3. Leaving(t, term) = Leaving(s, term)
    <3>1. ArgsAt(visit) = term.args
      BY <1>3, <2>1, SettledFacts
    <3>2. SameOf(s, t, term.args)
      BY <3>1
    <3> QED BY <2>2, <3>2, SameLeaving
  <2>4. ExitSettled(function, s, b)
    BY <1>3, SettledFacts
  <2>5. ExitSettled(function, t, b)
    BY <2>1, <2>3, <2>4 DEF ExitSettled
  <2> QED BY <1>3, <2>5, SettledFacts
<1> QED BY <1>1, <1>2, <1>3, VisitFacts

(***************************************************************************)
(* The meet of what arrives covers each of it.                             *)
(***************************************************************************)
LEMMA MeetOfCovers ==
    ASSUME NEW all, NEW e \in all
    PROVE  Covers(MeetOf(all), e)
<1>1. PICK told : told = all \ {Nothing}
  OBVIOUS
<1>2. CASE e = Nothing
  BY <1>2 DEF Covers
<1>3. CASE e # Nothing
  <2>1. e \in told
    BY <1>1, <1>3
  <2>2. MeetOf(all) = IF told = {} THEN Nothing
                      ELSE IF \E k \in told : told = {k} THEN CHOOSE k \in told : TRUE ELSE Anything
    BY <1>1 DEF MeetOf
  <2>3. CASE \E k \in told : told = {k}
    <3>1. told = {e}
      BY <2>1, <2>3
    <3>2. \A k \in told : k = e
      BY <3>1
    <3>3. (CHOOSE k \in told : TRUE) \in told
      BY <2>1
    <3>4. MeetOf(all) = CHOOSE k \in told : TRUE
      BY <2>1, <2>2, <2>3
    <3> QED BY <3>2, <3>3, <3>4 DEF Covers
  <2>4. CASE ~\E k \in told : told = {k}
    <3>1. MeetOf(all) = Anything
      BY <2>1, <2>2, <2>4
    <3> QED BY <3>1 DEF Covers
  <2> QED BY <2>3, <2>4
<1> QED BY <1>2, <1>3

(***************************************************************************)
(* record: what is known of the value then covers what was told, the rest  *)
(* is left alone, and if it changed its readers wait.                      *)
(***************************************************************************)
LEMMA RecordFacts ==
    ASSUME NEW K, NEW s \in Solvers(K), NEW v \in Values, NEW e
    PROVE  /\ \E L : Record(s, v, e) \in Solvers(L)
           /\ Covers(Record(s, v, e).known[v], e)
           /\ \A w \in Values : Covers(Record(s, v, e).known[w], s.known[w])
           /\ \A w \in Values : Record(s, v, e).known[w] = s.known[w] \/ w \in ToSet(Record(s, v, e).ssa)
           /\ ToSet(s.ssa) \subseteq ToSet(Record(s, v, e).ssa)
           /\ Record(s, v, e).executable = s.executable /\ Record(s, v, e).edges = s.edges
           /\ Record(s, v, e).flow = s.flow /\ Record(s, v, e).agenda = s.agenda
           /\ Record(s, v, e).arriving = s.arriving
<1>1. PICK after : after = Meet(s.known[v], e)
  OBVIOUS
<1>2. Covers(after, s.known[v]) /\ Covers(after, e)
  BY <1>1, MeetCovers
<1>3. \A k : Covers(k, k)
  BY DEF Covers
<1>4. s.known \in [Values -> K] /\ s.ssa \in Seq(Values)
  BY DEF Solvers
<1>5. CASE after = s.known[v]
  <2>1. Record(s, v, e) = s
    BY <1>1, <1>5 DEF Record
  <2> QED BY <1>2, <1>3, <1>5, <2>1
<1>6. CASE after # s.known[v]
  <2>1. PICK known : known = [s.known EXCEPT ![v] = after]
    OBVIOUS
  <2>2. PICK ssa : ssa = Append(s.ssa, v)
    OBVIOUS
  <2>3. PICK t : t = [s EXCEPT !.known = known, !.ssa = ssa]
    OBVIOUS
  <2>4. Record(s, v, e) = t
    BY <1>1, <1>6, <2>1, <2>2, <2>3 DEF Record
  <2>5. known \in [Values -> K \cup {after}]
    BY <1>4, <2>1
  <2>6. ssa \in Seq(Values) /\ ToSet(ssa) = ToSet(s.ssa) \cup {v}
    <3>1. ssa \in Seq(Values) /\ Len(ssa) = Len(s.ssa) + 1 /\ ssa[Len(s.ssa) + 1] = v
          /\ \A k \in 1 .. Len(s.ssa) : ssa[k] = s.ssa[k]
      BY <1>4, <2>2
    <3>2. DOMAIN ssa = 1 .. Len(s.ssa) + 1 /\ DOMAIN s.ssa = 1 .. Len(s.ssa) /\ Len(s.ssa) \in Nat
      BY <1>4, <3>1
    <3> QED BY <3>1, <3>2 DEF ToSet
  <2>7. s \in Solvers(K \cup {after})
    BY <1>4 DEF Solvers
  <2>8. /\ t \in Solvers(K \cup {after}) /\ t.known = known /\ t.ssa = ssa
        /\ t.executable = s.executable /\ t.edges = s.edges
        /\ t.flow = s.flow /\ t.agenda = s.agenda /\ t.arriving = s.arriving
    BY <2>3, <2>5, <2>6, <2>7 DEF Solvers
  <2>9. known[v] = after /\ \A w \in Values : w # v => known[w] = s.known[w]
    BY <1>4, <2>1
  <2> QED BY <1>2, <1>3, <2>4, <2>6, <2>8, <2>9
<1> QED BY <1>5, <1>6

LEMMA ArgsTypes ==
    ASSUME IsFunction(function), NEW b \in BlockIds(function), NEW visit \in VisitsOf(b)
    PROVE  ArgsAt(visit) \in Seq(Operands)
<1>1. CASE \E p \in DOMAIN function.blocks[b].phis : visit = <<b, 0, p>>
  <2>1. PICK p \in DOMAIN function.blocks[b].phis : visit = <<b, 0, p>>
    BY <1>1
  <2>2. ArgsAt(visit) = function.blocks[b].phis[p].args
    BY <2>1, SettledFacts
  <2> QED BY <2>2, PhiTypes
<1>2. CASE \E i \in DOMAIN function.blocks[b].insts : visit = <<b, 1, i>>
  <2>1. PICK i \in DOMAIN function.blocks[b].insts : visit = <<b, 1, i>>
    BY <1>2
  <2>2. ArgsAt(visit) = function.blocks[b].insts[i].args
    BY <2>1, SettledFacts
  <2> QED BY <2>2, InstTypes
<1>3. CASE visit = <<b, 2, 1>>
  <2>1. ArgsAt(visit) = function.blocks[b].term.args
    BY <1>3, SettledFacts
  <2> QED BY <2>1, PartTypes
<1> QED BY <1>1, <1>2, <1>3, VisitFacts

(***************************************************************************)
(* A visit that is made again would tell something else only if it waits.  *)
(***************************************************************************)
LEMMA SameOrWaits ==
    ASSUME IsFunction(function), NEW s, NEW t, NEW b \in BlockIds(function), NEW visit \in VisitsOf(b),
           \A v \in Values : t.known[v] = s.known[v] \/ v \in ToSet(t.ssa)
    PROVE  SameOf(s, t, ArgsAt(visit)) \/ Waits(t, visit)
<1>1. PICK args : args = ArgsAt(visit)
  OBVIOUS
<1>2. DOMAIN args = 1 .. Len(args)
  <2>1. args \in Seq(Operands)
    BY <1>1, ArgsTypes
  <2> QED BY <2>1
<1>3. SUFFICES ASSUME NEW a \in DOMAIN args, KnownOf(t, args[a]) # KnownOf(s, args[a])
               PROVE  Waits(t, visit)
  BY <1>1 DEF SameOf
<1>4. args[a] \in Values /\ args[a] \in ToSet(t.ssa)
  BY <1>3 DEF KnownOf
<1>5. Contains(args, args[a])
  BY <1>2 DEF Contains
<1> QED BY <1>1, <1>4, <1>5 DEF Waits

(***************************************************************************)
(* Where a block leaves to.                                                *)
(***************************************************************************)
LEMMA LeavingTypes ==
    ASSUME IsFunction(function), NEW s, NEW b \in BlockIds(function)
    PROVE  Leaving(s, function.blocks[b].term) \in Seq(BlockIds(function))
<1>1. PICK ids : ids = BlockIds(function)
  OBVIOUS
<1>2. PICK term : term = function.blocks[b].term
  OBVIOUS
<1>3. term.to \in Seq(ids) /\ HasItsTargets(term) /\ <<>> \in Seq(ids)
  BY <1>1, <1>2, PartTypes DEF IsFunction
<1>4. CASE term.kind = "jump"
  <2>1. Leaving(s, term) = term.to
    BY <1>4 DEF Leaving
  <2> QED BY <1>1, <1>2, <1>3, <2>1
<1>5. CASE term.kind = "branch"
  <2>1. Len(term.to) = 2
    BY <1>3, <1>5 DEF HasItsTargets
  <2>2. term.to[1] \in ids /\ term.to[2] \in ids
    BY <1>3, <2>1
  <2>3. <<term.to[1]>> \in Seq(ids) /\ <<term.to[2]>> \in Seq(ids)
    BY <2>2
  <2>4. Leaving(s, term) \in {<<>>, term.to, <<term.to[1]>>, <<term.to[2]>>}
    BY <1>5 DEF Leaving
  <2> QED BY <1>1, <1>2, <1>3, <2>3, <2>4
<1>6. CASE term.kind # "jump" /\ term.kind # "branch"
  <2>1. Leaving(s, term) = <<>>
    BY <1>6 DEF Leaving
  <2> QED BY <1>1, <1>2, <1>3, <2>1
<1> QED BY <1>4, <1>5, <1>6

(***************************************************************************)
(* What a visit changes, and that it is settled by it unless it waits.     *)
(***************************************************************************)
VisitIsMade(s, t, visit) ==
    /\ \E L : t \in Solvers(L)
    /\ t.executable = s.executable /\ t.edges = s.edges
    /\ t.agenda = s.agenda /\ t.arriving = s.arriving
    /\ ToSet(s.ssa) \subseteq ToSet(t.ssa) /\ ToSet(s.flow) \subseteq ToSet(t.flow)
    /\ \A v \in Values : /\ Covers(t.known[v], s.known[v])
                         /\ t.known[v] = s.known[v] \/ v \in ToSet(t.ssa)
    /\ SameOf(s, t, ArgsAt(visit)) => Settled(t, visit)

LEMMA PhiVisitIsMade ==
    ASSUME IsFunction(function), NEW K, NEW s \in Solvers(K), NEW b \in BlockIds(function),
           NEW p \in DOMAIN function.blocks[b].phis
    PROVE  VisitIsMade(s, Visit(s, <<b, 0, p>>), <<b, 0, p>>)
<1>1. PICK phi, e, t : /\ phi = function.blocks[b].phis[p] /\ e = MeetOf(ArrivingAt(s, b, phi))
                       /\ t = Visit(s, <<b, 0, p>>)
  OBVIOUS
<1>2. t = Record(s, phi.dest, e)
  <2>1. t = VisitPhi(s, b, phi)
    BY <1>1, VisitCases
  <2> QED BY <1>1, <2>1 DEF VisitPhi
<1>3. phi.dest \in Values
  BY <1>1, PhiTypes
<1>4. ASSUME SameOf(s, t, phi.args) PROVE PhiSettled(function, t, b, p)
  <2>1. SUFFICES ASSUME NEW k \in DOMAIN phi.args, <<function.blocks[b].preds[k], b>> \in t.edges
                 PROVE  Covers(t.known[phi.dest], KnownOf(t, phi.args[k]))
    BY <1>1 DEF PhiSettled
  <2>2. t.edges = s.edges
    BY <1>2, <1>3, RecordFacts
  <2>3. KnownOf(s, phi.args[k]) \in ArrivingAt(s, b, phi)
    BY <2>1, <2>2 DEF ArrivingAt
  <2>4. Covers(e, KnownOf(s, phi.args[k]))
    BY <1>1, <2>3, MeetOfCovers
  <2>5. Covers(t.known[phi.dest], e)
    BY <1>2, <1>3, RecordFacts
  <2>6. KnownOf(t, phi.args[k]) = KnownOf(s, phi.args[k])
    BY <1>4 DEF SameOf
  <2> QED BY <2>4, <2>5, <2>6, CoversTransitive, SMTT(30)
<1>5. SameOf(s, t, ArgsAt(<<b, 0, p>>)) => Settled(t, <<b, 0, p>>)
  BY <1>1, <1>4, SettledFacts
<1>6. /\ \E L : t \in Solvers(L)
      /\ t.executable = s.executable /\ t.edges = s.edges
      /\ t.agenda = s.agenda /\ t.arriving = s.arriving
      /\ ToSet(s.ssa) \subseteq ToSet(t.ssa) /\ ToSet(s.flow) \subseteq ToSet(t.flow)
      /\ \A v \in Values : /\ Covers(t.known[v], s.known[v])
                           /\ t.known[v] = s.known[v] \/ v \in ToSet(t.ssa)
  BY <1>2, <1>3, RecordFacts, ZenonT(60)
<1> QED BY <1>1, <1>5, <1>6 DEF VisitIsMade

LEMMA InstVisitIsMade ==
    ASSUME IsFunction(function), NEW K, NEW s \in Solvers(K), NEW b \in BlockIds(function),
           NEW i \in DOMAIN function.blocks[b].insts
    PROVE  VisitIsMade(s, Visit(s, <<b, 1, i>>), <<b, 1, i>>)
<1>1. PICK inst, e, t : /\ inst = function.blocks[b].insts[i] /\ e = Evaluate(s, inst)
                        /\ t = Visit(s, <<b, 1, i>>)
  OBVIOUS
<1>2. t = IF inst.dest = NoValue THEN s ELSE Record(s, inst.dest, e)
  <2>1. t = VisitInst(s, inst)
    BY <1>1, VisitCases
  <2> QED BY <1>1, <2>1 DEF VisitInst
<1>3. /\ inst.dest \in Values \cup {NoValue} /\ inst.args \in Seq(Operands)
      /\ HasItsOperands(inst)
  BY <1>1, InstTypes
<1>4. CASE inst.dest = NoValue
  <2>1. t = s
    BY <1>2, <1>4
  <2>2. InstSettled(function, t, b, i)
    BY <1>1, <1>4 DEF InstSettled
  <2>3. Settled(t, <<b, 1, i>>)
    BY <2>2, SettledFacts
  <2>4. \A k : Covers(k, k)
    BY DEF Covers
  <2> QED BY <1>1, <2>1, <2>3, <2>4 DEF VisitIsMade
<1>5. CASE inst.dest # NoValue
  <2>1. t = Record(s, inst.dest, e) /\ inst.dest \in Values
    BY <1>2, <1>3, <1>5, SMTT(30)
  <2>2. ASSUME SameOf(s, t, inst.args) PROVE InstSettled(function, t, b, i)
    <3>1. Evaluate(t, inst) = e
      BY <1>1, <1>3, <2>2, SameEvaluation
    <3>2. Covers(t.known[inst.dest], e)
      BY <2>1, RecordFacts
    <3> QED BY <1>1, <3>1, <3>2, Zenon DEF InstSettled
  <2>3. SameOf(s, t, ArgsAt(<<b, 1, i>>)) => Settled(t, <<b, 1, i>>)
    BY <1>1, <2>2, SettledFacts
  <2>4. /\ \E L : t \in Solvers(L)
        /\ t.executable = s.executable /\ t.edges = s.edges
        /\ t.agenda = s.agenda /\ t.arriving = s.arriving
        /\ ToSet(s.ssa) \subseteq ToSet(t.ssa) /\ ToSet(s.flow) \subseteq ToSet(t.flow)
        /\ \A v \in Values : /\ Covers(t.known[v], s.known[v])
                             /\ t.known[v] = s.known[v] \/ v \in ToSet(t.ssa)
    BY <2>1, RecordFacts, ZenonT(30)
  <2> QED BY <1>1, <2>3, <2>4 DEF VisitIsMade
<1> QED BY <1>4, <1>5

LEMMA TerminatorVisitIsMade ==
    ASSUME IsFunction(function), NEW K, NEW s \in Solvers(K), NEW b \in BlockIds(function)
    PROVE  VisitIsMade(s, Visit(s, <<b, 2, 1>>), <<b, 2, 1>>)
<1>1. PICK ids, pairs : ids = BlockIds(function) /\ pairs = Edges
  OBVIOUS
<1>2. PICK term, targets, more, flow, t :
         /\ term = function.blocks[b].term
         /\ targets = Leaving(s, term)
         /\ more = [k \in DOMAIN targets |-> <<b, targets[k]>>]
         /\ flow = s.flow \o more
         /\ t = Visit(s, <<b, 2, 1>>)
  OBVIOUS
<1>3. t = [s EXCEPT !.flow = flow]
  <2>1. t = VisitTerminator(s, b)
    BY <1>2, VisitCases
  <2> QED BY <1>2, <2>1 DEF VisitTerminator
<1>4. targets \in Seq(ids)
  BY <1>1, <1>2, LeavingTypes
<1>5. PICK n \in Nat : DOMAIN targets = 1 .. n /\ \A k \in 1 .. n : targets[k] \in ids
  BY <1>4
<1>6. \A k \in 1 .. n : more[k] = <<b, targets[k]>> /\ more[k] \in pairs
  BY <1>1, <1>2, <1>5 DEF Edges
<1>7. more \in Seq(pairs) /\ Len(more) = n /\ DOMAIN more = 1 .. n
  BY <1>2, <1>5, <1>6
<1>8. s.flow \in Seq(pairs)
  BY <1>1 DEF Solvers
<1>9. flow \in Seq(pairs) /\ ToSet(flow) = ToSet(s.flow) \cup ToSet(more)
  <2>1. flow \in Seq(pairs) /\ Len(flow) = Len(s.flow) + n
        /\ \A k \in 1 .. Len(s.flow) + n :
              flow[k] = IF k <= Len(s.flow) THEN s.flow[k] ELSE more[k - Len(s.flow)]
    <3>1. PICK front : front = s.flow
      OBVIOUS
    <3>2. front \in Seq(pairs) /\ flow = front \o more
      BY <1>2, <1>8, <3>1
    <3>3. /\ front \o more \in Seq(pairs) /\ Len(front \o more) = Len(front) + Len(more)
          /\ \A k \in 1 .. Len(front) + Len(more) :
                (front \o more)[k] = IF k <= Len(front) THEN front[k] ELSE more[k - Len(front)]
      BY <1>7, <3>2, ConcatProperties
    <3> QED BY <1>7, <3>1, <3>2, <3>3
  <2>2. PICK m \in Nat : m = Len(s.flow) /\ DOMAIN s.flow = 1 .. m
    BY <1>8
  <2>3. DOMAIN flow = 1 .. m + n
    BY <2>1, <2>2
  <2>4. ASSUME NEW k \in 1 .. n PROVE more[k] \in ToSet(flow)
    <3>1. m + k \in 1 .. m + n /\ ~(m + k <= m) /\ (m + k) - m = k
      BY <2>2
    <3>2. flow[m + k] = more[k]
      BY <2>1, <2>2, <3>1
    <3> QED BY <2>3, <3>1, <3>2 DEF ToSet
  <2>5. ASSUME NEW k \in 1 .. m PROVE s.flow[k] \in ToSet(flow)
    <3>1. k \in 1 .. m + n /\ k <= m
      BY <2>2
    <3>2. flow[k] = s.flow[k]
      BY <2>1, <2>2, <3>1
    <3> QED BY <2>3, <3>1, <3>2 DEF ToSet
  <2>6. ASSUME NEW k \in 1 .. m + n PROVE flow[k] \in ToSet(s.flow) \cup ToSet(more)
    <3>1. CASE k <= m
      <4>1. k \in DOMAIN s.flow /\ flow[k] = s.flow[k]
        BY <2>1, <2>2, <3>1
      <4> QED BY <4>1 DEF ToSet
    <3>2. CASE ~(k <= m)
      <4>1. k - m \in DOMAIN more
        BY <1>7, <2>2, <3>2
      <4>2. flow[k] = more[k - m]
        BY <2>1, <2>2, <3>2
      <4> QED BY <4>1, <4>2 DEF ToSet
    <3> QED BY <3>1, <3>2
  <2>7. ToSet(flow) \subseteq ToSet(s.flow) \cup ToSet(more)
    BY <2>3, <2>6 DEF ToSet
  <2>8. ToSet(s.flow) \subseteq ToSet(flow)
    BY <2>2, <2>5 DEF ToSet
  <2>9. ToSet(more) \subseteq ToSet(flow)
    BY <1>7, <2>4 DEF ToSet
  <2> QED BY <2>1, <2>7, <2>8, <2>9
<1>10. /\ t \in Solvers(K) /\ t.flow = flow
       /\ t.known = s.known /\ t.executable = s.executable /\ t.edges = s.edges
       /\ t.ssa = s.ssa /\ t.agenda = s.agenda /\ t.arriving = s.arriving
  BY <1>1, <1>3, <1>9 DEF Solvers
<1>11. Leaving(t, term) = targets
  <2>1. \A operand : KnownOf(t, operand) = KnownOf(s, operand)
    BY <1>10 DEF KnownOf
  <2>2. SameOf(s, t, term.args)
    BY <2>1 DEF SameOf
  <2>3. term.args \in Seq(Operands) /\ HasItsTargets(term)
    <3>1. HasItsTargets(function.blocks[b].term)
      BY DEF IsFunction
    <3> QED BY <1>2, <3>1, PartTypes
  <2> QED BY <1>2, <2>2, <2>3, SameLeaving, Zenon
<1>12. \A c \in ToSet(targets) : <<b, c>> \in ToSet(more)
  <2>1. DOMAIN more = DOMAIN targets /\ \A k \in DOMAIN targets : more[k] = <<b, targets[k]>>
    BY <1>5, <1>6, <1>7, SMTT(30)
  <2> QED BY <2>1 DEF ToSet
<1>13. ExitSettled(function, t, b)
  BY <1>2, <1>9, <1>10, <1>11, <1>12 DEF ExitSettled
<1>14. Settled(t, <<b, 2, 1>>)
  BY <1>13, SettledFacts
<1>15. \A k : Covers(k, k)
  BY DEF Covers
<1> QED BY <1>2, <1>9, <1>10, <1>14, <1>15 DEF VisitIsMade

LEMMA VisitsAreMade ==
    ASSUME IsFunction(function), NEW K, NEW s \in Solvers(K), NEW b \in BlockIds(function),
           NEW visit \in VisitsOf(b)
    PROVE  VisitIsMade(s, Visit(s, visit), visit)
<1>1. CASE \E p \in DOMAIN function.blocks[b].phis : visit = <<b, 0, p>>
  BY <1>1, PhiVisitIsMade
<1>2. CASE \E i \in DOMAIN function.blocks[b].insts : visit = <<b, 1, i>>
  BY <1>2, InstVisitIsMade
<1>3. CASE visit = <<b, 2, 1>>
  BY <1>3, TerminatorVisitIsMade
<1> QED BY <1>1, <1>2, <1>3, VisitFacts

-----------------------------------------------------------------------------
(***************************************************************************)
(* Every step of the solver keeps it on its way.                           *)
(***************************************************************************)
LEMMA FreshIsOnItsWay ==
    ASSUME IsFunction(function)
    PROVE  OnItsWay(Fresh)
<1>1. 1 \in BlockIds(function)
  BY BlockTypes
<1>2. Fresh \in Solvers({Nothing})
  BY <1>1 DEF Fresh, Solvers
<1>3. Fresh.executable = {} /\ Fresh.edges = {} /\ Fresh.arriving = 1
  BY DEF Fresh
<1> QED BY <1>2, <1>3 DEF OnItsWay

LEMMA VisitKeepsTheWay ==
    ASSUME IsFunction(function), NEW s, OnItsWay(s), NEW visit \in s.agenda
    PROVE  OnItsWay([Visit(s, visit) EXCEPT !.agenda = @ \ {visit}])
<1>1. PICK K : s \in Solvers(K)
  BY DEF OnItsWay
<1>2. PICK b \in BlockIds(function) : visit \in VisitsOf(b)
  <2>1. visit \in AllVisits
    BY <1>1 DEF Solvers
  <2> QED BY <2>1 DEF AllVisits
<1>3. PICK u : u = Visit(s, visit)
  OBVIOUS
<1>4. VisitIsMade(s, u, visit)
  BY <1>1, <1>2, <1>3, VisitsAreMade
<1>5. PICK L : u \in Solvers(L)
  BY <1>4 DEF VisitIsMade
<1>6. PICK t : t = [u EXCEPT !.agenda = s.agenda \ {visit}]
  OBVIOUS
<1>7. s.agenda \subseteq AllVisits
  BY <1>1 DEF Solvers
<1>8. /\ t \in Solvers(L) /\ t.known = u.known /\ t.ssa = u.ssa /\ t.flow = u.flow
      /\ t.executable = s.executable /\ t.edges = s.edges /\ t.arriving = s.arriving
      /\ t.agenda = s.agenda \ {visit}
  BY <1>4, <1>5, <1>6, <1>7 DEF Solvers, VisitIsMade
<1>9. /\ ToSet(s.ssa) \subseteq ToSet(t.ssa) /\ ToSet(s.flow) \subseteq ToSet(t.flow)
      /\ \A v \in Values : /\ Covers(t.known[v], s.known[v])
                           /\ t.known[v] = s.known[v] \/ v \in ToSet(t.ssa)
  BY <1>4, <1>8 DEF VisitIsMade
<1>10. ASSUME NEW c \in s.executable, NEW other \in VisitsOf(c)
       PROVE  other \in t.agenda \/ Waits(t, other) \/ Settled(t, other)
  <2>1. c \in BlockIds(function)
    BY <1>1 DEF Solvers
  <2>2. SUFFICES ASSUME other \notin t.agenda, ~Waits(t, other)
                 PROVE  Settled(t, other)
    OBVIOUS
  <2>3. SameOf(s, t, ArgsAt(other))
    BY <1>9, <2>1, <2>2, SameOrWaits
  <2>4. CASE other = visit
    <3>1. SameOf(s, u, ArgsAt(visit))
      <4>1. \A operand : KnownOf(u, operand) = KnownOf(t, operand)
        BY <1>8 DEF KnownOf
      <4> QED BY <2>3, <2>4, <4>1 DEF SameOf
    <3>2. Settled(u, visit)
      BY <1>4, <3>1 DEF VisitIsMade
    <3>3. \A k : Covers(k, k)
      BY DEF Covers
    <3>4. SameOf(u, t, ArgsAt(visit))
      BY <1>8 DEF SameOf, KnownOf
    <3>5. t.edges = u.edges
      BY <1>4, <1>8 DEF VisitIsMade
    <3> QED BY <1>2, <1>8, <2>4, <3>2, <3>3, <3>4, <3>5, SettledStays
  <2>5. CASE other # visit
    <3>1. ~Waits(s, other)
      BY <1>9, <2>2 DEF Waits
    <3>2. other \notin s.agenda
      BY <1>8, <2>2, <2>5
    <3>3. Settled(s, other)
      BY <3>1, <3>2 DEF OnItsWay
    <3>4. s.edges \cup ToSet(s.flow) \subseteq t.edges \cup ToSet(t.flow)
      BY <1>8, <1>9
    <3> QED BY <1>8, <1>9, <2>1, <2>3, <3>3, <3>4, SettledStays
  <2> QED BY <2>4, <2>5
<1>11. OnItsWay(t)
  <2>1. 1 \in t.executable \cup {t.arriving}
    BY <1>8 DEF OnItsWay
  <2>2. \A e \in t.edges : e[2] \in t.executable \cup {t.arriving}
    BY <1>8 DEF OnItsWay
  <2> QED BY <1>8, <1>10, <2>1, <2>2 DEF OnItsWay
<1>12. [Visit(s, visit) EXCEPT !.agenda = @ \ {visit}] = t
  BY <1>3, <1>4, <1>6 DEF VisitIsMade
<1> QED BY <1>11, <1>12

LEMMA EnteringKeepsTheWay ==
    ASSUME IsFunction(function), NEW s, OnItsWay(s), s.agenda = {}, s.arriving # 0
    PROVE  OnItsWay([s EXCEPT !.executable = @ \cup {s.arriving},
                              !.agenda = VisitsOf(s.arriving), !.arriving = 0])
<1>1. PICK K : s \in Solvers(K)
  BY DEF OnItsWay
<1>2. PICK b : b = s.arriving
  OBVIOUS
<1>3. b \in BlockIds(function)
  BY <1>1, <1>2 DEF Solvers
<1>4. PICK executable, agenda, t :
         /\ executable = s.executable \cup {b} /\ agenda = VisitsOf(b)
         /\ t = [s EXCEPT !.executable = executable, !.agenda = agenda, !.arriving = 0]
  BY Zenon
<1>5. executable \in SUBSET BlockIds(function) /\ agenda \in SUBSET AllVisits
  BY <1>1, <1>3, <1>4 DEF Solvers, AllVisits
<1>6. /\ t \in Solvers(K) /\ t.known = s.known /\ t.ssa = s.ssa /\ t.flow = s.flow
      /\ t.executable = executable /\ t.edges = s.edges /\ t.arriving = 0 /\ t.agenda = agenda
  BY <1>1, <1>4, <1>5 DEF Solvers
<1>7. ASSUME NEW c \in executable, NEW visit \in VisitsOf(c)
      PROVE  visit \in t.agenda \/ Waits(t, visit) \/ Settled(t, visit)
  <2>1. CASE c = b
    BY <1>4, <1>6, <2>1
  <2>2. CASE c # b
    <3>1. c \in s.executable /\ c \in BlockIds(function)
      BY <1>1, <1>4, <2>2 DEF Solvers
    <3>2. SUFFICES ASSUME ~Waits(t, visit) PROVE Settled(t, visit)
      OBVIOUS
    <3>3. ~Waits(s, visit)
      BY <1>6, <3>2 DEF Waits
    <3>4. Settled(s, visit)
      BY <3>1, <3>3 DEF OnItsWay
    <3>5. \A k : Covers(k, k)
      BY DEF Covers
    <3>6. SameOf(s, t, ArgsAt(visit))
      BY <1>6 DEF SameOf, KnownOf
    <3> QED BY <1>6, <3>1, <3>4, <3>5, <3>6, SettledStays
  <2> QED BY <2>1, <2>2
<1>8. OnItsWay(t)
  <2>1. 1 \in t.executable \cup {t.arriving}
    BY <1>2, <1>4, <1>6 DEF OnItsWay
  <2>2. \A e \in t.edges : e[2] \in t.executable \cup {t.arriving}
    BY <1>2, <1>4, <1>6 DEF OnItsWay
  <2> QED BY <1>6, <1>7, <2>1, <2>2 DEF OnItsWay
<1> QED BY <1>2, <1>4, <1>8

\* The top of a stack and what is under it.
LEMMA TopOfStack ==
    ASSUME NEW S, NEW stack \in Seq(S), stack # <<>>
    PROVE  /\ Front(stack) \in Seq(S) /\ Last(stack) \in S
           /\ ToSet(stack) = ToSet(Front(stack)) \cup {Last(stack)}
<1>1. PICK n \in Nat : n = Len(stack) /\ DOMAIN stack = 1 .. n /\ n >= 1
  OBVIOUS
<1>2. PICK front : front = SubSeq(stack, 1, n - 1)
  OBVIOUS
<1>3. /\ front \in Seq(S) /\ Len(front) = n - 1
      /\ \A k \in 1 .. n - 1 : front[k] = stack[k]
  BY <1>1, <1>2
<1>4. DOMAIN front = 1 .. n - 1
  BY <1>1, <1>3
<1>5. stack[n] \in S
  BY <1>1
<1>6. ToSet(stack) = ToSet(front) \cup {stack[n]}
  BY <1>1, <1>3, <1>4 DEF ToSet
<1> QED BY <1>1, <1>2, <1>3, <1>5, <1>6 DEF Front, Last

LEMMA FollowingKeepsTheWay ==
    ASSUME IsFunction(function), NEW s, OnItsWay(s), s.agenda = {}, s.arriving = 0, s.flow # <<>>
    PROVE  OnItsWay(Follow([s EXCEPT !.flow = Front(@)], Last(s.flow)))
<1>1. PICK K : s \in Solvers(K)
  BY DEF OnItsWay
<1>2. PICK edge, flow, u, t :
         /\ edge = Last(s.flow) /\ flow = Front(s.flow)
         /\ u = [s EXCEPT !.flow = flow] /\ t = Follow(u, edge)
  OBVIOUS
<1>3. flow \in Seq(Edges) /\ edge \in Edges /\ ToSet(s.flow) = ToSet(flow) \cup {edge}
  <2>1. s.flow \in Seq(Edges)
    BY <1>1 DEF Solvers
  <2> QED BY <1>2, <2>1, TopOfStack
<1>4. edge[1] \in BlockIds(function) /\ edge[2] \in BlockIds(function) /\ edge = <<edge[1], edge[2]>>
  BY <1>3 DEF Edges
<1>5. /\ u \in Solvers(K) /\ u.known = s.known /\ u.ssa = s.ssa /\ u.flow = flow
      /\ u.executable = s.executable /\ u.edges = s.edges /\ u.arriving = 0 /\ u.agenda = {}
  BY <1>1, <1>2, <1>3 DEF Solvers
<1>6. PICK edges, agenda, arriving :
         /\ edges = IF edge \in s.edges THEN s.edges ELSE s.edges \cup {edge}
         /\ agenda = IF edge \in s.edges THEN {} ELSE PhiVisits(edge[2])
         /\ arriving = IF edge \in s.edges \/ edge[2] \in s.executable THEN 0 ELSE edge[2]
  OBVIOUS
<1>7. edges \in SUBSET Edges /\ agenda \in SUBSET AllVisits /\ arriving \in BlockIds(function) \cup {0}
  <2>1. PhiVisits(edge[2]) \subseteq AllVisits
    BY <1>4 DEF AllVisits, VisitsOf
  <2> QED BY <1>1, <1>3, <1>4, <1>6, <2>1 DEF Solvers
<1>8. /\ t \in Solvers(K) /\ t.known = s.known /\ t.ssa = s.ssa /\ t.flow = flow
      /\ t.executable = s.executable /\ t.edges = edges /\ t.arriving = arriving
      /\ t.agenda = agenda
  <2>1. CASE edge \in s.edges
    BY <1>2, <1>5, <1>6, <2>1 DEF Follow
  <2>2. CASE edge \notin s.edges
    <3>1. t = [u EXCEPT !.edges = edges, !.agenda = agenda, !.arriving = arriving]
      BY <1>2, <1>5, <1>6, <2>2 DEF Follow
    <3> QED BY <1>5, <1>7, <3>1 DEF Solvers
  <2> QED BY <2>1, <2>2
<1>9. ASSUME NEW b \in s.executable, NEW visit \in VisitsOf(b)
      PROVE  visit \in t.agenda \/ Waits(t, visit) \/ Settled(t, visit)
  <2>1. b \in BlockIds(function)
    BY <1>1 DEF Solvers
  <2>2. SUFFICES ASSUME visit \notin agenda, ~Waits(t, visit) PROVE Settled(t, visit)
    BY <1>8
  <2>3. ~Waits(s, visit)
    BY <1>8, <2>2 DEF Waits
  <2>4. Settled(s, visit)
    BY <2>3 DEF OnItsWay
  <2>5. \A k : Covers(k, k)
    BY DEF Covers
  <2>6. SameOf(s, t, ArgsAt(visit))
    BY <1>8 DEF SameOf, KnownOf
  <2>7. ASSUME visit \in PhiVisits(b), NEW a, <<a, b>> \in t.edges
        PROVE  <<a, b>> \in s.edges
    <3>1. SUFFICES ASSUME edge \notin s.edges PROVE <<a, b>> # edge
      BY <1>6, <1>8, <2>7
    <3>2. edge[2] # b
      BY <1>6, <2>2, <2>7, <3>1
    <3>3. <<a, b>>[2] = b
      OBVIOUS
    <3> QED BY <3>2, <3>3
  <2>8. s.edges \cup ToSet(s.flow) \subseteq t.edges \cup ToSet(t.flow)
    BY <1>3, <1>6, <1>8
  <2> QED BY <1>8, <2>1, <2>4, <2>5, <2>6, <2>7, <2>8, SettledStays
<1>10. OnItsWay(t)
  <2>1. 1 \in t.executable \cup {t.arriving}
    <3>1. 1 \in s.executable \cup {0}
      BY DEF OnItsWay
    <3> QED BY <1>8, <3>1
  <2>2. \A e \in t.edges : e[2] \in t.executable \cup {t.arriving}
    <3>1. ASSUME NEW e \in s.edges PROVE e[2] \in s.executable
      <4>1. e[2] \in s.executable \cup {0}
        BY DEF OnItsWay
      <4>2. e[2] \in BlockIds(function)
        BY <1>1 DEF Solvers, Edges
      <4>3. 0 \notin BlockIds(function)
        BY BlockTypes
      <4> QED BY <4>1, <4>2, <4>3
    <3>2. edge \notin s.edges => edge[2] \in s.executable \cup {arriving}
      BY <1>6
    <3> QED BY <1>6, <1>8, <3>1, <3>2
  <2> QED BY <1>8, <1>9, <2>1, <2>2 DEF OnItsWay
<1> QED BY <1>2, <1>10

LEMMA WakingKeepsTheWay ==
    ASSUME IsFunction(function), NEW s, OnItsWay(s), s.agenda = {}, s.ssa # <<>>
    PROVE  OnItsWay([s EXCEPT !.ssa = Front(@), !.agenda = ReadersOf(s, Last(s.ssa))])
<1>1. PICK K : s \in Solvers(K)
  BY DEF OnItsWay
<1>2. PICK value, ssa, agenda, t :
         /\ value = Last(s.ssa) /\ ssa = Front(s.ssa) /\ agenda = ReadersOf(s, value)
         /\ t = [s EXCEPT !.ssa = ssa, !.agenda = agenda]
  BY Zenon
<1>3. ssa \in Seq(Values) /\ ToSet(s.ssa) = ToSet(ssa) \cup {value}
  <2>1. s.ssa \in Seq(Values)
    BY <1>1 DEF Solvers
  <2> QED BY <1>2, <2>1, TopOfStack
<1>4. s.executable \subseteq BlockIds(function)
  BY <1>1 DEF Solvers
<1>5. agenda \in SUBSET AllVisits
  BY <1>2, <1>4 DEF ReadersOf, AllVisits
<1>6. /\ t \in Solvers(K) /\ t.known = s.known /\ t.ssa = ssa /\ t.flow = s.flow
      /\ t.executable = s.executable /\ t.edges = s.edges /\ t.arriving = s.arriving
      /\ t.agenda = agenda
  BY <1>1, <1>2, <1>3, <1>5 DEF Solvers
<1>7. ASSUME NEW b \in s.executable, NEW visit \in VisitsOf(b)
      PROVE  visit \in t.agenda \/ Waits(t, visit) \/ Settled(t, visit)
  <2>1. b \in BlockIds(function)
    BY <1>4
  <2>2. SUFFICES ASSUME visit \notin agenda, ~Waits(t, visit) PROVE Settled(t, visit)
    BY <1>6
  <2>3. ~Contains(ArgsAt(visit), value)
    BY <1>2, <2>2 DEF ReadersOf
  <2>4. ~Waits(s, visit)
    BY <1>3, <1>6, <2>2, <2>3 DEF Waits
  <2>5. Settled(s, visit)
    BY <2>4 DEF OnItsWay
  <2>6. \A k : Covers(k, k)
    BY DEF Covers
  <2>7. SameOf(s, t, ArgsAt(visit))
    BY <1>6 DEF SameOf, KnownOf
  <2> QED BY <1>6, <2>1, <2>5, <2>6, <2>7, SettledStays
<1>8. OnItsWay(t)
  <2>1. 1 \in t.executable \cup {t.arriving}
    BY <1>6 DEF OnItsWay
  <2>2. \A e \in t.edges : e[2] \in t.executable \cup {t.arriving}
    BY <1>6 DEF OnItsWay
  <2> QED BY <1>6, <1>7, <2>1, <2>2 DEF OnItsWay
<1> QED BY <1>2, <1>8

(***************************************************************************)
(* Where nothing is left to do, what there is is a solution.               *)
(***************************************************************************)
LEMMA WayEndsAtASolution ==
    ASSUME IsFunction(function), OnItsWay(solver), Solved
    PROVE  IsSolution(function, solver)
<1>1. PICK K : solver \in Solvers(K)
  BY DEF OnItsWay
<1>2. /\ solver.agenda = {} /\ solver.arriving = 0
      /\ solver.ssa = <<>> /\ solver.flow = <<>>
  BY DEF Solved, Idle
<1>3. solver.executable \subseteq BlockIds(function) /\ solver.edges \subseteq Edges
  BY <1>1 DEF Solvers
<1>4. 0 \notin BlockIds(function)
  BY BlockTypes
<1>5. 1 \in solver.executable
  BY <1>2 DEF OnItsWay
<1>6. ASSUME NEW e \in solver.edges PROVE e[2] \in solver.executable
  <2>1. e[2] \in BlockIds(function)
    BY <1>3 DEF Edges
  <2> QED BY <1>2, <1>4, <2>1 DEF OnItsWay
<1>7. ASSUME NEW b \in solver.executable, NEW visit \in VisitsOf(b) PROVE Settled(solver, visit)
  <2>1. ~Waits(solver, visit)
    BY <1>2 DEF Waits, ToSet
  <2> QED BY <1>2, <2>1 DEF OnItsWay
<1>8. ASSUME NEW b \in solver.executable
      PROVE  /\ \A p \in DOMAIN function.blocks[b].phis : PhiSettled(function, solver, b, p)
             /\ \A i \in DOMAIN function.blocks[b].insts : InstSettled(function, solver, b, i)
             /\ ExitSettled(function, solver, b)
  <2>1. ASSUME NEW p \in DOMAIN function.blocks[b].phis PROVE PhiSettled(function, solver, b, p)
    BY <1>7, VisitFacts, SettledFacts
  <2>2. ASSUME NEW i \in DOMAIN function.blocks[b].insts PROVE InstSettled(function, solver, b, i)
    BY <1>7, VisitFacts, SettledFacts
  <2>3. ExitSettled(function, solver, b)
    BY <1>7, VisitFacts, SettledFacts
  <2> QED BY <2>1, <2>2, <2>3
<1> QED BY <1>2, <1>3, <1>5, <1>6, <1>8 DEF IsSolution

-----------------------------------------------------------------------------
(***************************************************************************)
(* The steps of the pass.                                                  *)
(***************************************************************************)
Solving ==
    /\ run \in 1 .. 3
    /\ run <= 2 /\ IsFunction(function) => OnItsWay(solver)

\* The way is one of the function, so it stays the same while that does.
LEMMA SameVisits ==
    ASSUME function' = function
    PROVE  /\ AllVisits' = AllVisits /\ Edges' = Edges
           /\ \A b : VisitsOf(b)' = VisitsOf(b)
           /\ \A K : Solvers(K)' = Solvers(K)
           /\ \A visit : ArgsAt(visit)' = ArgsAt(visit)
           /\ \A s, visit : Settled(s, visit)' <=> Settled(s, visit)
<1>1. \A b : VisitsOf(b)' = VisitsOf(b)
  BY DEF VisitsOf, PhiVisits
<1>2. Edges' = Edges
  BY DEF Edges
<1>3. AllVisits' = AllVisits
  BY <1>1 DEF AllVisits
<1>4. \A K : Solvers(K)' = Solvers(K)
  BY <1>2, <1>3 DEF Solvers
<1>5. \A visit : ArgsAt(visit)' = ArgsAt(visit)
  BY DEF ArgsAt
<1>6. ASSUME NEW s, NEW visit PROVE Settled(s, visit)' <=> Settled(s, visit)
  BY DEF Settled, PhiSettled, InstSettled, ExitSettled
<1> QED BY <1>1, <1>2, <1>3, <1>4, <1>5, <1>6

LEMMA SameWay ==
    ASSUME function' = function, OnItsWay(solver')
    PROVE  OnItsWay(solver)'
<1>1. PICK t : t = solver'
  OBVIOUS
<1>2. \E K : t \in Solvers(K)'
  BY <1>1, SameVisits DEF OnItsWay
<1>3. ASSUME NEW b \in t.executable, NEW visit \in VisitsOf(b)'
      PROVE  visit \in t.agenda \/ Waits(t, visit)' \/ Settled(t, visit)'
  <2>1. visit \in VisitsOf(b)
    BY <1>3, SameVisits
  <2>2. visit \in t.agenda \/ Waits(t, visit) \/ Settled(t, visit)
    BY <1>1, <1>3, <2>1 DEF OnItsWay
  <2>3. Waits(t, visit) => Waits(t, visit)'
    BY SameVisits DEF Waits
  <2>4. Settled(t, visit) => Settled(t, visit)'
    BY SameVisits
  <2> QED BY <2>2, <2>3, <2>4
<1> QED BY <1>1, <1>2, <1>3 DEF OnItsWay

LEMMA SolvingStarts == Init => Solving
<1>1. SUFFICES ASSUME Init PROVE Solving
  OBVIOUS
<1>2. run = 1 /\ function \in Functions /\ solver = Fresh
  BY <1>1 DEF Init
<1>3. IsFunction(function) => OnItsWay(Fresh)
  BY FreshIsOnItsWay
<1> QED BY <1>2, <1>3 DEF Solving

LEMMA FreshAfterwards == (IsFunction(function) => OnItsWay(Fresh))'
<1>1. IsFunction(function) => OnItsWay(Fresh)
  BY FreshIsOnItsWay
<1> QED BY <1>1, PTL

LEMMA SolvingStep == Solving /\ [Next]_vars => Solving'
<1> SUFFICES ASSUME Solving, [Next]_vars PROVE Solving'
  OBVIOUS
<1>1. ASSUME function' = function, run' = run,
             run <= 2 /\ IsFunction(function) => OnItsWay(solver')
      PROVE  Solving'
  <2>1. run' <= 2 /\ IsFunction(function') => OnItsWay(solver)'
    BY <1>1, SameWay
  <2> QED BY <1>1, <2>1 DEF Solving
<1>2. CASE NextVisit
  <2>1. PICK visit \in solver.agenda :
               solver' = [Visit(solver, visit) EXCEPT !.agenda = @ \ {visit}]
    BY <1>2 DEF NextVisit
  <2>2. function' = function /\ run' = run
    BY <1>2 DEF NextVisit
  <2>3. ASSUME run <= 2, IsFunction(function) PROVE OnItsWay(solver')
    <3>1. OnItsWay(solver)
      BY <2>3 DEF Solving
    <3> QED BY <2>1, <2>3, <3>1, VisitKeepsTheWay
  <2> QED BY <1>1, <2>2, <2>3
<1>3. CASE EnterBlock
  <2>1. /\ solver.agenda = {} /\ solver.arriving # 0
        /\ solver' = [solver EXCEPT !.executable = @ \cup {solver.arriving},
                                    !.agenda = VisitsOf(solver.arriving), !.arriving = 0]
        /\ function' = function /\ run' = run
    BY <1>3 DEF EnterBlock
  <2>2. ASSUME run <= 2, IsFunction(function) PROVE OnItsWay(solver')
    <3>1. OnItsWay(solver)
      BY <2>2 DEF Solving
    <3> QED BY <2>1, <2>2, <3>1, EnteringKeepsTheWay, Zenon
  <2> QED BY <1>1, <2>1, <2>2
<1>4. CASE FollowEdge
  <2>1. /\ solver.agenda = {} /\ solver.arriving = 0 /\ solver.flow # <<>>
        /\ solver' = Follow([solver EXCEPT !.flow = Front(@)], Last(solver.flow))
        /\ function' = function /\ run' = run
    BY <1>4 DEF FollowEdge, Idle
  <2>2. ASSUME run <= 2, IsFunction(function) PROVE OnItsWay(solver')
    <3>1. OnItsWay(solver)
      BY <2>2 DEF Solving
    <3> QED BY <2>1, <2>2, <3>1, FollowingKeepsTheWay
  <2> QED BY <1>1, <2>1, <2>2
<1>5. CASE WakeReaders
  <2>1. /\ solver.agenda = {} /\ solver.ssa # <<>>
        /\ solver' = [solver EXCEPT !.ssa = Front(@),
                                    !.agenda = ReadersOf(solver, Last(solver.ssa))]
        /\ function' = function /\ run' = run
    BY <1>5 DEF WakeReaders, Idle
  <2>2. ASSUME run <= 2, IsFunction(function) PROVE OnItsWay(solver')
    <3>1. OnItsWay(solver)
      BY <2>2 DEF Solving
    <3> QED BY <2>1, <2>2, <3>1, WakingKeepsTheWay, Zenon
  <2> QED BY <1>1, <2>1, <2>2
<1>6. CASE SwitchStack
  <2>1. function' = function /\ run' = run /\ solver' = solver
    BY <1>6 DEF SwitchStack
  <2> QED BY <1>1, <2>1 DEF Solving
<1>7. CASE Apply
  <2>1. CASE run = 1
    <3>1. run' = 2 /\ solver' = Fresh
      BY <1>7, <2>1 DEF Apply, Begin
    <3>2. IsFunction(function') => OnItsWay(solver)'
      BY <3>1, FreshAfterwards DEF OnItsWay, Waits
    <3> QED BY <3>1, <3>2 DEF Solving
  <2>2. CASE run = 2
    BY <1>7, <2>2 DEF Apply, Solving
  <2>3. run \in {1, 2}
    BY <1>7 DEF Apply, Solving
  <2> QED BY <2>1, <2>2, <2>3
<1>8. CASE UNCHANGED vars
  <2>1. function' = function /\ run' = run /\ solver' = solver
    BY <1>8 DEF vars
  <2> QED BY <1>1, <2>1 DEF Solving
<1> QED BY <1>2, <1>3, <1>4, <1>5, <1>6, <1>7, <1>8 DEF Next, Finished

LEMMA SolvedSoundly ==
    ASSUME Solving, run <= 2 => IsFunction(function) /\ WellFormed(function)
    PROVE  SolutionIsSound
<1>1. SUFFICES ASSUME Solved, run <= 2, NEW input \in Inputs,
                      NEW n \in DOMAIN RunOf(function, input, Steps)
               PROVE  SaysOf(function, solver, input, RunOf(function, input, Steps)[n])
  BY DEF SolutionIsSound, SaysOf
<1>2. IsSolution(function, solver)
  BY <1>1, WayEndsAtASolution DEF Solving
<1> QED BY <1>1, <1>2, SolutionsAreSound

-----------------------------------------------------------------------------
(***************************************************************************)
(* Constants are words: what is known stays in the lattice of Known.       *)
(***************************************************************************)
Lattice == {Nothing, Anything} \cup {Constant(c) : c \in Word}

KnowsWords(s) == \A v \in Values : s.known[v] \in Lattice

LEMMA LatticeFacts ==
    ASSUME NEW k \in Lattice, k # Nothing, k # Anything
    PROVE  k.is = "constant" /\ k.value \in Word /\ k = Constant(k.value)
<1>1. PICK c \in Word : k = Constant(c)
  BY DEF Lattice
<1> QED BY <1>1, KnownDiffer

LEMMA ConstantsAreKnown ==
    ASSUME NEW s, KnowsWords(s)
    PROVE  \A v \in ConstantValues(s) : s.known[v].value \in Word
<1>1. SUFFICES ASSUME NEW v \in ConstantValues(s) PROVE s.known[v].value \in Word
  OBVIOUS
<1>2. PICK k : k = s.known[v]
  OBVIOUS
<1>3. k \in Lattice /\ k.is = "constant"
  BY <1>1, <1>2 DEF ConstantValues, KnowsWords
<1>4. k # Nothing /\ k # Anything
  BY <1>3 DEF Nothing, Anything
<1> QED BY <1>2, <1>3, <1>4, LatticeFacts

LEMMA FoldIsAWord ==
    ASSUME NEW op \in BinaryOps, NEW x \in Word, NEW y \in Word, ~(op = "div" /\ y = 0)
    PROVE  Fold(op, x, y) \in Word
<1>1. PICK m \in Nat : m = 2^Width /\ m >= 2
  BY SsaAssumption
<1>2. Word = 0 .. m - 1 /\ x \in Nat /\ y \in Nat /\ x <= m - 1
  BY <1>1 DEF Word
<1>3. \A z \in Nat : z % m \in 0 .. m - 1
  BY <1>1
<1>4. CASE op = "add"
  <2>1. Fold(op, x, y) = (x + y) % m
    BY <1>1, <1>4 DEF Fold
  <2>2. x + y \in Nat
    BY <1>2
  <2> QED BY <1>2, <1>3, <2>1, <2>2
<1>5. CASE op = "mul"
  <2>1. Fold(op, x, y) = (x * y) % m
    BY <1>1, <1>5 DEF Fold
  <2>2. x * y \in Nat
    BY <1>2
  <2> QED BY <1>2, <1>3, <2>1, <2>2
<1>6. CASE op = "div"
  <2>1. Fold(op, x, y) = x \div y
    BY <1>6 DEF Fold
  <2>2. y >= 1
    BY <1>2, <1>6
  <2>3. x \div y \in 0 .. x
    BY <1>2, <2>2
  <2> QED BY <1>1, <1>2, <2>1, <2>3
<1>7. CASE op = "eq"
  <2>1. Fold(op, x, y) = IF x = y THEN 1 ELSE 0
    BY <1>7 DEF Fold
  <2> QED BY <1>1, <1>2, <2>1
<1> QED BY <1>4, <1>5, <1>6, <1>7 DEF BinaryOps

LEMMA OperandIsInTheLattice ==
    ASSUME NEW s, KnowsWords(s), NEW operand \in Operands
    PROVE  KnownOf(s, operand) \in Lattice
  BY DEF KnowsWords, KnownOf, Operands, Lattice

LEMMA MeetOfIsInTheLattice ==
    ASSUME NEW all \in SUBSET Lattice
    PROVE  MeetOf(all) \in Lattice
<1>1. PICK told : told = all \ {Nothing}
  OBVIOUS
<1>2. MeetOf(all) = IF told = {} THEN Nothing
                    ELSE IF \E k \in told : told = {k} THEN CHOOSE k \in told : TRUE ELSE Anything
  BY <1>1 DEF MeetOf
<1>3. told # {} => (CHOOSE k \in told : TRUE) \in told
  OBVIOUS
<1>4. told \subseteq Lattice
  BY <1>1
<1> QED BY <1>2, <1>3, <1>4 DEF Lattice

LEMMA EvaluateIsInTheLattice ==
    ASSUME NEW s, KnowsWords(s), NEW inst, inst.args \in Seq(Operands), HasItsOperands(inst)
    PROVE  Evaluate(s, inst) \in Lattice
<1>1. PICK args : args = inst.args
  OBVIOUS
<1>2. DOMAIN args = 1 .. Len(args) /\ \A a \in DOMAIN args : args[a] \in Operands
  <2>1. args \in Seq(Operands)
    BY <1>1
  <2> QED BY <2>1
<1>3. \A a \in DOMAIN args : KnownOf(s, args[a]) \in Lattice
  BY <1>2, OperandIsInTheLattice
<1>4. PICK j, k : j = KnownOf(s, args[1]) /\ k = KnownOf(s, args[2])
  OBVIOUS
<1>5. Nothing \in Lattice /\ Anything \in Lattice /\ \A c \in Word : Constant(c) \in Lattice
  BY DEF Lattice
<1>6. CASE inst.op = "copy"
  <2>1. Evaluate(s, inst) = j
    BY <1>1, <1>4, <1>6 DEF Evaluate, BinaryOps
  <2>2. Len(args) = 1
    BY <1>1, <1>6 DEF HasItsOperands
  <2>3. 1 \in DOMAIN args
    BY <1>2, <2>2
  <2> QED BY <1>3, <1>4, <2>1, <2>3
<1>7. CASE inst.op = "undef"
  <2>1. Evaluate(s, inst) = Constant(0)
    BY <1>7 DEF Evaluate, BinaryOps
  <2>2. 0 \in Word
    <3>1. PICK m \in Nat : m = 2^Width /\ m >= 2
      BY SsaAssumption
    <3> QED BY <3>1 DEF Word
  <2> QED BY <1>5, <2>1, <2>2
<1>8. CASE inst.op \in BinaryOps
  <2>1. Evaluate(s, inst) = IF Anything \in {j, k} THEN Anything
                            ELSE IF Nothing \in {j, k} THEN Nothing
                            ELSE IF inst.op = "div" /\ k.value = 0 THEN Anything
                            ELSE Constant(Fold(inst.op, j.value, k.value))
    BY <1>1, <1>4, <1>8 DEF Evaluate, BinaryOps
  <2>2. Len(args) = 2
    BY <1>1, <1>8 DEF HasItsOperands
  <2>3. 1 \in DOMAIN args /\ 2 \in DOMAIN args
    BY <1>2, <2>2
  <2>4. j \in Lattice /\ k \in Lattice
    BY <1>3, <1>4, <2>3
  <2>5. CASE Anything \in {j, k} \/ Nothing \in {j, k} \/ (inst.op = "div" /\ k.value = 0)
    BY <1>5, <2>1, <2>5
  <2>6. CASE ~(Anything \in {j, k} \/ Nothing \in {j, k} \/ (inst.op = "div" /\ k.value = 0))
    <3>1. j.value \in Word /\ k.value \in Word
      BY <2>4, <2>6, LatticeFacts
    <3>2. Fold(inst.op, j.value, k.value) \in Word
      BY <1>8, <2>6, <3>1, FoldIsAWord
    <3> QED BY <1>5, <2>1, <2>6, <3>2
  <2> QED BY <2>5, <2>6
<1>9. CASE inst.op # "copy" /\ inst.op # "undef" /\ inst.op \notin BinaryOps
  <2>1. Evaluate(s, inst) = Anything
    BY <1>9 DEF Evaluate
  <2> QED BY <1>5, <2>1
<1> QED BY <1>6, <1>7, <1>8, <1>9

LEMMA RecordKeepsWords ==
    ASSUME NEW K, NEW s \in Solvers(K), KnowsWords(s), NEW v \in Values, NEW e \in Lattice
    PROVE  KnowsWords(Record(s, v, e))
<1>1. PICK after : after = Meet(s.known[v], e)
  OBVIOUS
<1>2. after \in Lattice
  <2>1. after \in {s.known[v], e, Anything}
    BY <1>1, MeetCovers
  <2> QED BY <2>1 DEF KnowsWords, Lattice
<1>3. CASE after = s.known[v]
  <2>1. Record(s, v, e) = s
    BY <1>1, <1>3 DEF Record
  <2> QED BY <2>1
<1>4. CASE after # s.known[v]
  <2>1. PICK known, ssa, t : /\ known = [s.known EXCEPT ![v] = after] /\ ssa = Append(s.ssa, v)
                             /\ t = [s EXCEPT !.known = known, !.ssa = ssa]
    BY Zenon
  <2>2. Record(s, v, e) = t
    BY <1>1, <1>4, <2>1 DEF Record
  <2>3. t.known = known
    BY <2>1 DEF Solvers
  <2>4. \A w \in Values : known[w] \in Lattice
    <3>1. s.known \in [Values -> K]
      BY DEF Solvers
    <3> QED BY <1>2, <2>1, <3>1 DEF KnowsWords
  <2> QED BY <2>2, <2>3, <2>4 DEF KnowsWords
<1> QED BY <1>3, <1>4

LEMMA VisitKeepsWords ==
    ASSUME IsFunction(function), NEW K, NEW s \in Solvers(K), KnowsWords(s),
           NEW b \in BlockIds(function), NEW visit \in VisitsOf(b)
    PROVE  KnowsWords(Visit(s, visit))
<1>1. CASE \E p \in DOMAIN function.blocks[b].phis : visit = <<b, 0, p>>
  <2>1. PICK p \in DOMAIN function.blocks[b].phis : visit = <<b, 0, p>>
    BY <1>1
  <2>2. PICK phi, all : phi = function.blocks[b].phis[p] /\ all = ArrivingAt(s, b, phi)
    OBVIOUS
  <2>3. Visit(s, visit) = Record(s, phi.dest, MeetOf(all))
    BY <2>1, <2>2, VisitCases DEF VisitPhi
  <2>4. phi.dest \in Values /\ phi.args \in Seq(Operands)
    BY <2>2, PhiTypes
  <2>5. \A k \in DOMAIN phi.args : phi.args[k] \in Operands
    BY <2>4
  <2>6. all \subseteq Lattice
    BY <2>2, <2>5, OperandIsInTheLattice DEF ArrivingAt
  <2>7. MeetOf(all) \in Lattice
    BY <2>6, MeetOfIsInTheLattice
  <2> QED BY <2>3, <2>4, <2>7, RecordKeepsWords
<1>2. CASE \E i \in DOMAIN function.blocks[b].insts : visit = <<b, 1, i>>
  <2>1. PICK i \in DOMAIN function.blocks[b].insts : visit = <<b, 1, i>>
    BY <1>2
  <2>2. PICK inst : inst = function.blocks[b].insts[i]
    OBVIOUS
  <2>3. Visit(s, visit) = IF inst.dest = NoValue THEN s ELSE Record(s, inst.dest, Evaluate(s, inst))
    <3>1. Visit(s, visit) = VisitInst(s, inst)
      BY <2>1, <2>2, VisitCases
    <3> QED BY <3>1 DEF VisitInst
  <2>4. inst.dest \in Values \cup {NoValue} /\ inst.args \in Seq(Operands) /\ HasItsOperands(inst)
    BY <2>2, InstTypes
  <2>5. Evaluate(s, inst) \in Lattice
    BY <2>4, EvaluateIsInTheLattice
  <2> QED BY <2>3, <2>4, <2>5, RecordKeepsWords
<1>3. CASE visit = <<b, 2, 1>>
  <2>1. PICK flow : flow = s.flow \o [k \in DOMAIN Leaving(s, function.blocks[b].term) |->
                                         <<b, Leaving(s, function.blocks[b].term)[k]>>]
    OBVIOUS
  <2>2. Visit(s, visit) = [s EXCEPT !.flow = flow]
    <3>1. Visit(s, visit) = VisitTerminator(s, b)
      BY <1>3, VisitCases
    <3> QED BY <2>1, <3>1 DEF VisitTerminator
  <2>3. Visit(s, visit).known = s.known
    BY <2>2 DEF Solvers
  <2> QED BY <2>3 DEF KnowsWords
<1> QED BY <1>1, <1>2, <1>3, VisitFacts

-----------------------------------------------------------------------------
(***************************************************************************)
(* FoldBranches: one block after the other becomes a jump or stays.        *)
(***************************************************************************)
LEMMA FoldingABranch ==
    ASSUME NEW f, Consistent(f), NEW b \in BlockIds(f), NEW s
    PROVE  Consistent(FoldBranch(f, b, s)) /\ BlockIds(FoldBranch(f, b, s)) = BlockIds(f)
<1>1. CASE ~Foldable(f, b, s)
  BY <1>1 DEF FoldBranch
<1>2. CASE Foldable(f, b, s)
  <2>1. PICK t : t = Successors(f, b)[IF Taken(f, b, s, 1) THEN 1 ELSE 2]
    OBVIOUS
  <2>2. FoldBranch(f, b, s) = SetTerminator(f, b, Jump(t)) /\ f.blocks[b].term.kind = "branch"
    BY <1>2, <2>1 DEF FoldBranch, Foldable
  <2>3. t \in ToSet(Successors(f, b))
    <3>1. Len(Successors(f, b)) = 2 /\ Successors(f, b) \in Seq(BlockIds(f))
      BY <2>2, PartTypes, ShapeOf DEF Consistent, Successors, HasItsTargets
    <3>2. DOMAIN Successors(f, b) = 1 .. 2
      BY <3>1, LengthFacts
    <3>3. 1 \in DOMAIN Successors(f, b) /\ 2 \in DOMAIN Successors(f, b)
      BY <3>2
    <3> QED BY <2>1, <3>3 DEF ToSet
  <2> QED BY <2>2, <2>3, JumpIsConsistent
<1> QED BY <1>1, <1>2

\* The loop over the blocks, unfolded.
LEMMA FoldingUnfolds ==
    ASSUME NEW f, Len(f.blocks) \in Nat, NEW s
    PROVE  \E folded :
              /\ folded[0] = f
              /\ \A b \in 1 .. Len(f.blocks) : folded[b] = FoldBranch(folded[b - 1], b, s)
              /\ FoldBranches(f, s) = folded[Len(f.blocks)]
<1> DEFINE folded[b \in 0 .. Len(f.blocks)] ==
              IF b = 0 THEN f
              ELSE LET before == folded[b - 1] IN FoldBranch(before, b, s)
<1>1. PICK N \in Nat : N = Len(f.blocks)
  OBVIOUS
<1>2. \E g : g = [b \in 0 .. N |-> IF b = 0 THEN f ELSE FoldBranch(g[b - 1], b, s)]
  <2> HIDE DEF folded
  <2> DEFINE Reached(m) == \E g : g = [b \in 0 .. m |-> IF b = 0 THEN f ELSE FoldBranch(g[b - 1], b, s)]
             T == {m \in 0 .. N : Reached(m)}
  <2>1. 0 \in T
    <3>1. PICK g : g = [b \in 0 .. 0 |-> f]
      OBVIOUS
    <3>2. g = [b \in 0 .. 0 |-> IF b = 0 THEN f ELSE FoldBranch(g[b - 1], b, s)]
      BY <3>1
    <3>3. Reached(0)
      BY <3>2
    <3> QED BY <3>3
  <2>2. ASSUME NEW m \in 0 .. N - 1, m \in T PROVE m + 1 \in T
    <3>1. PICK g : g = [b \in 0 .. m |-> IF b = 0 THEN f ELSE FoldBranch(g[b - 1], b, s)]
      BY <2>2
    <3>2. PICK h : h = [b \in 0 .. m + 1 |-> IF b <= m THEN g[b] ELSE FoldBranch(g[m], b, s)]
      OBVIOUS
    <3>3. ASSUME NEW b \in 0 .. m + 1
          PROVE  h[b] = IF b = 0 THEN f ELSE FoldBranch(h[b - 1], b, s)
      <4>1. CASE b = 0
        BY <4>1, <3>1, <3>2
      <4>2. CASE b \in 1 .. m
        <5>1. h[b] = g[b] /\ h[b - 1] = g[b - 1] /\ g[b] = FoldBranch(g[b - 1], b, s)
          BY <4>2, <3>1, <3>2
        <5> QED BY <4>2, <5>1
      <4>3. CASE b = m + 1
        <5>1. h[b] = FoldBranch(g[m], b, s) /\ b - 1 = m /\ h[m] = g[m] /\ b # 0
          BY <4>3, <3>2
        <5> QED BY <5>1
      <4> QED BY <4>1, <4>2, <4>3
    <3>4. h = [b \in 0 .. m + 1 |-> IF b = 0 THEN f ELSE FoldBranch(h[b - 1], b, s)]
      BY <3>2, <3>3
    <3>5. Reached(m + 1)
      BY <3>4
    <3>6. m + 1 \in 0 .. N
      OBVIOUS
    <3> QED BY <3>5, <3>6
  <2>3. N \in T
    <3>1. \A k \in 0 .. N - 1 : k \in T => k + 1 \in T
      BY <2>2
    <3> HIDE DEF T
    <3>2. \A k \in 0 .. N : k \in T
      BY <2>1, <3>1, UpToBound
    <3> QED BY <3>2
  <2> QED BY <2>3
<1>3. PICK g : g = [b \in 0 .. N |-> IF b = 0 THEN f ELSE FoldBranch(g[b - 1], b, s)]
  BY <1>2
<1>4. g = [b \in 0 .. Len(f.blocks) |->
              IF b = 0 THEN f ELSE LET before == g[b - 1] IN FoldBranch(before, b, s)]
  BY <1>1, <1>3
<1>5. folded = [b \in 0 .. Len(f.blocks) |->
                  IF b = 0 THEN f ELSE LET before == folded[b - 1] IN FoldBranch(before, b, s)]
  BY <1>4
<1>6. FoldBranches(f, s) = folded[Len(f.blocks)]
  BY DEF FoldBranches
<1>7. PICK w : w = folded
  OBVIOUS
<1>8. w = [b \in 0 .. N |-> IF b = 0 THEN f ELSE FoldBranch(w[b - 1], b, s)]
  BY <1>1, <1>5, <1>7
<1>9. w[0] = f /\ \A b \in 1 .. N : w[b] = FoldBranch(w[b - 1], b, s)
  <2> HIDE DEF folded
  <2>1. w[0] = f
    BY <1>8
  <2>2. ASSUME NEW b \in 1 .. N PROVE w[b] = FoldBranch(w[b - 1], b, s)
    <3>1. b \in 0 .. N /\ b # 0
      OBVIOUS
    <3> QED BY <3>1, <1>8
  <2> QED BY <2>1, <2>2
<1>10. FoldBranches(f, s) = w[Len(f.blocks)]
  BY <1>6, <1>7
<1> QED BY <1>1, <1>9, <1>10

LEMMA FoldingIsConsistent ==
    ASSUME NEW f, Consistent(f), NEW s
    PROVE  Consistent(FoldBranches(f, s)) /\ BlockIds(FoldBranches(f, s)) = BlockIds(f)
<1>1. IsFunction(f)
  BY DEF Consistent
<1>2. Len(f.blocks) \in Nat /\ BlockIds(f) = 1 .. Len(f.blocks)
  BY <1>1, BlockTypes
<1>3. PICK w : /\ w[0] = f
               /\ \A b \in 1 .. Len(f.blocks) : w[b] = FoldBranch(w[b - 1], b, s)
               /\ FoldBranches(f, s) = w[Len(f.blocks)]
  BY <1>2, FoldingUnfolds
<1>4. PICK N \in Nat : N = Len(f.blocks)
  BY <1>2
<1> DEFINE T == {n \in 0 .. N : Consistent(w[n]) /\ BlockIds(w[n]) = BlockIds(f)}
<1>5. 0 \in T
  BY <1>3
<1>6. ASSUME NEW n \in 0 .. N - 1, n \in T PROVE n + 1 \in T
  <2>1. n + 1 \in 1 .. N /\ n + 1 - 1 = n /\ n + 1 \in 0 .. N
    OBVIOUS
  <2>2. w[n + 1] = FoldBranch(w[n], n + 1, s)
    BY <1>3, <1>4, <2>1
  <2>3. PICK g : g = w[n]
    OBVIOUS
  <2>4. Consistent(g) /\ n + 1 \in BlockIds(g) /\ BlockIds(g) = BlockIds(f)
    BY <1>2, <1>4, <1>6, <2>1, <2>3
  <2>5. Consistent(FoldBranch(g, n + 1, s)) /\ BlockIds(FoldBranch(g, n + 1, s)) = BlockIds(g)
    BY <2>4, FoldingABranch
  <2> QED BY <2>1, <2>2, <2>3, <2>4, <2>5
<1> HIDE DEF T
<1>7. \A k \in 0 .. N : k \in T
  BY <1>5, <1>6, UpToBound
<1>8. N \in T
  BY <1>7
<1> QED BY <1>3, <1>4, <1>8 DEF T

-----------------------------------------------------------------------------
(***************************************************************************)
(* apply leaves a function the verifier accepts.                           *)
(***************************************************************************)
LEMMA AppliedIsWellFormed ==
    ASSUME NEW f, IsFunction(f), WellFormed(f), NEW s, KnowsWords(s)
    PROVE  IsFunction(Applied(f, s)) /\ WellFormed(Applied(f, s))
<1>1. Consistent(f)
  BY DEF WellFormed, AllReachable, Consistent
<1>2. PICK r : r = [v \in ConstantValues(s) |-> s.known[v].value]
  OBVIOUS
<1>3. AreWords(r)
  BY <1>2, ConstantsAreKnown DEF AreWords
<1>4. PICK g : g = SubstituteOperands(f, r)
  OBVIOUS
<1>5. Consistent(g)
  BY <1>1, <1>3, <1>4, SubstitutionIsConsistent
<1>6. Consistent(FoldBranches(g, s))
  BY <1>5, FoldingIsConsistent
<1>7. Applied(f, s) = RetainReachable(FoldBranches(g, s))
  BY <1>2, <1>4 DEF Applied
<1> QED BY <1>6, <1>7, RetainingIsWellFormed

Accepted ==
    /\ IsFunction(function) /\ WellFormed(function)
    /\ run <= 2 => KnowsWords(solver)

LEMMA FreshKnowsWords == KnowsWords(Fresh)
  BY DEF KnowsWords, Fresh, Lattice

LEMMA AcceptedStarts == Init => Accepted
<1>1. SUFFICES ASSUME Init PROVE Accepted
  OBVIOUS
<1>2. function \in Functions /\ solver = Fresh
  BY <1>1 DEF Init
<1> QED BY <1>2, FreshKnowsWords, SccpAssumption DEF Accepted

LEMMA AcceptedStep == Solving /\ Accepted /\ [Next]_vars => Accepted'
<1> SUFFICES ASSUME Solving, Accepted, [Next]_vars PROVE Accepted'
  OBVIOUS
<1>1. run \in 1 .. 3
  BY DEF Solving
<1>2. ASSUME function' = function, run' = run, run <= 2 => KnowsWords(solver') PROVE Accepted'
  <2>1. run' <= 2 => KnowsWords(solver)'
    BY <1>2 DEF KnowsWords
  <2> QED BY <1>2, <2>1 DEF Accepted
<1>3. ASSUME run <= 2 PROVE \E K : solver \in Solvers(K)
  BY <1>3 DEF Solving, Accepted, OnItsWay
<1>4. CASE NextVisit
  <2>1. PICK visit \in solver.agenda :
               solver' = [Visit(solver, visit) EXCEPT !.agenda = @ \ {visit}]
    BY <1>4 DEF NextVisit
  <2>2. function' = function /\ run' = run
    BY <1>4 DEF NextVisit
  <2>3. ASSUME run <= 2 PROVE KnowsWords(solver')
    <3>1. PICK K : solver \in Solvers(K)
      BY <1>3, <2>3
    <3>2. PICK b \in BlockIds(function) : visit \in VisitsOf(b)
      <4>1. visit \in AllVisits
        BY <3>1 DEF Solvers
      <4> QED BY <4>1 DEF AllVisits
    <3>3. PICK u : u = Visit(solver, visit)
      OBVIOUS
    <3>4. KnowsWords(u)
      BY <2>3, <3>1, <3>2, <3>3, VisitKeepsWords DEF Accepted
    <3>5. VisitIsMade(solver, u, visit)
      BY <3>1, <3>2, <3>3, VisitsAreMade DEF Accepted
    <3>6. PICK L : u \in Solvers(L)
      BY <3>5 DEF VisitIsMade
    <3>7. PICK agenda : agenda = u.agenda \ {visit}
      OBVIOUS
    <3>8. solver' = [u EXCEPT !.agenda = agenda]
      BY <2>1, <3>3, <3>7
    <3>9. solver'.known = u.known
      BY <3>6, <3>8 DEF Solvers
    <3> QED BY <3>4, <3>9 DEF KnowsWords
  <2> QED BY <1>2, <2>2, <2>3
<1>5. ASSUME function' = function, run' = run, run <= 2 => solver'.known = solver.known
      PROVE  Accepted'
  <2>1. run <= 2 => KnowsWords(solver')
    BY <1>5 DEF Accepted, KnowsWords
  <2> QED BY <1>2, <1>5, <2>1
<1>6. CASE EnterBlock
  <2>1. /\ function' = function /\ run' = run
        /\ solver' = [solver EXCEPT !.executable = @ \cup {solver.arriving},
                                    !.agenda = VisitsOf(solver.arriving), !.arriving = 0]
    BY <1>6 DEF EnterBlock
  <2>2. run <= 2 => solver'.known = solver.known
    BY <1>3, <2>1 DEF Solvers
  <2> QED BY <1>5, <2>1, <2>2
<1>7. CASE FollowEdge
  <2>1. /\ function' = function /\ run' = run
        /\ solver' = Follow([solver EXCEPT !.flow = Front(@)], Last(solver.flow))
    BY <1>7 DEF FollowEdge
  <2>2. PICK flow, edge, u : /\ flow = Front(solver.flow) /\ edge = Last(solver.flow)
                             /\ u = [solver EXCEPT !.flow = flow]
    OBVIOUS
  <2>3. PICK edges, agenda, arriving :
           /\ edges = u.edges \cup {edge} /\ agenda = PhiVisits(edge[2])
           /\ arriving = IF edge[2] \in u.executable THEN 0 ELSE edge[2]
    OBVIOUS
  <2>4. solver' = u \/ solver' = [u EXCEPT !.edges = edges, !.agenda = agenda, !.arriving = arriving]
    BY <2>1, <2>2, <2>3 DEF Follow
  <2>5. \/ solver' = [solver EXCEPT !.flow = flow]
        \/ solver' = [solver EXCEPT !.flow = flow, !.edges = edges, !.agenda = agenda,
                                    !.arriving = arriving]
    BY <2>2, <2>4
  <2>6. run <= 2 => solver'.known = solver.known
    BY <1>3, <2>5 DEF Solvers
  <2> QED BY <1>5, <2>1, <2>6
<1>8. CASE WakeReaders
  <2>1. /\ function' = function /\ run' = run
        /\ solver' = [solver EXCEPT !.ssa = Front(@),
                                    !.agenda = ReadersOf(solver, Last(solver.ssa))]
    BY <1>8 DEF WakeReaders
  <2>2. run <= 2 => solver'.known = solver.known
    BY <1>3, <2>1 DEF Solvers
  <2> QED BY <1>5, <2>1, <2>2
<1>9. CASE SwitchStack
  BY <1>5, <1>9 DEF SwitchStack
<1>10. CASE Apply
  <2>1. run <= 2 /\ run' = run + 1 /\ function' = Applied(function, solver)
        /\ (run = 1 => solver' = Fresh)
    BY <1>10 DEF Apply, Begin
  <2>2. IsFunction(function') /\ WellFormed(function')
    BY <2>1, AppliedIsWellFormed DEF Accepted
  <2>3. run' <= 2 => KnowsWords(solver)'
    <3>1. SUFFICES ASSUME run' <= 2 PROVE KnowsWords(solver)'
      OBVIOUS
    <3>2. solver' = Fresh
      BY <1>1, <2>1, <3>1
    <3>3. KnowsWords(solver')
      BY <3>2, FreshKnowsWords
    <3> QED BY <3>3 DEF KnowsWords
  <2> QED BY <2>2, <2>3 DEF Accepted
<1>11. CASE UNCHANGED vars
  BY <1>5, <1>11 DEF vars
<1> QED BY <1>4, <1>6, <1>7, <1>8, <1>9, <1>10, <1>11 DEF Next, Finished

(***************************************************************************)
(* Deleting edges and blocks leaves a function the verifier accepts, after *)
(* the first run of the pass and after the second.                         *)
(***************************************************************************)
THEOREM PropagationStaysWellFormed == Spec => []StaysWellFormed
<1>1. Accepted => StaysWellFormed
  BY DEF Accepted, StaysWellFormed
<1> QED BY <1>1, SolvingStarts, SolvingStep, AcceptedStarts, AcceptedStep, PTL DEF Spec

(***************************************************************************)
(* What either run of the pass concludes is true of every run of the       *)
(* function, whatever functions it is given: the blocks entered were       *)
(* proved reachable, the edges followed traversable, and every value known *)
(* to be constant is.                                                      *)
(***************************************************************************)
THEOREM EverySolutionIsSound == Spec => []SolutionIsSound
<1>1. Solving /\ Accepted => SolutionIsSound
  BY SolvedSoundly DEF Accepted
<1> QED BY <1>1, SolvingStarts, SolvingStep, AcceptedStarts, AcceptedStep, PTL DEF Spec

-----------------------------------------------------------------------------
(***************************************************************************)
(* The measure: what is still to be learnt, and the work left to do.       *)
(***************************************************************************)
LEMMA VisitsAreFinite ==
    ASSUME IsFunction(function)
    PROVE  IsFiniteSet(AllVisits)
<1>1. ASSUME NEW b \in BlockIds(function) PROVE IsFiniteSet(VisitsOf(b))
  <2>1. PICK n \in Nat : DOMAIN function.blocks[b].phis = 1 .. n
    BY PhiTypes
  <2>2. PICK m \in Nat : DOMAIN function.blocks[b].insts = 1 .. m
    BY InstTypes
  <2>3. IsFiniteSet(1 .. n) /\ IsFiniteSet(1 .. m)
    BY FS_Interval
  <2>4. IsFiniteSet({b}) /\ IsFiniteSet({0}) /\ IsFiniteSet({1}) /\ IsFiniteSet({<<b, 2, 1>>})
    BY FS_Singleton
  <2> DEFINE phis == {<<b, 0, p>> : p \in 1 .. n}
             insts == {<<b, 1, i>> : i \in 1 .. m}
  <2>5. IsFiniteSet(phis)
    <3>1. PICK g : g = [p \in 1 .. n |-> <<b, 0, p>>]
      OBVIOUS
    <3>2. phis = {g[k] : k \in 1 .. n}
      BY <3>1
    <3> QED BY <3>2, RangeIsFinite
  <2>6. IsFiniteSet(insts)
    <3>1. PICK g : g = [i \in 1 .. m |-> <<b, 1, i>>]
      OBVIOUS
    <3>2. insts = {g[k] : k \in 1 .. m}
      BY <3>1
    <3> QED BY <3>2, RangeIsFinite
  <2>7. VisitsOf(b) = (phis \cup insts) \cup {<<b, 2, 1>>}
    BY <2>1, <2>2, VisitFacts
  <2> HIDE DEF phis, insts
  <2>8. IsFiniteSet(phis \cup insts)
    BY <2>5, <2>6, FS_Union
  <2>9. PICK A, B : A = phis \cup insts /\ B = {<<b, 2, 1>>}
    OBVIOUS
  <2>10. IsFiniteSet(A) /\ IsFiniteSet(B) /\ VisitsOf(b) = A \cup B
    BY <2>4, <2>7, <2>8, <2>9
  <2> QED BY <2>10, FS_Union
<1>2. PICK n \in Nat : BlockIds(function) = 1 .. n
  BY BlockTypes
<1>3. PICK g : g = [b \in 1 .. n |-> VisitsOf(b)]
  OBVIOUS
<1>4. {VisitsOf(b) : b \in BlockIds(function)} = {g[k] : k \in 1 .. n}
  BY <1>2, <1>3
<1>5. IsFiniteSet({VisitsOf(b) : b \in BlockIds(function)})
  BY <1>4, RangeIsFinite
<1>6. \A visits \in {VisitsOf(b) : b \in BlockIds(function)} : IsFiniteSet(visits)
  BY <1>1
<1> QED BY <1>5, <1>6, FS_UNION DEF AllVisits

LEMMA WorkFacts ==
    ASSUME NEW S, IsFiniteSet(S), NEW T \in SUBSET S
    PROVE  /\ WorkOf(T) \in Nat /\ WorkOf(T) <= WorkOf(S)
           /\ \A visit \in T :
                 WorkOf(T \ {visit}) = WorkOf(T) - (IF visit[2] = 2 THEN 3 ELSE 1)
           /\ WorkOf({}) = 0
<1> DEFINE Exits(visits) == {visit \in visits : visit[2] = 2}
<1>1. IsFiniteSet(T) /\ Cardinality(T) \in Nat /\ Cardinality(S) \in Nat /\ Cardinality(T) <= Cardinality(S)
  BY FS_Subset, FS_CardinalityType
<1>2. IsFiniteSet(Exits(S)) /\ IsFiniteSet(Exits(T))
  BY <1>1, FS_Subset
<1>3. Cardinality(Exits(T)) \in Nat /\ Cardinality(Exits(S)) \in Nat
  BY <1>2, FS_CardinalityType
<1>4. Cardinality(Exits(T)) <= Cardinality(Exits(S))
  <2>1. Exits(T) \in SUBSET Exits(S)
    OBVIOUS
  <2> HIDE DEF Exits
  <2> QED BY <1>2, <2>1, FS_Subset
<1>5. ASSUME NEW visit \in T
      PROVE  WorkOf(T \ {visit}) = WorkOf(T) - (IF visit[2] = 2 THEN 3 ELSE 1)
  <2>1. Cardinality(T \ {visit}) = Cardinality(T) - 1
    BY <1>1, FS_RemoveElement
  <2>2. Exits(T \ {visit}) = Exits(T) \ {visit}
    OBVIOUS
  <2>3. Cardinality(Exits(T) \ {visit})
        = IF visit[2] = 2 THEN Cardinality(Exits(T)) - 1 ELSE Cardinality(Exits(T))
    <3>1. visit \in Exits(T) <=> visit[2] = 2
      OBVIOUS
    <3> HIDE DEF Exits
    <3> QED BY <1>2, <3>1, FS_RemoveElement
  <2>4. WorkOf(T \ {visit}) = Cardinality(T \ {visit}) + 2 * Cardinality(Exits(T \ {visit}))
        /\ WorkOf(T) = Cardinality(T) + 2 * Cardinality(Exits(T))
    BY DEF WorkOf
  <2> HIDE DEF Exits
  <2>5. PICK a, x, c, y : /\ a = Cardinality(T) /\ x = Cardinality(Exits(T))
                          /\ c = Cardinality(T \ {visit}) /\ y = Cardinality(Exits(T \ {visit}))
    OBVIOUS
  <2>6. a \in Nat /\ x \in Nat /\ c = a - 1 /\ y = IF visit[2] = 2 THEN x - 1 ELSE x
    BY <1>1, <1>3, <2>1, <2>2, <2>3, <2>5
  <2>7. WorkOf(T \ {visit}) = c + 2 * y /\ WorkOf(T) = a + 2 * x
    BY <2>4, <2>5
  <2>8. CASE visit[2] = 2
    BY <2>6, <2>7, <2>8
  <2>9. CASE visit[2] # 2
    BY <2>6, <2>7, <2>9
  <2> QED BY <2>8, <2>9
<1>6. WorkOf({}) = 0
  <2>1. Exits({}) = {}
    OBVIOUS
  <2>2. WorkOf({}) = Cardinality({}) + 2 * Cardinality(Exits({}))
    BY DEF WorkOf
  <2> QED BY <2>1, <2>2, FS_EmptySet
<1>7. WorkOf(T) = Cardinality(T) + 2 * Cardinality(Exits(T))
      /\ WorkOf(S) = Cardinality(S) + 2 * Cardinality(Exits(S))
  BY DEF WorkOf
<1> HIDE DEF Exits
<1> QED BY <1>1, <1>3, <1>4, <1>5, <1>6, <1>7

(***************************************************************************)
(* What a solver can still learn.                                          *)
(***************************************************************************)
UnknownIn(s)  == {v \in Values : s.known[v] = Nothing}
KnowableIn(s) == {v \in Values : s.known[v] # Anything}

LearnOf(s) ==
    Cardinality(UnknownIn(s)) + Cardinality(KnowableIn(s))
    + Cardinality(EdgesOf(function) \ s.edges) + Cardinality(BlockIds(function) \ s.executable)

LEMMA LearnFacts ==
    ASSUME IsFunction(function), NEW s
    PROVE  /\ IsFiniteSet(UnknownIn(s)) /\ Cardinality(UnknownIn(s)) \in Nat
           /\ IsFiniteSet(KnowableIn(s)) /\ Cardinality(KnowableIn(s)) \in Nat
           /\ IsFiniteSet(EdgesOf(function) \ s.edges)
           /\ Cardinality(EdgesOf(function) \ s.edges) \in Nat
           /\ IsFiniteSet(BlockIds(function) \ s.executable)
           /\ Cardinality(BlockIds(function) \ s.executable) \in Nat
<1>1. IsFiniteSet(Values)
  BY SsaAssumption
<1>2. IsFiniteSet(UnknownIn(s)) /\ IsFiniteSet(KnowableIn(s))
  <2>1. UnknownIn(s) \in SUBSET Values /\ KnowableIn(s) \in SUBSET Values
    BY DEF UnknownIn, KnowableIn
  <2> QED BY <1>1, <2>1, FS_Subset
<1>3. IsFiniteSet(BlockIds(function))
  <2>1. PICK n \in Nat : BlockIds(function) = 1 .. n
    BY BlockTypes
  <2> QED BY <2>1, FS_Interval
<1>4. IsFiniteSet(BlockIds(function) \ s.executable)
  BY <1>3, FS_Subset
<1>5. IsFiniteSet(EdgesOf(function) \ s.edges)
  <2>1. IsFiniteSet(BlockIds(function) \X BlockIds(function))
    BY <1>3, FS_Product
  <2>2. EdgesOf(function) \ s.edges \in SUBSET (BlockIds(function) \X BlockIds(function))
    BY DEF EdgesOf
  <2> QED BY <2>1, <2>2, FS_Subset
<1> QED BY <1>2, <1>4, <1>5, FS_CardinalityType

\* An edge or a block that was not known yet.
LEMMA OneLess ==
    ASSUME NEW S, NEW T, IsFiniteSet(S \ T), NEW e \in S \ T
    PROVE  Cardinality(S \ (T \cup {e})) = Cardinality(S \ T) - 1
<1>1. S \ (T \cup {e}) = (S \ T) \ {e}
  OBVIOUS
<1> QED BY <1>1, FS_RemoveElement

(***************************************************************************)
(* record either changes nothing or lowers what is still to be learnt.     *)
(***************************************************************************)
LEMMA RecordLearns ==
    ASSUME IsFunction(function), NEW K, NEW s \in Solvers(K), NEW v \in Values, NEW e
    PROVE  Record(s, v, e) = s \/ LearnOf(Record(s, v, e)) < LearnOf(s)
<1>1. PICK after, t : after = Meet(s.known[v], e) /\ t = Record(s, v, e)
  OBVIOUS
<1>2. SUFFICES ASSUME after # s.known[v] PROVE LearnOf(t) < LearnOf(s)
  BY <1>1 DEF Record
<1>3. PICK known : known = [s.known EXCEPT ![v] = after]
  OBVIOUS
<1>4. s.known \in [Values -> K]
  BY DEF Solvers
<1>5. known[v] = after /\ \A w \in Values : w # v => known[w] = s.known[w]
  BY <1>3, <1>4
<1>6. t.known = known /\ t.edges = s.edges /\ t.executable = s.executable
  <2>1. PICK ssa : ssa = Append(s.ssa, v)
    OBVIOUS
  <2>2. t = [s EXCEPT !.known = known, !.ssa = ssa]
    BY <1>1, <1>2, <1>3, <2>1 DEF Record
  <2> QED BY <2>2 DEF Solvers
<1>7. Nothing # Anything
  BY KnownDiffer
<1>8. after \in {s.known[v], e, Anything} /\ after # Nothing
      /\ s.known[v] # Anything /\ (s.known[v] # Nothing => after = Anything)
  BY <1>1, <1>2, <1>7 DEF Meet
<1>9. PICK x, y, p, q : /\ x = Cardinality(UnknownIn(s)) /\ y = Cardinality(KnowableIn(s))
                        /\ p = Cardinality(UnknownIn(t)) /\ q = Cardinality(KnowableIn(t))
  OBVIOUS
<1>10. x \in Nat /\ y \in Nat /\ p \in Nat /\ q \in Nat
  BY <1>9, LearnFacts
<1>11. p + q < x + y
  <2>1. CASE s.known[v] = Nothing
    <3>1. v \in UnknownIn(s) /\ UnknownIn(t) = UnknownIn(s) \ {v}
      BY <1>5, <1>6, <1>8, <2>1 DEF UnknownIn
    <3>2. p = x - 1
      BY <1>9, <3>1, LearnFacts, FS_RemoveElement
    <3>3. KnowableIn(t) \in SUBSET KnowableIn(s)
      BY <1>5, <1>6, <1>8 DEF KnowableIn
    <3>4. q <= y
      BY <1>9, <3>3, LearnFacts, FS_Subset
    <3> QED BY <1>10, <3>2, <3>4
  <2>2. CASE s.known[v] # Nothing
    <3>1. UnknownIn(t) = UnknownIn(s)
      BY <1>5, <1>6, <1>8, <2>2 DEF UnknownIn
    <3>2. v \in KnowableIn(s) /\ KnowableIn(t) = KnowableIn(s) \ {v}
      BY <1>5, <1>6, <1>8, <2>2 DEF KnowableIn
    <3>3. q = y - 1
      BY <1>9, <3>2, LearnFacts, FS_RemoveElement
    <3> QED BY <1>9, <1>10, <3>1, <3>3
  <2> QED BY <2>1, <2>2
<1>12. PICK m, n : /\ m = Cardinality(EdgesOf(function) \ s.edges)
                   /\ n = Cardinality(BlockIds(function) \ s.executable)
  OBVIOUS
<1>13. m \in Nat /\ n \in Nat
  BY <1>12, LearnFacts
<1>14. LearnOf(s) = x + y + m + n /\ LearnOf(t) = p + q + m + n
  BY <1>6, <1>9, <1>12 DEF LearnOf
<1> QED BY <1>10, <1>11, <1>13, <1>14

(***************************************************************************)
(* A visit teaches something, or leaves at most two edges behind.          *)
(***************************************************************************)
PushedBy(visit) == IF visit[2] = 2 THEN 2 ELSE 0

TeachesNothing(s, t, visit) ==
    /\ t.known = s.known /\ t.ssa = s.ssa
    /\ t.edges = s.edges /\ t.executable = s.executable
    /\ Len(t.flow) <= Len(s.flow) + PushedBy(visit)

LEMMA VisitsTeach ==
    ASSUME IsFunction(function), NEW K, NEW s \in Solvers(K), NEW b \in BlockIds(function),
           NEW visit \in VisitsOf(b)
    PROVE  LearnOf(Visit(s, visit)) < LearnOf(s) \/ TeachesNothing(s, Visit(s, visit), visit)
<1>1. Len(s.flow) \in Nat
  <2>1. PICK E : E = Edges
    OBVIOUS
  <2>2. s.flow \in Seq(E)
    BY <2>1 DEF Solvers
  <2> QED BY <2>2
<1>2. TeachesNothing(s, s, visit)
  <2>1. PushedBy(visit) \in {0, 2}
    BY DEF PushedBy
  <2>2. Len(s.flow) <= Len(s.flow) + PushedBy(visit)
    BY <1>1, <2>1
  <2> QED BY <2>2 DEF TeachesNothing
<1>3. CASE \E p \in DOMAIN function.blocks[b].phis : visit = <<b, 0, p>>
  <2>1. PICK p \in DOMAIN function.blocks[b].phis : visit = <<b, 0, p>>
    BY <1>3
  <2>2. function.blocks[b].phis[p].dest \in Values
    BY PhiTypes
  <2>3. Visit(s, visit) = VisitPhi(s, b, function.blocks[b].phis[p])
    BY <2>1, VisitCases
  <2> QED BY <1>2, <2>2, <2>3, RecordLearns DEF VisitPhi
<1>4. CASE \E i \in DOMAIN function.blocks[b].insts : visit = <<b, 1, i>>
  <2>1. PICK i \in DOMAIN function.blocks[b].insts : visit = <<b, 1, i>>
    BY <1>4
  <2>2. PICK inst : inst = function.blocks[b].insts[i]
    OBVIOUS
  <2>3. inst.dest \in Values \cup {NoValue}
    BY <2>2, InstTypes
  <2>4. Visit(s, visit) = VisitInst(s, inst)
    BY <2>1, <2>2, VisitCases
  <2>5. CASE inst.dest = NoValue
    BY <1>2, <2>4, <2>5 DEF VisitInst
  <2>6. CASE inst.dest # NoValue
    <3>1. Visit(s, visit) = Record(s, inst.dest, Evaluate(s, inst)) /\ inst.dest \in Values
      BY <2>3, <2>4, <2>6, SMTT(30) DEF VisitInst
    <3> QED BY <1>2, <3>1, RecordLearns
  <2> QED BY <2>5, <2>6
<1>5. CASE visit = <<b, 2, 1>>
  <2>1. PICK targets, more, flow, t : /\ targets = Leaving(s, function.blocks[b].term)
                                      /\ more = [k \in DOMAIN targets |-> <<b, targets[k]>>]
                                      /\ flow = s.flow \o more
                                      /\ t = Visit(s, visit)
    OBVIOUS
  <2>2. t = [s EXCEPT !.flow = flow]
    <3>1. t = VisitTerminator(s, b)
      BY <1>5, <2>1, VisitCases
    <3> QED BY <2>1, <3>1 DEF VisitTerminator
  <2>3. /\ t.known = s.known /\ t.ssa = s.ssa /\ t.edges = s.edges
        /\ t.executable = s.executable /\ t.flow = flow
    BY <2>2 DEF Solvers
  <2>4. Len(targets) \in {0, 1, 2} /\ DOMAIN targets = 1 .. Len(targets)
    <3>1. PICK term, ids : term = function.blocks[b].term /\ ids = BlockIds(function)
      OBVIOUS
    <3>2. HasItsTargets(term) /\ targets \in Seq(ids)
      BY <2>1, <3>1, LeavingTypes DEF IsFunction
    <3>3. CASE term.kind = "jump"
      <4>1. targets = term.to
        BY <2>1, <3>1, <3>3 DEF Leaving
      <4>2. Len(term.to) = 1
        BY <3>2, <3>3 DEF HasItsTargets
      <4> QED BY <3>2, <4>1, <4>2
    <3>4. CASE term.kind = "branch"
      <4>1. targets \in {<<>>, term.to, <<term.to[1]>>, <<term.to[2]>>}
        BY <2>1, <3>1, <3>4, Zenon DEF Leaving
      <4>2. Len(term.to) = 2
        BY <3>2, <3>4 DEF HasItsTargets
      <4> QED BY <3>2, <4>1, <4>2
    <3>5. CASE term.kind # "jump" /\ term.kind # "branch"
      <4>1. targets = <<>>
        BY <2>1, <3>1, <3>5, ZenonT(30) DEF Leaving
      <4> QED BY <4>1
    <3> QED BY <3>3, <3>4, <3>5
  <2>5. more \in Seq({more[k] : k \in DOMAIN targets}) /\ Len(more) = Len(targets)
    BY <2>1, <2>4
  <2>6. Len(flow) = Len(s.flow) + Len(more)
    <3>1. PICK E, M : E = Edges /\ M = {more[k] : k \in DOMAIN targets}
      OBVIOUS
    <3>2. s.flow \in Seq(E) /\ more \in Seq(M)
      BY <2>5, <3>1 DEF Solvers
    <3>3. PICK front : front = s.flow
      OBVIOUS
    <3>4. front \in Seq(E \cup M) /\ more \in Seq(E \cup M)
      BY <3>2, <3>3
    <3>5. Len(front \o more) = Len(front) + Len(more)
      BY <3>4, ConcatProperties
    <3> QED BY <2>1, <3>3, <3>5
  <2>7. PushedBy(visit) = 2
    BY <1>5 DEF PushedBy
  <2>8. Len(t.flow) <= Len(s.flow) + PushedBy(visit)
    <3>1. PICK l, n, m : l = Len(s.flow) /\ n = Len(targets) /\ m = Len(t.flow)
      OBVIOUS
    <3>2. l \in Nat /\ n \in {0, 1, 2} /\ m = l + n
      BY <1>1, <2>3, <2>4, <2>5, <2>6, <3>1
    <3>3. m <= l + 2
      BY <3>2
    <3> QED BY <2>7, <3>1, <3>3
  <2> QED BY <2>1, <2>3, <2>8 DEF TeachesNothing
<1> QED BY <1>3, <1>4, <1>5, VisitFacts

(***************************************************************************)
(* The work left: every pop and every visit that teaches nothing lowers    *)
(* it.                                                                     *)
(***************************************************************************)
WorkLeftOf(s) ==
    Len(s.flow) + WorkOf(s.agenda) + Len(s.ssa) * (1 + WorkOf(AllVisits))

LEMMA MeasureParts ==
    StillToLearn = LearnOf(solver) /\ WorkLeft = WorkLeftOf(solver)
  BY DEF StillToLearn, LearnOf, UnknownIn, KnowableIn, WorkLeft, WorkLeftOf, AllVisits

LEMMA WorkTypes ==
    ASSUME IsFunction(function), NEW K, NEW s \in Solvers(K)
    PROVE  /\ Len(s.flow) \in Nat /\ Len(s.ssa) \in Nat
           /\ WorkOf(s.agenda) \in Nat /\ WorkOf(AllVisits) \in Nat
<1>1. PICK E : E = Edges
  OBVIOUS
<1>2. s.flow \in Seq(E) /\ s.ssa \in Seq(Values) /\ s.agenda \in SUBSET AllVisits
  BY <1>1 DEF Solvers
<1>3. Len(s.flow) \in Nat /\ Len(s.ssa) \in Nat
  BY <1>2
<1>4. AllVisits \in SUBSET AllVisits
  OBVIOUS
<1> QED BY <1>2, <1>3, <1>4, VisitsAreFinite, WorkFacts

Lowers(s, t) ==
    \/ LearnOf(t) < LearnOf(s)
    \/ LearnOf(t) = LearnOf(s) /\ WorkLeftOf(t) < WorkLeftOf(s)

LEMMA VisitLowers ==
    ASSUME IsFunction(function), NEW K, NEW s \in Solvers(K), NEW visit \in s.agenda
    PROVE  Lowers(s, [Visit(s, visit) EXCEPT !.agenda = @ \ {visit}])
<1>1. PICK b \in BlockIds(function) : visit \in VisitsOf(b)
  <2>1. visit \in AllVisits
    BY DEF Solvers
  <2> QED BY <2>1 DEF AllVisits
<1>2. PICK u : u = Visit(s, visit)
  OBVIOUS
<1>3. VisitIsMade(s, u, visit)
  BY <1>1, <1>2, VisitsAreMade
<1>4. PICK L : u \in Solvers(L)
  BY <1>3 DEF VisitIsMade
<1>5. u.agenda = s.agenda
  BY <1>3 DEF VisitIsMade
<1>6. PICK t : t = [u EXCEPT !.agenda = s.agenda \ {visit}]
  OBVIOUS
<1>7. /\ t.known = u.known /\ t.ssa = u.ssa /\ t.flow = u.flow
      /\ t.executable = u.executable /\ t.edges = u.edges /\ t.agenda = s.agenda \ {visit}
  BY <1>4, <1>6 DEF Solvers
<1>8. LearnOf(t) = LearnOf(u)
  BY <1>7 DEF LearnOf, UnknownIn, KnowableIn
<1>9. [Visit(s, visit) EXCEPT !.agenda = @ \ {visit}] = t
  BY <1>2, <1>5, <1>6
<1>10. CASE LearnOf(u) < LearnOf(s)
  BY <1>8, <1>9, <1>10 DEF Lowers
<1>11. CASE TeachesNothing(s, u, visit)
  <2>1. LearnOf(u) = LearnOf(s)
    BY <1>11 DEF TeachesNothing, LearnOf, UnknownIn, KnowableIn
  <2>2. s.agenda \in SUBSET AllVisits
    BY DEF Solvers
  <2>3. WorkOf(t.agenda) = WorkOf(s.agenda) - (IF visit[2] = 2 THEN 3 ELSE 1)
    BY <1>7, <2>2, VisitsAreFinite, WorkFacts
  <2>4. Len(t.flow) <= Len(s.flow) + PushedBy(visit)
    BY <1>7, <1>11 DEF TeachesNothing
  <2>5. PICK f, g, a, d, p, c : /\ f = Len(s.flow) /\ g = Len(t.flow) /\ a = WorkOf(s.agenda)
                                /\ d = WorkOf(t.agenda) /\ p = PushedBy(visit)
                                /\ c = Len(s.ssa) * (1 + WorkOf(AllVisits))
    OBVIOUS
  <2>6. f \in Nat /\ g \in Nat /\ a \in Nat /\ g <= f + p
    <3>1. Len(u.flow) \in Nat
      BY <1>4, WorkTypes
    <3> QED BY <1>7, <2>4, <2>5, <3>1, WorkTypes
  <2>7. c \in Int
    <3>1. PICK l, w : l = Len(s.ssa) /\ w = WorkOf(AllVisits)
      OBVIOUS
    <3>2. l \in Nat /\ w \in Nat
      BY <3>1, WorkTypes
    <3> QED BY <2>5, <3>1, <3>2
  <2>8. p \in {0, 2} /\ d = a - (p + 1)
    <3>1. CASE visit[2] = 2
      BY <2>3, <2>5, <2>6, <3>1 DEF PushedBy
    <3>2. CASE visit[2] # 2
      BY <2>3, <2>5, <2>6, <3>2 DEF PushedBy
    <3> QED BY <3>1, <3>2
  <2>9. WorkLeftOf(s) = f + a + c /\ WorkLeftOf(t) = g + d + c
    <3>1. t.ssa = s.ssa
      BY <1>7, <1>11 DEF TeachesNothing
    <3> QED BY <2>5, <3>1 DEF WorkLeftOf
  <2>10. g + d + c < f + a + c
    BY <2>6, <2>7, <2>8
  <2> QED BY <1>8, <1>9, <2>1, <2>9, <2>10 DEF Lowers
<1>12. LearnOf(u) < LearnOf(s) \/ TeachesNothing(s, u, visit)
  BY <1>1, <1>2, VisitsTeach
<1> QED BY <1>10, <1>11, <1>12

LEMMA EnteringLowers ==
    ASSUME IsFunction(function), NEW K, NEW s \in Solvers(K),
           s.arriving # 0, s.arriving \notin s.executable
    PROVE  Lowers(s, [s EXCEPT !.executable = @ \cup {s.arriving},
                               !.agenda = VisitsOf(s.arriving), !.arriving = 0])
<1>1. PICK b, executable, agenda, t :
         /\ b = s.arriving /\ executable = s.executable \cup {b} /\ agenda = VisitsOf(b)
         /\ t = [s EXCEPT !.executable = executable, !.agenda = agenda, !.arriving = 0]
  BY Zenon
<1>2. t.known = s.known /\ t.edges = s.edges /\ t.executable = executable
  BY <1>1 DEF Solvers
<1>3. b \in BlockIds(function) \ s.executable
  BY <1>1 DEF Solvers
<1>4. Cardinality(BlockIds(function) \ executable) = Cardinality(BlockIds(function) \ s.executable) - 1
  BY <1>1, <1>3, LearnFacts, OneLess
<1>5. PICK p, q, m, n : /\ p = Cardinality(UnknownIn(s)) /\ q = Cardinality(KnowableIn(s))
                        /\ m = Cardinality(EdgesOf(function) \ s.edges)
                        /\ n = Cardinality(BlockIds(function) \ s.executable)
  OBVIOUS
<1>6. p \in Nat /\ q \in Nat /\ m \in Nat /\ n \in Nat
  BY <1>5, LearnFacts
<1>7. LearnOf(s) = p + q + m + n /\ LearnOf(t) = p + q + m + (n - 1)
  BY <1>2, <1>4, <1>5 DEF LearnOf, UnknownIn, KnowableIn
<1>8. LearnOf(t) < LearnOf(s)
  BY <1>6, <1>7
<1> QED BY <1>1, <1>8 DEF Lowers

\* A stack is one lower without its top.
LEMMA TopIsOne ==
    ASSUME NEW S, NEW stack \in Seq(S), stack # <<>>
    PROVE  Len(stack) \in Nat /\ Len(Front(stack)) = Len(stack) - 1
  BY FrontFacts

LEMMA FollowingLowers ==
    ASSUME IsFunction(function), NEW K, NEW s \in Solvers(K), s.agenda = {}, s.flow # <<>>,
           ToSet(s.flow) \subseteq EdgesOf(function)
    PROVE  Lowers(s, Follow([s EXCEPT !.flow = Front(@)], Last(s.flow)))
<1>1. PICK edge, flow, u, t :
         /\ edge = Last(s.flow) /\ flow = Front(s.flow)
         /\ u = [s EXCEPT !.flow = flow] /\ t = Follow(u, edge)
  OBVIOUS
<1>2. Len(s.flow) \in Nat /\ Len(flow) = Len(s.flow) - 1 /\ edge \in EdgesOf(function)
  <2>1. PICK E : E = Edges
    OBVIOUS
  <2>2. s.flow \in Seq(E)
    BY <2>1 DEF Solvers
  <2>3. edge \in ToSet(s.flow)
    BY <1>1, <2>2, TopOfStack
  <2> QED BY <1>1, <2>2, <2>3, TopIsOne
<1>3. /\ u.known = s.known /\ u.ssa = s.ssa /\ u.flow = flow
      /\ u.executable = s.executable /\ u.edges = s.edges /\ u.agenda = s.agenda
  BY <1>1 DEF Solvers
<1>4. CASE edge \in s.edges
  <2>1. t = u
    BY <1>1, <1>3, <1>4 DEF Follow
  <2>2. LearnOf(t) = LearnOf(s)
    BY <1>3, <2>1 DEF LearnOf, UnknownIn, KnowableIn
  <2>3. PICK f, a, c : /\ f = Len(s.flow) /\ a = WorkOf(s.agenda)
                       /\ c = Len(s.ssa) * (1 + WorkOf(AllVisits))
    OBVIOUS
  <2>4. f \in Nat /\ a \in Nat /\ c \in Int
    <3>1. PICK l, w : l = Len(s.ssa) /\ w = WorkOf(AllVisits)
      OBVIOUS
    <3>2. l \in Nat /\ w \in Nat
      BY <3>1, WorkTypes
    <3>3. l * (1 + w) \in Int
      BY <3>2
    <3> QED BY <2>3, <3>1, <3>3, WorkTypes
  <2>5. WorkLeftOf(s) = f + a + c /\ WorkLeftOf(t) = (f - 1) + a + c
    BY <1>2, <1>3, <2>1, <2>3 DEF WorkLeftOf
  <2>6. WorkLeftOf(t) < WorkLeftOf(s)
    BY <2>4, <2>5
  <2> QED BY <1>1, <2>2, <2>6 DEF Lowers
<1>5. CASE edge \notin s.edges
  <2>1. t.known = s.known /\ t.executable = s.executable /\ t.edges = s.edges \cup {edge}
    <3>1. PICK edges, agenda, arriving :
             /\ edges = u.edges \cup {edge} /\ agenda = PhiVisits(edge[2])
             /\ arriving = IF edge[2] \in u.executable THEN 0 ELSE edge[2]
      OBVIOUS
    <3>2. t = [u EXCEPT !.edges = edges, !.agenda = agenda, !.arriving = arriving]
      BY <1>1, <1>3, <1>5, <3>1 DEF Follow
    <3>3. t = [s EXCEPT !.flow = flow, !.edges = edges, !.agenda = agenda, !.arriving = arriving]
      BY <1>1, <3>2
    <3> QED BY <1>3, <3>1, <3>3 DEF Solvers
  <2>2. Cardinality(EdgesOf(function) \ t.edges) = Cardinality(EdgesOf(function) \ s.edges) - 1
    <3>1. PICK S, T : S = EdgesOf(function) /\ T = s.edges
      OBVIOUS
    <3>2. IsFiniteSet(S \ T) /\ edge \in S \ T
      BY <1>2, <1>5, <3>1, LearnFacts
    <3> QED BY <2>1, <3>1, <3>2, OneLess
  <2>3. PICK p, q, m, n : /\ p = Cardinality(UnknownIn(s)) /\ q = Cardinality(KnowableIn(s))
                          /\ m = Cardinality(EdgesOf(function) \ s.edges)
                          /\ n = Cardinality(BlockIds(function) \ s.executable)
    OBVIOUS
  <2>4. p \in Nat /\ q \in Nat /\ m \in Nat /\ n \in Nat
    BY <2>3, LearnFacts
  <2>5. LearnOf(s) = p + q + m + n /\ LearnOf(t) = p + q + (m - 1) + n
    BY <2>1, <2>2, <2>3 DEF LearnOf, UnknownIn, KnowableIn
  <2>6. LearnOf(t) < LearnOf(s)
    BY <2>4, <2>5
  <2> QED BY <1>1, <2>6 DEF Lowers
<1> QED BY <1>4, <1>5

LEMMA WakingLowers ==
    ASSUME IsFunction(function), NEW K, NEW s \in Solvers(K), s.agenda = {}, s.ssa # <<>>
    PROVE  Lowers(s, [s EXCEPT !.ssa = Front(@), !.agenda = ReadersOf(s, Last(s.ssa))])
<1>1. PICK ssa, agenda, t : /\ ssa = Front(s.ssa) /\ agenda = ReadersOf(s, Last(s.ssa))
                            /\ t = [s EXCEPT !.ssa = ssa, !.agenda = agenda]
  BY Zenon
<1>2. /\ t.known = s.known /\ t.ssa = ssa /\ t.flow = s.flow
      /\ t.executable = s.executable /\ t.edges = s.edges /\ t.agenda = agenda
  BY <1>1 DEF Solvers
<1>3. LearnOf(t) = LearnOf(s)
  BY <1>2 DEF LearnOf, UnknownIn, KnowableIn
<1>4. agenda \in SUBSET AllVisits
  <2>1. s.executable \subseteq BlockIds(function)
    BY DEF Solvers
  <2> QED BY <1>1, <2>1 DEF ReadersOf, AllVisits
<1>5. PICK f, l, m, w, d : /\ f = Len(s.flow) /\ l = Len(s.ssa) /\ m = Len(ssa)
                           /\ w = WorkOf(AllVisits) /\ d = WorkOf(agenda)
  OBVIOUS
<1>6. f \in Nat /\ l \in Nat /\ w \in Nat
  BY <1>5, WorkTypes
<1>7. d \in Nat /\ d <= w
  BY <1>4, <1>5, VisitsAreFinite, WorkFacts
<1>8. m = l - 1
  <2>1. s.ssa \in Seq(Values)
    BY DEF Solvers
  <2> QED BY <1>1, <1>5, <2>1, TopIsOne
<1>9. WorkOf(s.agenda) = 0
  BY VisitsAreFinite, WorkFacts
<1>10. WorkLeftOf(s) = f + 0 + l * (1 + w) /\ WorkLeftOf(t) = f + d + m * (1 + w)
  BY <1>2, <1>5, <1>9 DEF WorkLeftOf
<1>11. m * (1 + w) = l * (1 + w) - (1 + w)
  BY <1>6, <1>8
<1>12. PICK c : c = l * (1 + w)
  OBVIOUS
<1>13. c \in Int
  BY <1>6, <1>12
<1>14. f + d + (c - (1 + w)) < f + 0 + c
  BY <1>6, <1>7, <1>13
<1>15. WorkLeftOf(t) < WorkLeftOf(s)
  BY <1>10, <1>11, <1>12, <1>14
<1> QED BY <1>1, <1>3, <1>15 DEF Lowers

(***************************************************************************)
(* What the steps keep besides: an edge is pushed because a terminator has *)
(* it, and a block arrives once.                                           *)
(***************************************************************************)
Pushed(s) == ToSet(s.flow) \subseteq EdgesOf(function) /\ s.arriving \notin s.executable

Ending ==
    /\ run <= 2 /\ IsFunction(function) => Pushed(solver)
    /\ run = 3 => Solved

LEMMA FreshIsPushed ==
    ASSUME IsFunction(function)
    PROVE  Pushed(Fresh)
  BY DEF Pushed, Fresh, ToSet

LEMMA RecordPushes ==
    ASSUME NEW K, NEW s \in Solvers(K), NEW v \in Values, NEW e, Pushed(s)
    PROVE  Pushed(Record(s, v, e))
  BY RecordFacts DEF Pushed

LEMMA VisitPushes ==
    ASSUME IsFunction(function), NEW K, NEW s \in Solvers(K), Pushed(s), NEW visit \in s.agenda
    PROVE  Pushed([Visit(s, visit) EXCEPT !.agenda = @ \ {visit}])
<1>1. PICK b \in BlockIds(function) : visit \in VisitsOf(b)
  <2>1. visit \in AllVisits
    BY DEF Solvers
  <2> QED BY <2>1 DEF AllVisits
<1>2. PICK u : u = Visit(s, visit)
  OBVIOUS
<1>3. VisitIsMade(s, u, visit)
  BY <1>1, <1>2, VisitsAreMade
<1>4. PICK L : u \in Solvers(L)
  BY <1>3 DEF VisitIsMade
<1>5. Pushed(u)
  <2>1. CASE \E p \in DOMAIN function.blocks[b].phis : visit = <<b, 0, p>>
    <3>1. PICK p \in DOMAIN function.blocks[b].phis : visit = <<b, 0, p>>
      BY <2>1
    <3>2. function.blocks[b].phis[p].dest \in Values
      BY PhiTypes
    <3>3. u = VisitPhi(s, b, function.blocks[b].phis[p])
      BY <1>2, <3>1, VisitCases
    <3> QED BY <3>2, <3>3, RecordPushes DEF VisitPhi
  <2>2. CASE \E i \in DOMAIN function.blocks[b].insts : visit = <<b, 1, i>>
    <3>1. PICK i \in DOMAIN function.blocks[b].insts : visit = <<b, 1, i>>
      BY <2>2
    <3>2. PICK inst : inst = function.blocks[b].insts[i]
      OBVIOUS
    <3>3. inst.dest \in Values \cup {NoValue}
      BY <3>2, InstTypes
    <3>4. u = VisitInst(s, inst)
      BY <1>2, <3>1, <3>2, VisitCases
    <3>5. u = s \/ (inst.dest \in Values /\ u = Record(s, inst.dest, Evaluate(s, inst)))
      BY <3>3, <3>4 DEF VisitInst
    <3> QED BY <3>5, RecordPushes
  <2>3. CASE visit = <<b, 2, 1>>
    <3>1. PICK targets, more, flow : /\ targets = Leaving(s, function.blocks[b].term)
                                     /\ more = [k \in DOMAIN targets |-> <<b, targets[k]>>]
                                     /\ flow = s.flow \o more
      OBVIOUS
    <3>2. u = [s EXCEPT !.flow = flow]
      <4>1. u = VisitTerminator(s, b)
        BY <1>2, <2>3, VisitCases
      <4> QED BY <3>1, <4>1 DEF VisitTerminator
    <3>3. u.flow = flow /\ u.arriving = s.arriving /\ u.executable = s.executable
      BY <3>2 DEF Solvers
    <3>4. targets \in Seq(BlockIds(function))
          /\ ToSet(targets) \subseteq ToSet(Successors(function, b))
      <4>1. PICK term, ids : term = function.blocks[b].term /\ ids = BlockIds(function)
        OBVIOUS
      <4>2. HasItsTargets(term) /\ targets \in Seq(ids) /\ term.to \in Seq(ids)
        BY <3>1, <4>1, LeavingTypes, PartTypes DEF IsFunction
      <4>3. CASE term.kind = "jump"
        BY <3>1, <4>1, <4>2, <4>3, Zenon DEF Leaving, Successors
      <4>4. CASE term.kind = "branch"
        <5>1. targets \in {<<>>, term.to, <<term.to[1]>>, <<term.to[2]>>}
          BY <3>1, <4>1, <4>4, Zenon DEF Leaving
        <5>2. Len(term.to) = 2
          BY <4>2, <4>4 DEF HasItsTargets
        <5>3. 1 \in DOMAIN term.to /\ 2 \in DOMAIN term.to
          BY <4>2, <5>2
        <5>4. ToSet(targets) \subseteq ToSet(term.to)
          BY <5>1, <5>3 DEF ToSet
        <5> QED BY <4>1, <4>2, <5>4 DEF Successors
      <4>5. CASE term.kind # "jump" /\ term.kind # "branch"
        <5>1. targets = <<>>
          BY <3>1, <4>1, <4>5, Zenon DEF Leaving
        <5> QED BY <4>1, <4>2, <5>1 DEF ToSet
      <4> QED BY <4>3, <4>4, <4>5
    <3>5. PICK n \in Nat : DOMAIN targets = 1 .. n
                           /\ \A k \in 1 .. n : targets[k] \in BlockIds(function)
                                                /\ targets[k] \in ToSet(Successors(function, b))
      <4>1. PICK ids : ids = BlockIds(function)
        OBVIOUS
      <4>2. PICK n \in Nat : DOMAIN targets = 1 .. n /\ \A k \in 1 .. n : targets[k] \in ids
        BY <3>4, <4>1
      <4> QED BY <3>4, <4>1, <4>2 DEF ToSet
    <3>6. ASSUME NEW k \in 1 .. n PROVE more[k] \in EdgesOf(function)
      <4>1. more[k] = <<b, targets[k]>>
        BY <3>1, <3>5
      <4>2. Contains(Successors(function, b), targets[k])
        BY <3>5 DEF Contains, ToSet
      <4> QED BY <3>5, <4>1, <4>2 DEF EdgesOf
    <3>7. ToSet(flow) \subseteq ToSet(s.flow) \cup EdgesOf(function)
      <4>1. PICK E, M, front : E = Edges /\ M = EdgesOf(function) /\ front = s.flow
        OBVIOUS
      <4>2. more \in Seq(M) /\ Len(more) = n /\ DOMAIN more = 1 .. n
        BY <3>1, <3>5, <3>6, <4>1
      <4>3. front \in Seq(E)
        BY <4>1 DEF Solvers
      <4>4. front \in Seq(E \cup M) /\ more \in Seq(E \cup M)
        BY <4>2, <4>3
      <4>5. PICK m \in Nat : m = Len(front) /\ DOMAIN front = 1 .. m
        BY <4>3
      <4>6. /\ front \o more \in Seq(E \cup M) /\ Len(front \o more) = m + n
            /\ \A k \in 1 .. m + n :
                  (front \o more)[k] = IF k <= m THEN front[k] ELSE more[k - m]
        BY <4>2, <4>4, <4>5, ConcatProperties, ZenonT(30)
      <4>7. flow = front \o more /\ DOMAIN flow = 1 .. m + n
        BY <3>1, <4>1, <4>6
      <4>8. ASSUME NEW k \in 1 .. m + n PROVE flow[k] \in ToSet(front) \cup M
        <5>1. CASE k <= m
          <6>1. flow[k] = front[k] /\ k \in DOMAIN front
            BY <4>5, <4>6, <4>7, <5>1
          <6> QED BY <6>1 DEF ToSet
        <5>2. CASE ~(k <= m)
          <6>1. flow[k] = more[k - m] /\ k - m \in 1 .. n
            BY <4>5, <4>6, <4>7, <5>2
          <6> QED BY <3>6, <4>1, <6>1
        <5> QED BY <5>1, <5>2
      <4> QED BY <4>1, <4>7, <4>8 DEF ToSet
    <3> QED BY <3>3, <3>7 DEF Pushed
  <2> QED BY <1>1, <2>1, <2>2, <2>3, VisitFacts
<1>6. PICK t : t = [u EXCEPT !.agenda = s.agenda \ {visit}]
  OBVIOUS
<1>7. t.flow = u.flow /\ t.arriving = u.arriving /\ t.executable = u.executable
  BY <1>4, <1>6 DEF Solvers
<1>8. Pushed(t)
  BY <1>5, <1>7 DEF Pushed
<1>9. [Visit(s, visit) EXCEPT !.agenda = @ \ {visit}] = t
  BY <1>2, <1>3, <1>6 DEF VisitIsMade
<1> QED BY <1>8, <1>9

LEMMA PoppingPushes ==
    ASSUME IsFunction(function), NEW K, NEW s \in Solvers(K), Pushed(s)
    PROVE  /\ s.arriving # 0 =>
                 Pushed([s EXCEPT !.executable = @ \cup {s.arriving},
                                  !.agenda = VisitsOf(s.arriving), !.arriving = 0])
           /\ s.flow # <<>> /\ s.arriving = 0 =>
                 Pushed(Follow([s EXCEPT !.flow = Front(@)], Last(s.flow)))
           /\ Pushed([s EXCEPT !.ssa = Front(@), !.agenda = ReadersOf(s, Last(s.ssa))])
<1>1. s.executable \subseteq BlockIds(function) /\ 0 \notin BlockIds(function)
      /\ s.arriving \in BlockIds(function) \cup {0}
  BY BlockTypes DEF Solvers
<1>2. ASSUME s.arriving # 0
      PROVE  Pushed([s EXCEPT !.executable = @ \cup {s.arriving},
                              !.agenda = VisitsOf(s.arriving), !.arriving = 0])
  <2>1. PICK executable, agenda, t :
           /\ executable = s.executable \cup {s.arriving} /\ agenda = VisitsOf(s.arriving)
           /\ t = [s EXCEPT !.executable = executable, !.agenda = agenda, !.arriving = 0]
    BY Zenon
  <2>2. t.flow = s.flow /\ t.executable = executable /\ t.arriving = 0
    BY <2>1 DEF Solvers
  <2>3. Pushed(t)
    BY <1>1, <1>2, <2>1, <2>2 DEF Pushed
  <2> QED BY <2>1, <2>3
<1>3. ASSUME s.flow # <<>>, s.arriving = 0
      PROVE  Pushed(Follow([s EXCEPT !.flow = Front(@)], Last(s.flow)))
  <2>1. PICK edge, flow, u, t :
           /\ edge = Last(s.flow) /\ flow = Front(s.flow)
           /\ u = [s EXCEPT !.flow = flow] /\ t = Follow(u, edge)
    OBVIOUS
  <2>2. ToSet(flow) \subseteq ToSet(s.flow)
    <3>1. PICK E : E = Edges
      OBVIOUS
    <3>2. s.flow \in Seq(E)
      BY <3>1 DEF Solvers
    <3> QED BY <1>3, <2>1, <3>2, TopOfStack
  <2>3. /\ u.flow = flow /\ u.executable = s.executable /\ u.edges = s.edges
        /\ u.arriving = s.arriving
    BY <2>1 DEF Solvers
  <2>4. CASE edge \in u.edges
    <3>1. t = u
      BY <2>1, <2>4 DEF Follow
    <3>2. Pushed(t)
      BY <2>2, <2>3, <3>1 DEF Pushed
    <3> QED BY <2>1, <3>2
  <2>5. CASE edge \notin u.edges
    <3>1. PICK edges, agenda, arriving :
             /\ edges = u.edges \cup {edge} /\ agenda = PhiVisits(edge[2])
             /\ arriving = IF edge[2] \in u.executable THEN 0 ELSE edge[2]
      OBVIOUS
    <3>2. t = [u EXCEPT !.edges = edges, !.agenda = agenda, !.arriving = arriving]
      BY <2>1, <2>5, <3>1 DEF Follow
    <3>3. t = [s EXCEPT !.flow = flow, !.edges = edges, !.agenda = agenda, !.arriving = arriving]
      BY <2>1, <3>2
    <3>4. t.flow = flow /\ t.arriving = arriving /\ t.executable = s.executable
      BY <3>3 DEF Solvers
    <3>5. arriving \notin s.executable
      BY <1>1, <2>3, <3>1
    <3>6. Pushed(t)
      BY <2>2, <3>4, <3>5 DEF Pushed
    <3> QED BY <2>1, <3>6
  <2> QED BY <2>4, <2>5
<1>4. Pushed([s EXCEPT !.ssa = Front(@), !.agenda = ReadersOf(s, Last(s.ssa))])
  <2>1. PICK ssa, agenda, t : /\ ssa = Front(s.ssa) /\ agenda = ReadersOf(s, Last(s.ssa))
                              /\ t = [s EXCEPT !.ssa = ssa, !.agenda = agenda]
    BY Zenon
  <2>2. t.flow = s.flow /\ t.executable = s.executable /\ t.arriving = s.arriving
    BY <2>1 DEF Solvers
  <2>3. Pushed(t)
    BY <2>2 DEF Pushed
  <2> QED BY <2>1, <2>3
<1> QED BY <1>2, <1>3, <1>4

-----------------------------------------------------------------------------
(***************************************************************************)
(* Every step lowers the measure.                                          *)
(***************************************************************************)
Falls ==
    \E k \in DOMAIN Measure :
       /\ Measure'[k] < Measure[k]
       /\ \A j \in 1 .. k - 1 : Measure'[j] = Measure[j]

LEMMA FallsAt ==
    ASSUME run \in Int, run' \in Int,
           \/ run' > run
           \/ run' = run /\ StillToLearn' < StillToLearn
           \/ run' = run /\ StillToLearn' = StillToLearn /\ WorkLeft' < WorkLeft
           \/ /\ run' = run /\ StillToLearn' = StillToLearn /\ WorkLeft' = WorkLeft
              /\ AtEmptyStack' < AtEmptyStack
    PROVE  Falls
<1>1. PICK m, n : m = Measure /\ n = Measure'
  OBVIOUS
<1>2. m = <<2 - run, StillToLearn, WorkLeft, AtEmptyStack>>
      /\ n = <<2 - run', StillToLearn', WorkLeft', AtEmptyStack'>>
  BY <1>1 DEF Measure
<1>3. /\ DOMAIN m = 1 .. 4
      /\ m[1] = 2 - run /\ m[2] = StillToLearn /\ m[3] = WorkLeft /\ m[4] = AtEmptyStack
      /\ n[1] = 2 - run' /\ n[2] = StillToLearn' /\ n[3] = WorkLeft' /\ n[4] = AtEmptyStack'
  BY <1>2
<1>4. ASSUME NEW k \in 1 .. 4, n[k] < m[k], \A j \in 1 .. k - 1 : n[j] = m[j] PROVE Falls
  BY <1>1, <1>3, <1>4 DEF Falls
<1>5. CASE run' > run
  <2>1. PICK a, b : a = run /\ b = run'
    OBVIOUS
  <2>2. a \in Int /\ b \in Int /\ b > a
    BY <1>5, <2>1
  <2>3. 2 - b < 2 - a
    BY <2>2
  <2>4. n[1] < m[1]
    BY <1>3, <2>1, <2>3
  <2>5. \A j \in 1 .. 1 - 1 : n[j] = m[j]
    OBVIOUS
  <2> QED BY <1>4, <2>4, <2>5
<1>6. CASE run' = run /\ StillToLearn' < StillToLearn
  <2>1. n[2] < m[2] /\ n[1] = m[1]
    BY <1>3, <1>6
  <2> QED BY <1>4, <2>1
<1>7. CASE run' = run /\ StillToLearn' = StillToLearn /\ WorkLeft' < WorkLeft
  <2>1. n[3] < m[3] /\ n[1] = m[1] /\ n[2] = m[2]
    BY <1>3, <1>7
  <2>2. \A j \in 1 .. 3 - 1 : j = 1 \/ j = 2
    OBVIOUS
  <2> QED BY <1>4, <2>1, <2>2
<1>8. CASE /\ run' = run /\ StillToLearn' = StillToLearn /\ WorkLeft' = WorkLeft
           /\ AtEmptyStack' < AtEmptyStack
  <2>1. n[4] < m[4] /\ n[1] = m[1] /\ n[2] = m[2] /\ n[3] = m[3]
    BY <1>3, <1>8
  <2>2. \A j \in 1 .. 4 - 1 : j = 1 \/ j = 2 \/ j = 3
    OBVIOUS
  <2> QED BY <1>4, <2>1, <2>2
<1> QED BY <1>5, <1>6, <1>7, <1>8

LEMMA LowersFalls ==
    ASSUME function' = function, run' = run, run \in Int, Lowers(solver, solver')
    PROVE  Falls
<1>1. StillToLearn = LearnOf(solver) /\ WorkLeft = WorkLeftOf(solver)
  BY MeasureParts
<1>2. StillToLearn' = LearnOf(solver')
  BY DEF StillToLearn, LearnOf, UnknownIn, KnowableIn
<1>3. WorkLeft' = WorkLeftOf(solver')
  <2>1. (UNION {VisitsOf(b) : b \in BlockIds(function)})' = AllVisits
    BY SameVisits DEF AllVisits
  <2> QED BY <2>1 DEF WorkLeft, WorkLeftOf
<1> QED BY <1>1, <1>2, <1>3, FallsAt DEF Lowers

LEMMA EndingStarts == Init => Ending
<1>1. SUFFICES ASSUME Init PROVE Ending
  OBVIOUS
<1>2. run = 1 /\ solver = Fresh
  BY <1>1 DEF Init
<1> QED BY <1>2, FreshIsPushed DEF Ending

LEMMA PushedAfterwards == (IsFunction(function) => Pushed(Fresh))'
<1>1. IsFunction(function) => Pushed(Fresh)
  BY FreshIsPushed
<1> QED BY <1>1, PTL

\* Nothing but the end is left after the second run.
LEMMA EndedStays ==
    ASSUME Solved, run = 3, [Next]_vars
    PROVE  UNCHANGED vars
<1>1. /\ solver.agenda = {} /\ solver.arriving = 0 /\ solver.flow = <<>> /\ solver.ssa = <<>>
      /\ drains = "ssa"
  BY DEF Solved, Idle
<1> QED BY <1>1 DEF Next, NextVisit, EnterBlock, FollowEdge, WakeReaders, SwitchStack, Apply, Finished

LEMMA EndingStep ==
    ASSUME Solving, Ending, run <= 2 => IsFunction(function), [Next]_vars
    PROVE  Ending' /\ (Falls \/ UNCHANGED vars)
<1>1. CASE UNCHANGED vars
  BY <1>1 DEF vars, Ending, Solved, Idle, Pushed
<1>2. CASE run = 3
  BY <1>1, <1>2, EndedStays DEF Ending
<1>3. CASE run \in {1, 2} /\ ~UNCHANGED vars
  <2>1. IsFunction(function) /\ OnItsWay(solver) /\ Pushed(solver)
    BY <1>3 DEF Solving, Ending
  <2>2. PICK K : solver \in Solvers(K)
    BY <2>1 DEF OnItsWay
  <2>3. ASSUME function' = function, run' = run, Pushed(solver') PROVE Ending'
    <3>1. Pushed(solver)'
      BY <2>3 DEF Pushed
    <3> QED BY <1>3, <2>3, <3>1 DEF Ending
  <2>4. CASE NextVisit
    <3>1. PICK visit \in solver.agenda :
                 solver' = [Visit(solver, visit) EXCEPT !.agenda = @ \ {visit}]
      BY <2>4 DEF NextVisit
    <3>2. function' = function /\ run' = run
      BY <2>4 DEF NextVisit
    <3>3. Lowers(solver, solver')
      BY <2>1, <2>2, <3>1, VisitLowers
    <3>4. Pushed(solver')
      BY <2>1, <2>2, <3>1, VisitPushes
    <3> QED BY <1>3, <2>3, <3>2, <3>3, <3>4, LowersFalls
  <2>5. CASE EnterBlock
    <3>1. /\ solver.agenda = {} /\ solver.arriving # 0
          /\ solver' = [solver EXCEPT !.executable = @ \cup {solver.arriving},
                                      !.agenda = VisitsOf(solver.arriving), !.arriving = 0]
          /\ function' = function /\ run' = run
      BY <2>5 DEF EnterBlock
    <3>2. Lowers(solver, solver')
      BY <2>1, <2>2, <3>1, EnteringLowers, Zenon DEF Pushed
    <3>3. Pushed(solver')
      BY <2>1, <2>2, <3>1, PoppingPushes, Zenon
    <3> QED BY <1>3, <2>3, <3>1, <3>2, <3>3, LowersFalls
  <2>6. CASE FollowEdge
    <3>1. /\ solver.agenda = {} /\ solver.arriving = 0 /\ solver.flow # <<>>
          /\ solver' = Follow([solver EXCEPT !.flow = Front(@)], Last(solver.flow))
          /\ function' = function /\ run' = run
      BY <2>6 DEF FollowEdge, Idle
    <3>2. Lowers(solver, solver')
      BY <2>1, <2>2, <3>1, FollowingLowers DEF Pushed
    <3>3. Pushed(solver')
      BY <2>1, <2>2, <3>1, PoppingPushes, Zenon
    <3> QED BY <1>3, <2>3, <3>1, <3>2, <3>3, LowersFalls
  <2>7. CASE WakeReaders
    <3>1. /\ solver.agenda = {} /\ solver.ssa # <<>>
          /\ solver' = [solver EXCEPT !.ssa = Front(@),
                                      !.agenda = ReadersOf(solver, Last(solver.ssa))]
          /\ function' = function /\ run' = run
      BY <2>7 DEF WakeReaders, Idle
    <3>2. Lowers(solver, solver')
      BY <2>1, <2>2, <3>1, WakingLowers, Zenon
    <3>3. Pushed(solver')
      BY <2>1, <2>2, <3>1, PoppingPushes, Zenon
    <3> QED BY <1>3, <2>3, <3>1, <3>2, <3>3, LowersFalls
  <2>8. CASE SwitchStack
    <3>1. function' = function /\ run' = run /\ solver' = solver
      BY <2>8 DEF SwitchStack
    <3>2. Ending'
      BY <2>1, <2>3, <3>1
    <3>3. StillToLearn' = StillToLearn
      BY <3>1 DEF StillToLearn
    <3>4. WorkLeft' = WorkLeft
      <4>1. (UNION {VisitsOf(b) : b \in BlockIds(function)})' = AllVisits
        BY <3>1, SameVisits DEF AllVisits
      <4> QED BY <3>1, <4>1 DEF WorkLeft, AllVisits
    <3>5. AtEmptyStack = 1 /\ AtEmptyStack' = 0
      BY <2>8, <3>1 DEF SwitchStack, AtEmptyStack
    <3> QED BY <1>3, <3>1, <3>2, <3>3, <3>4, <3>5, FallsAt
  <2>9. CASE Apply
    <3>1. run' = run + 1
      BY <2>9 DEF Apply
    <3>2. Falls
      BY <1>3, <3>1, FallsAt
    <3>3. CASE run = 1
      <4>1. run' = 2 /\ solver' = Fresh
        BY <2>9, <3>3 DEF Apply, Begin
      <4>2. IsFunction(function') => Pushed(solver)'
        BY <4>1, PushedAfterwards DEF Pushed
      <4> QED BY <3>2, <4>1, <4>2 DEF Ending
    <3>4. CASE run = 2
      <4>1. run' = 3 /\ solver' = solver /\ drains' = drains /\ Solved
        BY <2>9, <3>4 DEF Apply
      <4> QED BY <3>2, <4>1 DEF Ending, Solved, Idle
    <3> QED BY <1>3, <3>3, <3>4
  <2> QED BY <1>3, <2>4, <2>5, <2>6, <2>7, <2>8, <2>9 DEF Next, Finished
<1> QED BY <1>1, <1>2, <1>3 DEF Solving

(***************************************************************************)
(* Every step of the pass that changes anything lowers the measure, on any *)
(* functions: in the order of its four numbers, which are naturals while   *)
(* the pass runs, it cannot fall for ever.                                 *)
(***************************************************************************)
THEOREM EveryStepLowersTheMeasure == Spec => TerminationMeasureFalls
<1>1. Solving /\ Ending /\ Accepted /\ [Next]_vars => Ending' /\ (Falls \/ UNCHANGED vars)
  BY EndingStep DEF Accepted
<1>2. Spec => [][Falls]_vars
  BY <1>1, AcceptedStarts, AcceptedStep, SolvingStarts, SolvingStep, EndingStarts, PTL DEF Spec
<1> QED BY <1>2 DEF TerminationMeasureFalls, Falls


-----------------------------------------------------------------------------
(***************************************************************************)
(* A constant read in place of a value that is known rightly is the value. *)
(***************************************************************************)
ConstantsOf(s) == [v \in ConstantValues(s) |-> s.known[v].value]

LEMMA ConstantIsRead ==
    ASSUME NEW s, KnowsWords(s), NEW env, NEW args \in Seq(Operands),
           \A a \in DOMAIN args : Holds(s, env, args[a])
    PROVE  ReadTheSame(env, args, With(ConstantsOf(s), args))
<1>1. PICK r, others : r = ConstantsOf(s) /\ others = With(r, args)
  OBVIOUS
<1>2. DOMAIN r = ConstantValues(s) /\ \A v \in ConstantValues(s) : r[v] = s.known[v].value
  BY <1>1 DEF ConstantsOf
<1>3. AreWords(r)
  BY <1>2, ConstantsAreKnown DEF AreWords
<1>4. others \in Seq(Operands) /\ Len(others) = Len(args)
  BY <1>1, <1>3, WithFacts
<1>5. DOMAIN args = 1 .. Len(args)
  BY LengthFacts
<1>6. ASSUME NEW a \in DOMAIN args PROVE ValueIn(env, others[a]) = ValueIn(env, args[a])
  <2>1. PICK v : v = args[a]
    OBVIOUS
  <2>2. others[a] = IF v \in DOMAIN r THEN r[v] ELSE v
    BY <1>1, <2>1 DEF With
  <2>3. CASE v \notin DOMAIN r
    BY <2>1, <2>2, <2>3
  <2>4. CASE v \in DOMAIN r
    <3>1. v \in Values /\ s.known[v].is = "constant" /\ others[a] = s.known[v].value
      BY <1>2, <2>2, <2>4 DEF ConstantValues
    <3>2. others[a] \notin Values
      <4>1. others[a] \in Word
        BY <1>3, <2>2, <2>4 DEF AreWords
      <4> QED BY <4>1, SsaAssumption
    <3>3. s.known[v] \in True(env[v])
      BY <2>1, <3>1 DEF Holds, KnownOf, ValueIn
    <3>4. s.known[v] # Anything
      BY <3>1 DEF Anything
    <3>5. s.known[v] = Constant(env[v])
      BY <3>3, <3>4 DEF True
    <3>6. others[a] = env[v]
      BY <3>1, <3>5, KnownDiffer
    <3> QED BY <2>1, <3>1, <3>2, <3>6 DEF ValueIn
  <2> QED BY <2>3, <2>4
<1> QED BY <1>1, <1>4, <1>5, <1>6 DEF ReadTheSame

(***************************************************************************)
(* The argument of a phi that arrives where control came from was defined  *)
(* on every way there.                                                     *)
(***************************************************************************)
LEMMA ArrivalIsKnown ==
    ASSUME NEW f, NEW s, NEW t, IsFunction(f), WellFormed(f), IsSolution(f, s),
           EnteredRightly(f, s, t), NEW p \in DOMAIN f.blocks[t.block].phis
    PROVE  \E k \in DOMAIN f.blocks[t.block].preds :
              /\ f.blocks[t.block].preds[k] = t.from
              /\ \A i \in DOMAIN f.blocks[t.block].preds :
                    f.blocks[t.block].preds[i] = t.from => i = k
              /\ \A q \in DOMAIN f.blocks[t.block].phis :
                    /\ k \in DOMAIN f.blocks[t.block].phis[q].args
                    /\ Holds(s, t.env, f.blocks[t.block].phis[q].args[k])
<1>1. PICK b : b = t.block
  OBVIOUS
<1>2. b \in s.executable /\ b \in BlockIds(f)
  BY <1>1 DEF EnteredRightly, IsSolution
<1>3. b # 1
  <2>1. b = 1 => f.blocks[b].phis = <<>>
    BY DEF IsFunction
  <2>2. DOMAIN <<>> = {}
    OBVIOUS
  <2> QED BY <1>1, <2>1, <2>2
<1>4. /\ t.from \in BlockIds(f) /\ b \in ToSet(Successors(f, t.from))
      /\ \A w \in Values : \A e \in Definitions(f, w) :
            Dominates(f, e[1], t.from) => Holds(s, t.env, w)
  BY <1>1, <1>3 DEF EnteredRightly
<1>5. PICK k \in DOMAIN f.blocks[b].preds : f.blocks[b].preds[k] = t.from
  <2>1. EdgesAgree(f)
    BY DEF WellFormed
  <2> QED BY <1>2, <1>4, <2>1, EdgeIsRecorded, ZenonT(30)
<1>6. \A i \in DOMAIN f.blocks[b].preds : f.blocks[b].preds[i] = t.from => i = k
  <2>1. Consistent(f)
    BY DEF WellFormed, AllReachable, Consistent
  <2> QED BY <1>2, <1>5, <2>1, EnteredOnce
<1>7. ASSUME NEW q \in DOMAIN f.blocks[b].phis
      PROVE  /\ k \in DOMAIN f.blocks[b].phis[q].args
             /\ Holds(s, t.env, f.blocks[b].phis[q].args[k])
  <2>1. PICK args : args = f.blocks[b].phis[q].args
    OBVIOUS
  <2>2. k \in DOMAIN args
    <3>1. Len(args) = Len(f.blocks[b].preds)
      BY <1>2, <2>1 DEF WellFormed, EdgesAgree
    <3>2. args \in Seq(Operands)
      BY <1>2, <2>1, PhiTypes
    <3>3. f.blocks[b].preds \in Seq(BlockIds(f))
      BY <1>2, PartTypes
    <3>4. DOMAIN args = 1 .. Len(args)
      BY <3>2
    <3>5. DOMAIN f.blocks[b].preds = 1 .. Len(f.blocks[b].preds)
      BY <3>3
    <3> QED BY <1>5, <3>1, <3>4, <3>5
  <2>3. Holds(s, t.env, args[k])
    <3>1. CASE args[k] \notin Values
      BY <3>1, LiteralsHold
    <3>2. CASE args[k] \in Values
      <4>1. args[k] \in ToSet(args)
        BY <2>2 DEF ToSet
      <4>2. Definitions(f, args[k]) # {}
        BY <1>2, <2>1, <3>2, <4>1, ReadIsDefined DEF WellFormed
      <4>3. PICK e \in Definitions(f, args[k]) : TRUE
        BY <4>2
      <4>4. Dominates(f, e[1], f.blocks[b].preds[k])
        BY <1>2, <2>1, <2>2, <3>2 DEF WellFormed, PhiArgumentsDominated
      <4> QED BY <1>4, <1>5, <3>2, <4>4
    <3> QED BY <3>1, <3>2
  <2> QED BY <2>1, <2>2, <2>3
<1> QED BY <1>1, <1>5, <1>6, <1>7

LEMMA SubstitutedPhis ==
    ASSUME NEW f, NEW s, NEW t, IsFunction(f), WellFormed(f), IsSolution(f, s), KnowsWords(s),
           EnteredRightly(f, s, t), NEW g, g = SubstituteOperands(f, ConstantsOf(s))
    PROVE  PhisDone(g, t) = PhisDone(f, t)
<1>1. PICK b, r : b = t.block /\ r = ConstantsOf(s)
  OBVIOUS
<1>2. b \in s.executable /\ b \in BlockIds(f)
  BY <1>1 DEF EnteredRightly, IsSolution
<1>3. AreWords(r)
  BY <1>1, ConstantsAreKnown DEF AreWords, ConstantsOf
<1>4. PICK was, is : was = f.blocks[b] /\ is = g.blocks[b]
  OBVIOUS
<1>5. SubstitutedBlock(r, is, was)
  BY <1>1, <1>2, <1>3, <1>4, SubstitutedIs
<1>6. /\ is.preds = was.preds /\ DOMAIN is.phis = DOMAIN was.phis
      /\ \A p \in DOMAIN was.phis : /\ is.phis[p].dest = was.phis[p].dest
                                    /\ is.phis[p].args = With(r, was.phis[p].args)
  BY <1>5 DEF SubstitutedBlock
<1>7. ASSUME DOMAIN was.phis # {}
      PROVE  \E k \in DOMAIN was.preds :
                /\ was.preds[k] = t.from
                /\ \A i \in DOMAIN was.preds : was.preds[i] = t.from => i = k
                /\ \A p \in DOMAIN was.phis :
                      ValueIn(t.env, is.phis[p].args[k]) = ValueIn(t.env, was.phis[p].args[k])
  <2>1. PICK p \in DOMAIN was.phis : TRUE
    BY <1>7
  <2>2. PICK k \in DOMAIN was.preds :
           /\ was.preds[k] = t.from
           /\ \A i \in DOMAIN was.preds : was.preds[i] = t.from => i = k
           /\ \A q \in DOMAIN was.phis :
                 k \in DOMAIN was.phis[q].args /\ Holds(s, t.env, was.phis[q].args[k])
    BY <1>1, <1>4, <2>1, ArrivalIsKnown
  <2>3. ASSUME NEW q \in DOMAIN was.phis
        PROVE  ValueIn(t.env, is.phis[q].args[k]) = ValueIn(t.env, was.phis[q].args[k])
    <3>1. PICK operand, one : operand = was.phis[q].args[k] /\ one = <<operand>>
      OBVIOUS
    <3>2. was.phis[q].args \in Seq(Operands)
      BY <1>2, <1>4, PhiTypes
    <3>3. operand \in Operands
      BY <2>2, <3>1, <3>2, LengthFacts
    <3>4. one \in Seq(Operands) /\ Len(one) = 1 /\ DOMAIN one = {1} /\ one[1] = operand
      BY <3>1, <3>3
    <3>5. \A a \in DOMAIN one : Holds(s, t.env, one[a])
      BY <2>2, <3>1, <3>4
    <3>6. ReadTheSame(t.env, one, With(r, one))
      BY <1>1, <3>4, <3>5, ConstantIsRead
    <3>7. ValueIn(t.env, With(r, one)[1]) = ValueIn(t.env, operand)
      BY <3>4, <3>6 DEF ReadTheSame
    <3>8. With(r, one)[1] = IF operand \in DOMAIN r THEN r[operand] ELSE operand
      BY <3>4 DEF With
    <3>9. is.phis[q].args[k] = IF operand \in DOMAIN r THEN r[operand] ELSE operand
      BY <1>6, <2>2, <3>1 DEF With
    <3> QED BY <3>1, <3>7, <3>8, <3>9
  <2> QED BY <2>2, <2>3
<1>9. ASSUME DOMAIN was.phis # {}
      PROVE  \E j \in DOMAIN was.preds, k \in DOMAIN is.preds :
                /\ was.preds[j] = t.from
                /\ \A i \in DOMAIN was.preds : was.preds[i] = t.from => i = j
                /\ is.preds[k] = t.from
                /\ \A i \in DOMAIN is.preds : is.preds[i] = t.from => i = k
                /\ \A p \in DOMAIN was.phis :
                      ValueIn(t.env, is.phis[p].args[k]) = ValueIn(t.env, was.phis[p].args[j])
  <2>1. PICK k \in DOMAIN was.preds :
           /\ was.preds[k] = t.from
           /\ \A i \in DOMAIN was.preds : was.preds[i] = t.from => i = k
           /\ \A p \in DOMAIN was.phis :
                 ValueIn(t.env, is.phis[p].args[k]) = ValueIn(t.env, was.phis[p].args[k])
    BY <1>7, <1>9
  <2> QED BY <1>6, <2>1
<1>8. SamePhis(was, t, is, t)
  BY <1>6, <1>9, Zenon DEF SamePhis
<1>10. SamePhis(f.blocks[t.block], t, g.blocks[t.block], t)
  BY <1>1, <1>4, <1>8
<1> QED BY <1>10, SamePhisDone

(***************************************************************************)
(* A block with constants in place of values does what it did.             *)
(***************************************************************************)
LEMMA SubstitutedBlockDone ==
    ASSUME NEW f, NEW s, NEW input, NEW t, IsFunction(f), WellFormed(f), IsSolution(f, s),
           KnowsWords(s), IsState(t), EnteredRightly(f, s, t),
           NEW g, g = SubstituteOperands(f, ConstantsOf(s))
    PROVE  BlockDone(g, input, t) = BlockDone(f, input, t)
<1>1. PICK b, r : b = t.block /\ r = ConstantsOf(s)
  OBVIOUS
<1>2. b \in s.executable /\ b \in BlockIds(f)
  BY <1>1 DEF EnteredRightly, IsSolution
<1>3. AreWords(r)
  BY <1>1, ConstantsAreKnown DEF AreWords, ConstantsOf
<1>4. PICK was, is : was = f.blocks[b].insts /\ is = g.blocks[b].insts
  OBVIOUS
<1>5. /\ DOMAIN is = DOMAIN was
      /\ \A i \in DOMAIN was : /\ is[i].dest = was[i].dest /\ is[i].op = was[i].op
                               /\ is[i].args = With(r, was[i].args)
  <2>1. PICK P, Q : P = g.blocks[b] /\ Q = f.blocks[b]
    OBVIOUS
  <2>2. SubstitutedBlock(r, P, Q)
    BY <1>1, <1>2, <1>3, <2>1, SubstitutedIs
  <2>3. was = Q.insts /\ is = P.insts
    BY <1>4, <2>1
  <2> QED BY <2>2, <2>3 DEF SubstitutedBlock
<1>6. PICK N \in Nat : N = Len(was) /\ DOMAIN was = 1 .. N
  BY <1>2, <1>4, InstTypes
<1>7. Len(is) = N
  <2>1. is \in Seq([dest : Values \cup {NoValue}, op : PureOps \cup EffectOps, args : Seq(Operands)])
    <3>1. Consistent(g)
      <4>1. Consistent(f)
        BY DEF WellFormed, AllReachable, Consistent
      <4> QED BY <1>1, <1>3, <4>1, SubstitutionIsConsistent
    <3>2. IsFunction(g) /\ b \in BlockIds(g)
      <4>1. f \in [blocks : Seq(BlocksAmong(BlockIds(f))), site : [Values -> Nat \X Nat]]
        BY DEF IsFunction
      <4>2. BlockIds(g) = BlockIds(f)
        BY <1>1, <4>1 DEF SubstituteOperands, BlockIds
      <4> QED BY <1>2, <3>1, <4>2 DEF Consistent
    <3> QED BY <1>4, <3>2, PartTypes
  <2>2. DOMAIN is = 1 .. Len(is) /\ Len(is) \in Nat
    BY <2>1, LengthFacts
  <2>3. DOMAIN is = 1 .. N
    BY <1>5, <1>6
  <2>4. PICK m \in Nat : m = Len(is)
    BY <2>2, Zenon
  <2>5. \A k : k \in 1 .. m <=> k \in 1 .. N
    BY <2>2, <2>3, <2>4
  <2>6. m = N
    <3>1. (m = 0 \/ m \in 1 .. m) /\ (N = 0 \/ N \in 1 .. N)
      OBVIOUS
    <3>2. (m = 0 \/ m \in 1 .. N) /\ (N = 0 \/ N \in 1 .. m)
      BY <2>5, <3>1
    <3> QED BY <3>2
  <2> QED BY <2>4, <2>6
<1>8. PICK after :
         /\ after[0] = PhisDone(f, t)
         /\ \A i \in 1 .. N : after[i] = Executed(was[i], input, after[i - 1])
         /\ BlockDone(f, input, t) = after[N]
  BY <1>1, <1>4, <1>6, BlockUnfolds
<1>9. PICK then :
         /\ then[0] = PhisDone(g, t)
         /\ \A i \in 1 .. N : then[i] = Executed(is[i], input, then[i - 1])
         /\ BlockDone(g, input, t) = then[N]
  <2>1. g.blocks[t.block].insts = is
    BY <1>1, <1>4
  <2>2. Len(g.blocks[t.block].insts) \in Nat
    BY <1>7, <2>1
  <2>3. \E then :
           /\ then[0] = PhisDone(g, t)
           /\ \A i \in 1 .. Len(g.blocks[t.block].insts) :
                 then[i] = Executed(g.blocks[t.block].insts[i], input, then[i - 1])
           /\ BlockDone(g, input, t) = then[Len(g.blocks[t.block].insts)]
    BY <2>2, BlockUnfolds
  <2> QED BY <1>7, <2>1, <2>3
<1> DEFINE Right(i) == /\ then[i] = after[i] /\ IsState(after[i])
                       /\ after[i].status # "undefined" => KnownBefore(f, s, after[i].env, b, i + 1)
           T == {i \in 0 .. N : Right(i)}
<1>10. Right(0)
  <2>1. KnownBefore(f, s, after[0].env, b, 1)
    BY <1>1, <1>8, PhisSound
  <2>2. IsState(after[0])
    BY <1>8, PhisDoneFacts
  <2>3. then[0] = after[0]
    BY <1>8, <1>9, SubstitutedPhis
  <2> QED BY <2>1, <2>2, <2>3
<1>11. ASSUME NEW i \in 0 .. N - 1, Right(i) PROVE Right(i + 1)
  <2>1. PICK u, w, j : u = after[i] /\ w = after[i + 1] /\ j = i + 1
    OBVIOUS
  <2>2. j \in 1 .. N /\ j - 1 = i /\ j \in DOMAIN was
    BY <1>6, <2>1
  <2>3. PICK inst, other : inst = was[j] /\ other = is[j]
    OBVIOUS
  <2>4. w = Executed(inst, input, u) /\ then[j] = Executed(other, input, u)
    <3>1. after[j] = Executed(was[j], input, after[j - 1])
      BY <1>8, <2>2
    <3>2. then[j] = Executed(is[j], input, then[j - 1])
      BY <1>9, <2>2
    <3> QED BY <1>11, <2>1, <2>2, <2>3, <3>1, <3>2
  <2>5. IsState(u) /\ (u.status # "undefined" => KnownBefore(f, s, u.env, b, j))
    BY <1>11, <2>1
  <2>6. IsState(w) /\ w.status \in {u.status, "undefined"}
    BY <2>4, <2>5, ExecutedFacts
  <2>7. ASSUME w.status # "undefined" PROVE KnownBefore(f, s, w.env, b, j + 1)
    <3>1. KnownBefore(f, s, u.env, b, j)
      BY <2>5, <2>6, <2>7
    <3>2. j \in DOMAIN f.blocks[b].insts
      BY <1>4, <2>2
    <3> QED BY <1>2, <1>4, <2>3, <2>4, <2>5, <2>7, <3>1, <3>2, InstSound
  <2>8. then[j] = w
    <3>1. CASE u.status = "undefined"
      BY <2>4, <3>1 DEF Executed
    <3>2. CASE u.status # "undefined"
      <4>1. inst.args \in Seq(Operands) /\ HasItsOperands(inst) /\ inst.op \in PureOps \cup EffectOps
        BY <1>2, <1>4, <2>2, <2>3, InstTypes
      <4>2. KnownBefore(f, s, u.env, b, j)
        BY <2>5, <3>2
      <4>3. \A a \in DOMAIN inst.args : Holds(s, u.env, inst.args[a])
        <5>1. j \in DOMAIN f.blocks[b].insts /\ inst = f.blocks[b].insts[j]
          BY <1>4, <2>2, <2>3
        <5> QED BY <1>2, <4>2, <5>1, OperandsAreKnown
      <4>4. ReadTheSame(u.env, inst.args, With(r, inst.args))
        BY <1>1, <4>1, <4>3, ConstantIsRead
      <4>5. other.op = inst.op /\ other.dest = inst.dest /\ other.args = With(r, inst.args)
        BY <1>5, <2>2, <2>3
      <4>6. ReadTheSame(u.env, inst.args, other.args)
        BY <4>4, <4>5
      <4> QED BY <2>4, <4>1, <4>5, <4>6, SameExecuted
    <3> QED BY <3>1, <3>2
  <2> QED BY <2>1, <2>6, <2>7, <2>8
<1>12. \A i \in 0 .. N : i \in T
  <2> HIDE DEF Right
  <2>1. 0 \in T /\ \A k \in 0 .. N - 1 : k \in T => k + 1 \in T
    BY <1>10, <1>11
  <2> HIDE DEF T
  <2> QED BY <2>1, UpToBound
<1>13. Right(N)
  <2>1. N \in 0 .. N
    OBVIOUS
  <2> HIDE DEF Right
  <2> QED BY <1>12, <2>1
<1> QED BY <1>8, <1>9, <1>13

LEMMA SubstitutedNext ==
    ASSUME NEW f, NEW s, NEW input, NEW t, IsFunction(f), WellFormed(f), IsSolution(f, s),
           KnowsWords(s), IsState(t), EnteredRightly(f, s, t),
           NEW g, g = SubstituteOperands(f, ConstantsOf(s))
    PROVE  NextOf(g, input, t) = NextOf(f, input, t)
<1>1. PICK b, r, done : b = t.block /\ r = ConstantsOf(s) /\ done = BlockDone(f, input, t)
  OBVIOUS
<1>2. b \in s.executable /\ b \in BlockIds(f)
  BY <1>1 DEF EnteredRightly, IsSolution
<1>3. AreWords(r)
  BY <1>1, ConstantsAreKnown DEF AreWords, ConstantsOf
<1>4. PICK term, other : term = f.blocks[b].term /\ other = g.blocks[b].term
  OBVIOUS
<1>5. other.kind = term.kind /\ other.to = term.to /\ other.args = With(r, term.args)
  <2>1. PICK P, Q : P = g.blocks[b] /\ Q = f.blocks[b]
    OBVIOUS
  <2>2. SubstitutedBlock(r, P, Q)
    BY <1>1, <1>2, <1>3, <2>1, SubstitutedIs
  <2>3. term = Q.term /\ other = P.term
    BY <1>4, <2>1
  <2> QED BY <2>2, <2>3 DEF SubstitutedBlock
<1>6. BlockDone(g, input, t) = done
  BY <1>1, SubstitutedBlockDone
<1>7. Transferred(other, done) = Transferred(term, done)
  <2>1. CASE done.status = "undefined"
    BY <2>1 DEF Transferred
  <2>2. CASE done.status # "undefined"
    <3>1. /\ HasItsTargets(term) /\ term.kind \in {"jump", "branch", "return"}
          /\ term.args \in Seq(Operands)
      BY <1>2, <1>4, PartTypes, ShapeOf
    <3>2. KnownBefore(f, s, done.env, b, Len(f.blocks[b].insts) + 1)
      BY <1>1, <2>2, BlockSound
    <3>3. \A a \in DOMAIN term.args : Holds(s, done.env, term.args[a])
      BY <1>2, <1>4, <3>2, OperandsAreKnown
    <3>4. ReadTheSame(done.env, term.args, With(r, term.args))
      BY <1>1, <3>1, <3>3, ConstantIsRead
    <3>5. ReadTheSame(done.env, term.args, other.args)
      BY <1>5, <3>4
    <3> QED BY <1>5, <3>1, <3>5, SameTransferred
  <2> QED BY <2>1, <2>2
<1> QED BY <1>1, <1>4, <1>6, <1>7 DEF NextOf

(***************************************************************************)
(* Every run stays what it was.                                            *)
(***************************************************************************)
LEMMA SubstitutionKeepsRuns ==
    ASSUME NEW f, NEW s, NEW input, NEW steps \in Nat, IsFunction(f), WellFormed(f),
           IsSolution(f, s), KnowsWords(s)
    PROVE  RunOf(SubstituteOperands(f, ConstantsOf(s)), input, steps) = RunOf(f, input, steps)
<1>1. PICK g, states : g = SubstituteOperands(f, ConstantsOf(s)) /\ states = RunOf(f, input, steps)
  OBVIOUS
<1>2. ASSUME NEW n \in DOMAIN states, states[n].status = "running"
      PROVE  NextOf(g, input, states[n]) = NextOf(f, input, states[n])
  <2>1. PICK t : t = states[n]
    OBVIOUS
  <2>2. IsState(t) /\ EnteredRightly(f, s, t)
    BY <1>1, <1>2, <2>1, RunSound
  <2>3. NextOf(g, input, t) = NextOf(f, input, t)
    BY <1>1, <2>2, SubstitutedNext
  <2> QED BY <2>1, <2>3
<1>3. RunOf(g, input, steps) = RunOf(f, input, steps)
  <2>1. DOMAIN states = 1 .. Len(states)
    <3>1. IsRun(f, input, states)
      BY <1>1, RunUnfolds
    <3> QED BY <3>1 DEF IsRun
  <2>2. 1 .. Len(states) - 1 \subseteq DOMAIN states
    <3>1. PICK N : N = Len(states)
      OBVIOUS
    <3>2. N \in Nat
      <4>1. IsRun(f, input, states)
        BY <1>1, RunUnfolds
      <4> QED BY <3>1, <4>1 DEF IsRun
    <3> QED BY <2>1, <3>1, <3>2
  <2> QED BY <1>1, <1>2, <2>2, RunsAreTheSame
<1> QED BY <1>1, <1>3

-----------------------------------------------------------------------------
(***************************************************************************)
(* Folding branches keeps every run that goes along traversable edges.     *)
(***************************************************************************)
FollowsEdges(states, s) ==
    \A n \in 1 .. Len(states) :
       states[n].status = "running"
          => states[n].from = 0 \/ <<states[n].from, states[n].block>> \in s.edges

LEMMA FoldingABranchKeepsRuns ==
    ASSUME NEW f, Consistent(f), NEW b \in BlockIds(f), NEW s, NEW input, NEW steps \in Nat,
           NEW states, states = RunOf(f, input, steps), FollowsEdges(states, s)
    PROVE  RunOf(FoldBranch(f, b, s), input, steps) = states
<1>1. CASE ~Foldable(f, b, s)
  BY <1>1 DEF FoldBranch
<1>2. CASE Foldable(f, b, s)
  <2>1. PICK x, y : x = Successors(f, b)[1] /\ y = Successors(f, b)[2]
    OBVIOUS
  <2>2. PICK t : t = IF Taken(f, b, s, 1) THEN x ELSE y
    OBVIOUS
  <2>3. FoldBranch(f, b, s) = SetTerminator(f, b, Jump(t)) /\ f.blocks[b].term.kind = "branch"
    BY <1>2, <2>1, <2>2 DEF FoldBranch, Foldable
  <2>4. ToSet(Successors(f, b)) = {x, y} /\ IsFunction(f)
    <3>1. Len(Successors(f, b)) = 2 /\ Successors(f, b) \in Seq(BlockIds(f))
      BY <2>3, PartTypes, ShapeOf DEF Consistent, Successors, HasItsTargets
    <3>2. DOMAIN Successors(f, b) = {1, 2}
      <4>1. 1 .. 2 = {1, 2}
        OBVIOUS
      <4> QED BY <3>1, <4>1, LengthFacts
    <3> QED BY <2>1, <3>2 DEF ToSet, Consistent
  <2>5. \A c \in {x, y} : <<b, c>> \in s.edges => c = t
    BY <1>2, <2>1, <2>2 DEF Foldable, Taken
  <2>6. t \in ToSet(Successors(f, b))
    BY <2>2, <2>4
  <2>7. ASSUME NEW n \in 1 .. Len(states), states[n].status = "running", states[n].from = b
        PROVE  states[n].block = t
    <3>1. ArrivedAt(f, states[n])
      BY <2>4, <2>7, RunIsReached DEF IsReached
    <3>2. b # 0
      BY <2>4, BlockTypes
    <3>3. states[n].block \in {x, y}
      BY <2>4, <2>7, <3>1, <3>2 DEF ArrivedAt
    <3>4. <<b, states[n].block>> \in s.edges
      BY <2>7, <3>2 DEF FollowsEdges
    <3> QED BY <2>5, <3>3, <3>4
  <2>8. PICK g : g = SetTerminator(f, b, Jump(t))
    OBVIOUS
  <2>9. RunOf(g, input, steps) = states
    BY <2>3, <2>6, <2>7, <2>8, JumpKeepsRuns
  <2> QED BY <2>3, <2>8, <2>9
<1> QED BY <1>1, <1>2

LEMMA FoldingKeepsRuns ==
    ASSUME NEW f, Consistent(f), NEW s, NEW input, NEW steps \in Nat,
           NEW states, states = RunOf(f, input, steps), FollowsEdges(states, s)
    PROVE  RunOf(FoldBranches(f, s), input, steps) = states
<1>1. Len(f.blocks) \in Nat /\ BlockIds(f) = 1 .. Len(f.blocks)
  BY BlockTypes DEF Consistent
<1>2. PICK w : /\ w[0] = f
               /\ \A b \in 1 .. Len(f.blocks) : w[b] = FoldBranch(w[b - 1], b, s)
               /\ FoldBranches(f, s) = w[Len(f.blocks)]
  BY <1>1, FoldingUnfolds
<1>3. PICK N \in Nat : N = Len(f.blocks)
  BY <1>1
<1> DEFINE Kept(n) == /\ Consistent(w[n]) /\ BlockIds(w[n]) = BlockIds(f)
                      /\ RunOf(w[n], input, steps) = states
           T == {n \in 0 .. N : Kept(n)}
<1>4. 0 \in T
  BY <1>2
<1>5. ASSUME NEW n \in 0 .. N - 1, n \in T PROVE n + 1 \in T
  <2>1. n + 1 \in 1 .. N /\ n + 1 - 1 = n /\ n + 1 \in 0 .. N
    OBVIOUS
  <2>2. w[n + 1] = FoldBranch(w[n], n + 1, s)
    BY <1>2, <1>3, <2>1
  <2>3. PICK g, h : g = w[n] /\ h = w[n + 1]
    OBVIOUS
  <2>4. Consistent(g) /\ BlockIds(g) = BlockIds(f) /\ RunOf(g, input, steps) = states
    BY <1>5, <2>3
  <2>5. n + 1 \in BlockIds(g)
    BY <1>1, <1>3, <2>1, <2>4
  <2>6. Consistent(h) /\ BlockIds(h) = BlockIds(f)
    BY <2>2, <2>3, <2>4, <2>5, FoldingABranch
  <2>7. RunOf(h, input, steps) = states
    BY <2>2, <2>3, <2>4, <2>5, FoldingABranchKeepsRuns
  <2> QED BY <2>1, <2>3, <2>6, <2>7
<1>6. \A k \in 0 .. N : k \in T
  <2> HIDE DEF T
  <2> QED BY <1>4, <1>5, UpToBound
<1>7. Kept(N)
  BY <1>6
<1> QED BY <1>2, <1>3, <1>7

\* A run of the function before is one that goes along traversable edges.
LEMMA RunFollowsEdges ==
    ASSUME NEW f, NEW s, NEW input, NEW steps \in Nat, IsFunction(f), WellFormed(f),
           IsSolution(f, s), NEW states, states = RunOf(f, input, steps)
    PROVE  FollowsEdges(states, s)
<1>1. ASSUME NEW n \in 1 .. Len(states), states[n].status = "running"
      PROVE  states[n].from = 0 \/ <<states[n].from, states[n].block>> \in s.edges
  <2>1. n \in DOMAIN states
    BY RunIsReached
  <2> QED BY <1>1, <2>1, RunSound DEF EnteredRightly
<1> QED BY <1>1 DEF FollowsEdges

-----------------------------------------------------------------------------
(***************************************************************************)
(* apply, as a whole: the runs stay the same until blocks get new numbers. *)
(***************************************************************************)
LEMMA AppliedMirrors ==
    ASSUME NEW f, IsFunction(f), WellFormed(f), NEW s, IsSolution(f, s), KnowsWords(s),
           NEW steps \in Nat
    PROVE  Mirrors(Applied(f, s), f, steps)
<1>1. Consistent(f)
  BY DEF WellFormed, AllReachable, Consistent
<1>2. PICK g, h : g = SubstituteOperands(f, ConstantsOf(s)) /\ h = FoldBranches(g, s)
  OBVIOUS
<1>3. AreWords(ConstantsOf(s))
  BY ConstantsAreKnown DEF AreWords, ConstantsOf
<1>4. Consistent(g)
  BY <1>1, <1>2, <1>3, SubstitutionIsConsistent
<1>5. Consistent(h)
  BY <1>2, <1>4, FoldingIsConsistent
<1>6. Applied(f, s) = RetainReachable(h)
  BY <1>2 DEF Applied, ConstantsOf
<1>7. ASSUME NEW input PROVE RunOf(h, input, steps) = RunOf(f, input, steps)
  <2>1. PICK states : states = RunOf(f, input, steps)
    OBVIOUS
  <2>2. states = RunOf(g, input, steps)
    BY <1>2, <2>1, SubstitutionKeepsRuns
  <2>3. FollowsEdges(states, s)
    BY <2>1, RunFollowsEdges
  <2>4. RunOf(FoldBranches(g, s), input, steps) = states
    BY <1>4, <2>2, <2>3, FoldingKeepsRuns
  <2> QED BY <1>2, <2>1, <2>4
<1>8. Mirrors(RetainReachable(h), h, steps)
  BY <1>5, RetainingMirrors
<1> QED BY <1>6, <1>7, <1>8 DEF Mirrors

(***************************************************************************)
(* After any number of runs of the pass the function does what the         *)
(* original did.                                                           *)
(***************************************************************************)
Mirroring == IsFunction(original) /\ Mirrors(function, original, Steps)

LEMMA MirroringStarts == Init => Mirroring
<1>1. SUFFICES ASSUME Init PROVE Mirroring
  OBVIOUS
<1>2. function = original /\ original \in Functions
  BY <1>1 DEF Init
<1> QED BY <1>2, SccpAssumption DEF Mirroring, Mirrors

LEMMA MirroringStep == Solving /\ Accepted /\ Mirroring /\ [Next]_vars => Mirroring'
<1> SUFFICES ASSUME Solving, Accepted, Mirroring, [Next]_vars PROVE Mirroring'
  OBVIOUS
<1>1. ASSUME function' = function, original' = original PROVE Mirroring'
  BY <1>1 DEF Mirroring, Mirrors
<1>2. CASE Apply
  <2>1. /\ Solved /\ run <= 2 /\ original' = original
        /\ function' = Applied(function, solver)
    BY <1>2 DEF Apply, Begin
  <2>2. IsSolution(function, solver)
    BY <2>1, WayEndsAtASolution DEF Solving, Accepted
  <2>3. Steps \in Nat
    BY SccpAssumption
  <2>4. Mirrors(Applied(function, solver), function, Steps)
    BY <2>1, <2>2, <2>3, AppliedMirrors DEF Accepted
  <2>5. Mirrors(function, original, Steps)
    BY DEF Mirroring
  <2>6. Mirrors(Applied(function, solver), original, Steps)
    BY <2>4, <2>5 DEF Mirrors
  <2>7. PICK f, o : f = function' /\ o = original'
    OBVIOUS
  <2>8. IsFunction(o) /\ Mirrors(f, o, Steps)
    BY <2>1, <2>6, <2>7 DEF Mirroring
  <2> QED BY <2>7, <2>8 DEF Mirroring
<1>3. CASE NextVisit
  BY <1>1, <1>3 DEF NextVisit
<1>4. CASE EnterBlock
  BY <1>1, <1>4 DEF EnterBlock
<1>5. CASE FollowEdge
  BY <1>1, <1>5 DEF FollowEdge
<1>6. CASE WakeReaders
  BY <1>1, <1>6 DEF WakeReaders
<1>7. CASE SwitchStack
  BY <1>1, <1>7 DEF SwitchStack
<1>8. CASE UNCHANGED vars
  BY <1>1, <1>8 DEF vars
<1> QED BY <1>2, <1>3, <1>4, <1>5, <1>6, <1>7, <1>8 DEF Next, Finished

(***************************************************************************)
(* The pass leaves the meaning of every function alone: after each run of  *)
(* it, whatever the input, the same calls are made and the same value is   *)
(* returned, in as many steps.                                             *)
(***************************************************************************)
THEOREM PropagationKeepsBehaviour == Spec => []SameBehaviour
<1>1. Mirroring => SameBehaviour
  <2>1. Steps \in Nat
    BY SccpAssumption
  <2> QED BY <2>1, MirrorsBehave DEF Mirroring, SameBehaviour
<1> QED BY <1>1, SolvingStarts, SolvingStep, AcceptedStarts, AcceptedStep,
           MirroringStarts, MirroringStep, PTL DEF Spec

-----------------------------------------------------------------------------
(***************************************************************************)
(* Nothing is concluded without a reason: what covers each of some things  *)
(* covers their meet, and what covers the operands of an instruction       *)
(* evaluates to what covers it.                                            *)
(***************************************************************************)
LEMMA MeetIsCovered ==
    ASSUME NEW k, NEW p, NEW q, Covers(k, p), Covers(k, q)
    PROVE  Covers(k, Meet(p, q))
  BY DEF Covers, Meet

LEMMA MeetOfIsCovered ==
    ASSUME NEW k, NEW all, \A e \in all : Covers(k, e)
    PROVE  Covers(k, MeetOf(all))
<1>1. PICK told : told = all \ {Nothing}
  OBVIOUS
<1>2. MeetOf(all) = IF told = {} THEN Nothing
                    ELSE IF \E e \in told : told = {e} THEN CHOOSE e \in told : TRUE ELSE Anything
  BY <1>1 DEF MeetOf
<1>3. \A e \in told : k = e \/ k = Anything
  BY <1>1 DEF Covers
<1>4. CASE told = {}
  BY <1>2, <1>4 DEF Covers
<1>5. CASE told # {} /\ \E e \in told : told = {e}
  <2>1. MeetOf(all) = CHOOSE e \in told : TRUE
    BY <1>2, <1>5
  <2>2. (CHOOSE e \in told : TRUE) \in told
    BY <1>5
  <2> QED BY <1>3, <2>1, <2>2 DEF Covers
<1>6. CASE told # {} /\ ~\E e \in told : told = {e}
  <2>1. MeetOf(all) = Anything
    BY <1>2, <1>6
  <2>2. PICK e \in told : TRUE
    BY <1>6
  <2>3. PICK d \in told : d # e
    BY <1>6, <2>2
  <2>4. k = Anything
    BY <1>3, <2>2, <2>3
  <2> QED BY <2>1, <2>4 DEF Covers
<1> QED BY <1>4, <1>5, <1>6

CoversOf(t, s, args) == \A a \in DOMAIN args : Covers(KnownOf(t, args[a]), KnownOf(s, args[a]))

LEMMA EvaluateIsCovered ==
    ASSUME NEW s, NEW t, NEW inst, inst.args \in Seq(Operands), HasItsOperands(inst),
           CoversOf(t, s, inst.args)
    PROVE  Covers(Evaluate(t, inst), Evaluate(s, inst))
<1>1. DOMAIN inst.args = 1 .. Len(inst.args)
  OBVIOUS
<1>2. CASE inst.op \in BinaryOps
  <2>1. Len(inst.args) = 2
    BY <1>2 DEF HasItsOperands
  <2>2. 1 \in DOMAIN inst.args /\ 2 \in DOMAIN inst.args
    BY <1>1, <2>1
  <2>3. PICK x, y, x2, y2 : /\ x = KnownOf(s, inst.args[1]) /\ y = KnownOf(s, inst.args[2])
                            /\ x2 = KnownOf(t, inst.args[1]) /\ y2 = KnownOf(t, inst.args[2])
    OBVIOUS
  <2>4. Covers(x2, x) /\ Covers(y2, y)
    BY <2>2, <2>3 DEF CoversOf
  <2>5. Evaluate(s, inst) = IF Anything \in {x, y} THEN Anything
                            ELSE IF Nothing \in {x, y} THEN Nothing
                            ELSE IF inst.op = "div" /\ y.value = 0 THEN Anything
                            ELSE Constant(Fold(inst.op, x.value, y.value))
    BY <1>2, <2>3 DEF Evaluate, BinaryOps
  <2>6. Evaluate(t, inst) = IF Anything \in {x2, y2} THEN Anything
                            ELSE IF Nothing \in {x2, y2} THEN Nothing
                            ELSE IF inst.op = "div" /\ y2.value = 0 THEN Anything
                            ELSE Constant(Fold(inst.op, x2.value, y2.value))
    BY <1>2, <2>3 DEF Evaluate, BinaryOps
  <2>7. CASE x2 = Anything \/ y2 = Anything
    BY <2>6, <2>7 DEF Covers
  <2>8. CASE x2 # Anything /\ y2 # Anything /\ (x = Nothing \/ y = Nothing)
    <3>1. x # Anything /\ y # Anything
      BY <2>4, <2>8, KnownDiffer DEF Covers
    <3>2. Evaluate(s, inst) = Nothing
      BY <2>5, <2>8, <3>1
    <3> QED BY <3>2 DEF Covers
  <2>9. CASE x2 # Anything /\ y2 # Anything /\ x # Nothing /\ y # Nothing
    <3>1. x2 = x /\ y2 = y
      BY <2>4, <2>9 DEF Covers
    <3>2. Evaluate(t, inst) = Evaluate(s, inst)
      BY <2>5, <2>6, <3>1
    <3> QED BY <3>2 DEF Covers
  <2> QED BY <2>7, <2>8, <2>9
<1>3. CASE inst.op = "copy"
  <2>1. Len(inst.args) = 1
    BY <1>3 DEF HasItsOperands
  <2>2. 1 \in DOMAIN inst.args
    BY <1>1, <2>1
  <2>3. Covers(KnownOf(t, inst.args[1]), KnownOf(s, inst.args[1]))
    BY <2>2 DEF CoversOf
  <2>4. \A u : Evaluate(u, inst) = KnownOf(u, inst.args[1])
    BY <1>3 DEF Evaluate, BinaryOps
  <2> QED BY <2>3, <2>4
<1>4. CASE inst.op = "undef"
  <2>1. \A u : Evaluate(u, inst) = Constant(0)
    BY <1>4 DEF Evaluate, BinaryOps
  <2> QED BY <2>1 DEF Covers
<1>5. CASE inst.op # "copy" /\ inst.op # "undef" /\ inst.op \notin BinaryOps
  <2>1. \A u : Evaluate(u, inst) = Anything
    BY <1>5 DEF Evaluate
  <2> QED BY <2>1 DEF Covers
<1> QED BY <1>2, <1>3, <1>4, <1>5

LEMMA LeavingIsCovered ==
    ASSUME NEW s, NEW t, NEW ids, NEW term, term.args \in Seq(Operands), term.to \in Seq(ids),
           HasItsTargets(term), CoversOf(t, s, term.args)
    PROVE  ToSet(Leaving(s, term)) \subseteq ToSet(Leaving(t, term))
<1>1. DOMAIN term.args = 1 .. Len(term.args)
  OBVIOUS
<1>2. CASE term.kind = "branch"
  <2>1. Len(term.args) = 1 /\ Len(term.to) = 2
    BY <1>2 DEF HasItsTargets
  <2>2. 1 \in DOMAIN term.args
    BY <1>1, <2>1
  <2>3. PICK x, x2 : x = KnownOf(s, term.args[1]) /\ x2 = KnownOf(t, term.args[1])
    OBVIOUS
  <2>4. Covers(x2, x)
    BY <2>2, <2>3 DEF CoversOf
  <2>5. PICK one, two : one = term.to[1] /\ two = term.to[2]
    OBVIOUS
  <2>6. ToSet(term.to) = {one, two}
    <3>1. DOMAIN term.to = {1, 2}
      BY <2>1
    <3> QED BY <2>5, <3>1 DEF ToSet
  <2>7. Leaving(s, term) = IF x = Nothing THEN <<>> ELSE IF x = Anything THEN term.to
                           ELSE IF x.value = 0 THEN <<two>> ELSE <<one>>
    BY <1>2, <2>3, <2>5 DEF Leaving
  <2>8. Leaving(t, term) = IF x2 = Nothing THEN <<>> ELSE IF x2 = Anything THEN term.to
                           ELSE IF x2.value = 0 THEN <<two>> ELSE <<one>>
    BY <1>2, <2>3, <2>5 DEF Leaving
  <2>9. ToSet(<<>>) = {} /\ ToSet(<<one>>) = {one} /\ ToSet(<<two>>) = {two}
    <3>1. \A x3 : DOMAIN <<x3>> = {1} /\ <<x3>>[1] = x3
      OBVIOUS
    <3>2. \A x3 : ToSet(<<x3>>) = {x3}
      BY <3>1 DEF ToSet
    <3>3. ToSet(<<>>) = {}
      BY DEF ToSet
    <3> QED BY <3>2, <3>3
  <2>10. ToSet(Leaving(s, term)) \subseteq {one, two}
    BY <2>6, <2>7, <2>9
  <2>11. CASE x = Nothing
    BY <2>7, <2>9, <2>11
  <2>12. CASE x2 = Anything
    <3>1. ToSet(Leaving(t, term)) = {one, two}
      BY <2>6, <2>8, <2>12, KnownDiffer
    <3> QED BY <2>10, <3>1
  <2>13. CASE x # Nothing /\ x2 # Anything
    <3>1. x2 = x
      BY <2>4, <2>13 DEF Covers
    <3> QED BY <2>7, <2>8, <3>1
  <2> QED BY <2>11, <2>12, <2>13
<1>3. CASE term.kind # "branch"
  <2>1. Leaving(t, term) = Leaving(s, term)
    BY <1>3 DEF Leaving
  <2> QED BY <2>1
<1> QED BY <1>2, <1>3

(***************************************************************************)
(* Nothing is concluded that some solution t does not have too.            *)
(***************************************************************************)
IsWithin(s, t) ==
    /\ \A v \in Values : Covers(t.known[v], s.known[v])
    /\ s.edges \cup ToSet(s.flow) \subseteq t.edges
    /\ s.executable \subseteq t.executable
    /\ s.arriving # 0 => s.arriving \in t.executable

\* What was executed is led to by edges, and nothing else is looked at.
IsRooted(s) ==
    \A S : 1 \in S /\ (\A e \in s.edges : e[1] \in S => e[2] \in S)
              => s.executable \subseteq S /\ (s.arriving # 0 => s.arriving \in S)

Grounded(s) ==
    /\ s.edges \subseteq EdgesOf(function)
    /\ \A visit \in s.agenda : visit[1] \in s.executable \cup {s.arriving}
    /\ \A e \in s.edges \cup ToSet(s.flow) : e[1] \in s.executable \cup {s.arriving}
    /\ IsRooted(s)

LEMMA RecordIsWithin ==
    ASSUME NEW K, NEW s \in Solvers(K), NEW v \in Values, NEW e, NEW t,
           \A w \in Values : Covers(t.known[w], s.known[w]), Covers(t.known[v], e)
    PROVE  \A w \in Values : Covers(t.known[w], Record(s, v, e).known[w])
<1>1. PICK after, known : after = Meet(s.known[v], e) /\ known = [s.known EXCEPT ![v] = after]
  OBVIOUS
<1>2. Covers(t.known[v], after)
  BY <1>1, MeetIsCovered
<1>3. CASE after = s.known[v]
  <2>1. Record(s, v, e) = s
    BY <1>1, <1>3 DEF Record
  <2> QED BY <2>1
<1>4. CASE after # s.known[v]
  <2>1. PICK ssa : ssa = Append(s.ssa, v)
    OBVIOUS
  <2>2. Record(s, v, e) = [s EXCEPT !.known = known, !.ssa = ssa]
    BY <1>1, <1>4, <2>1 DEF Record
  <2>3. Record(s, v, e).known = known
    BY <2>2 DEF Solvers
  <2>4. \A w \in Values : known[w] = IF w = v THEN after ELSE s.known[w]
    BY <1>1 DEF Solvers
  <2> QED BY <1>2, <2>3, <2>4
<1> QED BY <1>3, <1>4

LEMMA CoversOperands ==
    ASSUME NEW s, NEW t, \A v \in Values : Covers(t.known[v], s.known[v])
    PROVE  \A operand : Covers(KnownOf(t, operand), KnownOf(s, operand))
  BY DEF KnownOf, Covers

(***************************************************************************)
(* A visit of a block that the solution reaches.                           *)
(***************************************************************************)
LEMMA PhiVisitIsWithin ==
    ASSUME IsFunction(function), NEW K, NEW s \in Solvers(K), NEW t, IsSolution(function, t),
           IsWithin(s, t), NEW b \in t.executable, NEW p \in DOMAIN function.blocks[b].phis
    PROVE  \A v \in Values : Covers(t.known[v], Visit(s, <<b, 0, p>>).known[v])
<1>1. PICK phi, arriving : phi = function.blocks[b].phis[p] /\ arriving = ArrivingAt(s, b, phi)
  OBVIOUS
<1>2. b \in BlockIds(function) /\ PhiSettled(function, t, b, p)
  BY DEF IsSolution
<1>3. phi.dest \in Values
  BY <1>1, <1>2, PhiTypes
<1>4. ASSUME NEW e \in arriving PROVE Covers(t.known[phi.dest], e)
  <2>1. PICK k \in DOMAIN phi.args : /\ <<function.blocks[b].preds[k], b>> \in s.edges
                                     /\ e = KnownOf(s, phi.args[k])
    BY <1>1, <1>4 DEF ArrivingAt
  <2>2. <<function.blocks[b].preds[k], b>> \in t.edges
    BY <2>1, SMTT(30) DEF IsWithin
  <2>3. Covers(t.known[phi.dest], KnownOf(t, phi.args[k]))
    BY <1>1, <1>2, <2>2 DEF PhiSettled
  <2>4. Covers(KnownOf(t, phi.args[k]), e)
    BY <2>1, CoversOperands DEF IsWithin
  <2> QED BY <2>3, <2>4, CoversTransitive
<1>5. Covers(t.known[phi.dest], MeetOf(arriving))
  BY <1>4, MeetOfIsCovered
<1>6. Visit(s, <<b, 0, p>>) = Record(s, phi.dest, MeetOf(arriving))
  BY <1>1, VisitCases DEF VisitPhi
<1>7. \A v \in Values : Covers(t.known[v], s.known[v])
  BY DEF IsWithin
<1> QED BY <1>3, <1>5, <1>6, <1>7, RecordIsWithin

LEMMA InstVisitIsWithin ==
    ASSUME IsFunction(function), NEW K, NEW s \in Solvers(K), NEW t, IsSolution(function, t),
           IsWithin(s, t), NEW b \in t.executable, NEW i \in DOMAIN function.blocks[b].insts
    PROVE  \A v \in Values : Covers(t.known[v], Visit(s, <<b, 1, i>>).known[v])
<1>1. PICK inst : inst = function.blocks[b].insts[i]
  OBVIOUS
<1>2. b \in BlockIds(function) /\ InstSettled(function, t, b, i)
  BY DEF IsSolution
<1>3. inst.dest \in Values \cup {NoValue} /\ inst.args \in Seq(Operands) /\ HasItsOperands(inst)
  BY <1>1, <1>2, InstTypes
<1>4. Visit(s, <<b, 1, i>>) = VisitInst(s, inst)
  BY <1>1, VisitCases
<1>5. \A v \in Values : Covers(t.known[v], s.known[v])
  BY DEF IsWithin
<1>6. CASE inst.dest = NoValue
  BY <1>4, <1>5, <1>6 DEF VisitInst
<1>7. CASE inst.dest # NoValue
  <2>1. inst.dest \in Values /\ Visit(s, <<b, 1, i>>) = Record(s, inst.dest, Evaluate(s, inst))
    BY <1>3, <1>4, <1>7 DEF VisitInst
  <2>2. CoversOf(t, s, inst.args)
    BY <1>5, CoversOperands DEF CoversOf
  <2>3. Covers(Evaluate(t, inst), Evaluate(s, inst))
    BY <1>3, <2>2, EvaluateIsCovered
  <2>4. Covers(t.known[inst.dest], Evaluate(t, inst))
    BY <1>1, <1>2, <1>7 DEF InstSettled
  <2>5. Covers(t.known[inst.dest], Evaluate(s, inst))
    BY <2>3, <2>4, CoversTransitive
  <2> QED BY <1>5, <2>1, <2>5, RecordIsWithin
<1> QED BY <1>6, <1>7

\* A visit pushes edges only where it looks at a terminator.
LEMMA OthersPushNothing ==
    ASSUME IsFunction(function), NEW K, NEW s \in Solvers(K), NEW b \in BlockIds(function)
    PROVE  /\ \A p \in DOMAIN function.blocks[b].phis : Visit(s, <<b, 0, p>>).flow = s.flow
           /\ \A i \in DOMAIN function.blocks[b].insts : Visit(s, <<b, 1, i>>).flow = s.flow
<1>1. ASSUME NEW p \in DOMAIN function.blocks[b].phis PROVE Visit(s, <<b, 0, p>>).flow = s.flow
  <2>1. PICK phi : phi = function.blocks[b].phis[p]
    OBVIOUS
  <2>2. phi.dest \in Values
    BY <2>1, PhiTypes
  <2>3. Visit(s, <<b, 0, p>>) = Record(s, phi.dest, MeetOf(ArrivingAt(s, b, phi)))
    BY <2>1, VisitCases DEF VisitPhi
  <2> QED BY <2>2, <2>3, RecordFacts
<1>2. ASSUME NEW i \in DOMAIN function.blocks[b].insts PROVE Visit(s, <<b, 1, i>>).flow = s.flow
  <2>1. PICK inst : inst = function.blocks[b].insts[i]
    OBVIOUS
  <2>2. inst.dest \in Values \cup {NoValue}
    BY <2>1, InstTypes
  <2>3. Visit(s, <<b, 1, i>>) = VisitInst(s, inst)
    BY <2>1, VisitCases
  <2>4. CASE inst.dest = NoValue
    BY <2>3, <2>4 DEF VisitInst
  <2>5. CASE inst.dest # NoValue
    <3>1. inst.dest \in Values /\ VisitInst(s, inst) = Record(s, inst.dest, Evaluate(s, inst))
      BY <2>2, <2>5, SMTT(30) DEF VisitInst
    <3> QED BY <2>3, <3>1, RecordFacts
  <2> QED BY <2>4, <2>5
<1> QED BY <1>1, <1>2

LEMMA TerminatorPushes ==
    ASSUME IsFunction(function), NEW K, NEW s \in Solvers(K), NEW b \in BlockIds(function)
    PROVE  /\ Visit(s, <<b, 2, 1>>).known = s.known
           /\ ToSet(Visit(s, <<b, 2, 1>>).flow)
                 = ToSet(s.flow) \cup {<<b, c>> : c \in ToSet(Leaving(s, function.blocks[b].term))}
<1>1. PICK targets, more, flow, t : /\ targets = Leaving(s, function.blocks[b].term)
                                    /\ more = [k \in DOMAIN targets |-> <<b, targets[k]>>]
                                    /\ flow = s.flow \o more
                                    /\ t = Visit(s, <<b, 2, 1>>)
  OBVIOUS
<1>2. t = [s EXCEPT !.flow = flow]
  <2>1. t = VisitTerminator(s, b)
    BY <1>1, VisitCases
  <2> QED BY <1>1, <2>1 DEF VisitTerminator
<1>3. t.flow = flow /\ t.known = s.known
  BY <1>2 DEF Solvers
<1>4. PICK n \in Nat : DOMAIN targets = 1 .. n /\ \A k \in 1 .. n : targets[k] \in BlockIds(function)
  <2>1. PICK ids : ids = BlockIds(function)
    OBVIOUS
  <2>2. targets \in Seq(ids)
    BY <1>1, <2>1, LeavingTypes
  <2> QED BY <2>1, <2>2
<1>5. PICK pushed : pushed = {<<b, c>> : c \in ToSet(targets)}
  OBVIOUS
<1>6. /\ \A k \in 1 .. n : more[k] \in pushed
      /\ \A e \in pushed : \E k \in 1 .. n : more[k] = e
  BY <1>1, <1>4, <1>5 DEF ToSet
<1>7. more \in Seq(pushed) /\ Len(more) = n /\ DOMAIN more = 1 .. n
  <2>1. more = [k \in 1 .. n |-> more[k]]
    BY <1>1, <1>4
  <2> QED BY <1>6, <2>1, SequenceOf
<1>8. PICK E, front : E = Edges /\ front = s.flow
  OBVIOUS
<1>9. front \in Seq(E \cup pushed) /\ more \in Seq(E \cup pushed)
  <2>1. front \in Seq(E)
    BY <1>8 DEF Solvers
  <2> QED BY <1>7, <2>1
<1>10. PICK m \in Nat : m = Len(front) /\ DOMAIN front = 1 .. m
  BY <1>9
<1>11. /\ flow = front \o more /\ DOMAIN flow = 1 .. m + n
       /\ \A k \in 1 .. m + n : flow[k] = IF k <= m THEN front[k] ELSE more[k - m]
  <2>1. flow = front \o more
    BY <1>1, <1>8
  <2>2. /\ front \o more \in Seq(E \cup pushed) /\ Len(front \o more) = m + n
        /\ \A k \in 1 .. m + n : (front \o more)[k] = IF k <= m THEN front[k] ELSE more[k - m]
    BY <1>7, <1>9, <1>10, ConcatProperties
  <2>3. DOMAIN (front \o more) = 1 .. m + n
    BY <2>2
  <2> QED BY <2>1, <2>2, <2>3
<1>12. ToSet(flow) = ToSet(front) \cup pushed
  <2>1. ASSUME NEW k \in 1 .. m + n PROVE flow[k] \in ToSet(front) \cup pushed
    <3>1. CASE k <= m
      BY <1>10, <1>11, <3>1 DEF ToSet
    <3>2. CASE ~(k <= m)
      <4>1. k - m \in 1 .. n /\ flow[k] = more[k - m]
        BY <1>10, <1>11, <3>2
      <4> QED BY <1>6, <4>1
    <3> QED BY <3>1, <3>2
  <2>2. ASSUME NEW k \in 1 .. m PROVE k \in 1 .. m + n /\ flow[k] = front[k]
    BY <1>11
  <2>3. ASSUME NEW k \in 1 .. n PROVE m + k \in 1 .. m + n /\ flow[m + k] = more[k]
    <3>1. m + k \in 1 .. m + n /\ ~(m + k <= m) /\ (m + k) - m = k
      OBVIOUS
    <3> QED BY <1>11, <3>1
  <2>4. ASSUME NEW e \in ToSet(front) PROVE e \in ToSet(flow)
    <3>1. PICK k \in 1 .. m : e = front[k]
      BY <1>10, <2>4 DEF ToSet
    <3> QED BY <1>11, <2>2, <3>1 DEF ToSet
  <2>5. ASSUME NEW e \in pushed PROVE e \in ToSet(flow)
    <3>1. PICK k \in 1 .. n : more[k] = e
      BY <1>6
    <3> QED BY <1>11, <2>3, <3>1 DEF ToSet
  <2>6. ASSUME NEW e \in ToSet(flow) PROVE e \in ToSet(front) \cup pushed
    <3>1. PICK k \in 1 .. m + n : e = flow[k]
      BY <1>11, <2>6 DEF ToSet
    <3> QED BY <2>1, <3>1
  <2> QED BY <2>4, <2>5, <2>6
<1> QED BY <1>1, <1>3, <1>5, <1>8, <1>12

\* What holds on the way: every solution concludes at least as much.
Sparing(s) ==
    /\ Grounded(s)
    /\ \A t : IsSolution(function, t) => IsWithin(s, t)

(***************************************************************************)
(* Every step concludes only what it has to.                               *)
(***************************************************************************)
LEMMA FreshIsSparing ==
    ASSUME IsFunction(function)
    PROVE  Sparing(Fresh)
<1>1. /\ Fresh.edges = {} /\ Fresh.executable = {} /\ Fresh.arriving = 1 /\ Fresh.agenda = {}
      /\ Fresh.flow = <<>> /\ \A v \in Values : Fresh.known[v] = Nothing
  BY DEF Fresh
<1>2. ToSet(<<>>) = {}
  BY DEF ToSet
<1>3. Grounded(Fresh)
  BY <1>1, <1>2 DEF Grounded, IsRooted
<1>4. ASSUME NEW t, IsSolution(function, t) PROVE IsWithin(Fresh, t)
  BY <1>1, <1>2, <1>4 DEF IsWithin, Covers, IsSolution
<1> QED BY <1>3, <1>4 DEF Sparing

LEMMA LeavingIsAmongSuccessors ==
    ASSUME NEW f, IsFunction(f), NEW s, NEW b \in BlockIds(f)
    PROVE  ToSet(Leaving(s, f.blocks[b].term)) \subseteq ToSet(Successors(f, b))
<1>1. PICK term, ids, targets : /\ term = f.blocks[b].term /\ ids = BlockIds(f)
                                /\ targets = Leaving(s, term)
  OBVIOUS
<1>2. HasItsTargets(term) /\ term.to \in Seq(ids)
  BY <1>1, PartTypes DEF IsFunction
<1>3. CASE term.kind = "jump"
  BY <1>1, <1>3 DEF Leaving, Successors
<1>4. CASE term.kind = "branch"
  <2>1. targets \in {<<>>, term.to, <<term.to[1]>>, <<term.to[2]>>}
    BY <1>1, <1>4 DEF Leaving
  <2>2. Len(term.to) = 2
    BY <1>2, <1>4 DEF HasItsTargets
  <2>3. 1 \in DOMAIN term.to /\ 2 \in DOMAIN term.to
    BY <1>2, <2>2
  <2>4. ToSet(targets) \subseteq ToSet(term.to)
    BY <2>1, <2>3 DEF ToSet
  <2> QED BY <1>1, <2>4 DEF Successors
<1>5. CASE term.kind # "jump" /\ term.kind # "branch"
  <2>1. targets = <<>>
    BY <1>1, <1>5 DEF Leaving
  <2> QED BY <1>1, <2>1 DEF ToSet
<1> QED BY <1>3, <1>4, <1>5

\* An edge that is pushed comes from the block that is visited.
LEMMA VisitPushesFrom ==
    ASSUME IsFunction(function), NEW K, NEW s \in Solvers(K), NEW b \in BlockIds(function),
           NEW visit \in VisitsOf(b)
    PROVE  \A e \in ToSet(Visit(s, visit).flow) : e \in ToSet(s.flow) \/ e[1] = b
<1>1. CASE \E p \in DOMAIN function.blocks[b].phis : visit = <<b, 0, p>>
  BY <1>1, OthersPushNothing
<1>2. CASE \E i \in DOMAIN function.blocks[b].insts : visit = <<b, 1, i>>
  BY <1>2, OthersPushNothing
<1>3. CASE visit = <<b, 2, 1>>
  <2>1. ToSet(Visit(s, visit).flow)
           = ToSet(s.flow) \cup {<<b, c>> : c \in ToSet(Leaving(s, function.blocks[b].term))}
    BY <1>3, TerminatorPushes
  <2>2. \A c : <<b, c>>[1] = b
    OBVIOUS
  <2> QED BY <2>1, <2>2
<1> QED BY <1>1, <1>2, <1>3, VisitFacts

LEMMA VisitIsWithin ==
    ASSUME IsFunction(function), NEW K, NEW s \in Solvers(K), NEW t, IsSolution(function, t),
           IsWithin(s, t), NEW b \in t.executable, NEW visit \in VisitsOf(b)
    PROVE  IsWithin(Visit(s, visit), t)
<1>1. b \in BlockIds(function) /\ ExitSettled(function, t, b) /\ t.flow = <<>>
  BY DEF IsSolution
<1>2. PICK u : u = Visit(s, visit)
  OBVIOUS
<1>3. u.executable = s.executable /\ u.edges = s.edges /\ u.arriving = s.arriving
  BY <1>1, <1>2, VisitsAreMade DEF VisitIsMade
<1>4. /\ \A v \in Values : Covers(t.known[v], u.known[v])
      /\ ToSet(u.flow) \subseteq t.edges
  <2>1. ToSet(s.flow) \subseteq t.edges
    BY DEF IsWithin
  <2>2. CASE \E p \in DOMAIN function.blocks[b].phis : visit = <<b, 0, p>>
    BY <1>1, <1>2, <2>1, <2>2, PhiVisitIsWithin, OthersPushNothing
  <2>3. CASE \E i \in DOMAIN function.blocks[b].insts : visit = <<b, 1, i>>
    BY <1>1, <1>2, <2>1, <2>3, InstVisitIsWithin, OthersPushNothing
  <2>4. CASE visit = <<b, 2, 1>>
    <3>1. PICK term, ids : term = function.blocks[b].term /\ ids = BlockIds(function)
      OBVIOUS
    <3>2. /\ u.known = s.known
          /\ ToSet(u.flow) = ToSet(s.flow) \cup {<<b, c>> : c \in ToSet(Leaving(s, term))}
      BY <1>1, <1>2, <2>4, <3>1, TerminatorPushes
    <3>3. HasItsTargets(term) /\ term.to \in Seq(ids) /\ term.args \in Seq(Operands)
      BY <1>1, <3>1, PartTypes DEF IsFunction
    <3>4. CoversOf(t, s, term.args)
      BY CoversOperands DEF CoversOf, IsWithin
    <3>5. ToSet(Leaving(s, term)) \subseteq ToSet(Leaving(t, term))
      BY <3>3, <3>4, LeavingIsCovered
    <3>6. \A c \in ToSet(Leaving(t, term)) : <<b, c>> \in t.edges
      <4>1. ToSet(<<>>) = {}
        BY DEF ToSet
      <4> QED BY <1>1, <3>1, <4>1 DEF ExitSettled
    <3> QED BY <2>1, <3>2, <3>5, <3>6 DEF IsWithin
  <2> QED BY <2>2, <2>3, <2>4, VisitFacts
<1> QED BY <1>2, <1>3, <1>4 DEF IsWithin

LEMMA VisitIsSparing ==
    ASSUME IsFunction(function), NEW K, NEW s \in Solvers(K), Sparing(s), NEW visit \in s.agenda
    PROVE  Sparing([Visit(s, visit) EXCEPT !.agenda = @ \ {visit}])
<1>1. PICK b \in BlockIds(function) : visit \in VisitsOf(b)
  <2>1. visit \in AllVisits
    BY DEF Solvers
  <2> QED BY <2>1 DEF AllVisits
<1>2. b = visit[1]
  BY <1>1, VisitFacts
<1>3. b \in s.executable \cup {s.arriving} /\ b # 0
  <2>1. 0 \notin BlockIds(function)
    BY BlockTypes
  <2> QED BY <1>1, <1>2, <2>1 DEF Sparing, Grounded
<1>4. PICK u : u = Visit(s, visit)
  OBVIOUS
<1>5. /\ u.executable = s.executable /\ u.edges = s.edges /\ u.arriving = s.arriving
      /\ u.agenda = s.agenda
  BY <1>1, <1>4, VisitsAreMade DEF VisitIsMade
<1>6. PICK L : u \in Solvers(L)
  BY <1>1, <1>4, VisitsAreMade DEF VisitIsMade
<1>7. PICK t : t = [u EXCEPT !.agenda = s.agenda \ {visit}]
  OBVIOUS
<1>8. /\ t.known = u.known /\ t.flow = u.flow /\ t.executable = s.executable
      /\ t.edges = s.edges /\ t.arriving = s.arriving /\ t.agenda = s.agenda \ {visit}
  BY <1>5, <1>6, <1>7 DEF Solvers
<1>9. Grounded(t)
  <2>1. \A e \in ToSet(t.flow) : e \in ToSet(s.flow) \/ e[1] = b
    BY <1>1, <1>4, <1>8, VisitPushesFrom
  <2>2. \A e \in t.edges \cup ToSet(t.flow) : e[1] \in t.executable \cup {t.arriving}
    BY <1>3, <1>8, <2>1 DEF Sparing, Grounded
  <2>3. IsRooted(t)
    BY <1>8 DEF Sparing, Grounded, IsRooted
  <2>4. \A other \in t.agenda : other[1] \in t.executable \cup {t.arriving}
    BY <1>8 DEF Sparing, Grounded
  <2>5. t.edges \subseteq EdgesOf(function)
    BY <1>8 DEF Sparing, Grounded
  <2> QED BY <2>2, <2>3, <2>4, <2>5 DEF Grounded
<1>10. ASSUME NEW r, IsSolution(function, r) PROVE IsWithin(t, r)
  <2>1. IsWithin(s, r)
    BY <1>10 DEF Sparing
  <2>2. b \in r.executable
    BY <1>3, <2>1 DEF IsWithin
  <2>3. IsWithin(u, r)
    BY <1>1, <1>4, <1>10, <2>1, <2>2, VisitIsWithin
  <2> QED BY <1>5, <1>8, <2>3 DEF IsWithin
<1>11. [Visit(s, visit) EXCEPT !.agenda = @ \ {visit}] = t
  BY <1>4, <1>5, <1>7
<1> QED BY <1>9, <1>10, <1>11 DEF Sparing

LEMMA EnteringIsSparing ==
    ASSUME IsFunction(function), NEW K, NEW s \in Solvers(K), Sparing(s), s.arriving # 0
    PROVE  Sparing([s EXCEPT !.executable = @ \cup {s.arriving},
                             !.agenda = VisitsOf(s.arriving), !.arriving = 0])
<1>1. PICK b, executable, agenda, t :
         /\ b = s.arriving /\ executable = s.executable \cup {b} /\ agenda = VisitsOf(b)
         /\ t = [s EXCEPT !.executable = executable, !.agenda = agenda, !.arriving = 0]
  BY Zenon
<1>2. /\ t.known = s.known /\ t.flow = s.flow /\ t.edges = s.edges
      /\ t.executable = executable /\ t.agenda = agenda /\ t.arriving = 0
  BY <1>1 DEF Solvers
<1>3. \A visit \in agenda : visit[1] = b
  BY <1>1, VisitFacts
<1>4. \A visit \in t.agenda : visit[1] \in t.executable \cup {t.arriving}
  BY <1>1, <1>2, <1>3
<1>5. \A e \in t.edges \cup ToSet(t.flow) : e[1] \in t.executable \cup {t.arriving}
  BY <1>1, <1>2 DEF Sparing, Grounded
<1>6. IsRooted(t)
  BY <1>1, <1>2 DEF Sparing, Grounded, IsRooted
<1>7. Grounded(t)
  <2>1. t.edges \subseteq EdgesOf(function)
    BY <1>2 DEF Sparing, Grounded
  <2> QED BY <1>4, <1>5, <1>6, <2>1 DEF Grounded
<1>8. ASSUME NEW r, IsSolution(function, r) PROVE IsWithin(t, r)
  BY <1>1, <1>2, <1>8 DEF Sparing, IsWithin
<1> QED BY <1>1, <1>7, <1>8 DEF Sparing

LEMMA FollowingIsSparing ==
    ASSUME IsFunction(function), NEW K, NEW s \in Solvers(K), Sparing(s), Pushed(s),
           s.agenda = {}, s.arriving = 0, s.flow # <<>>
    PROVE  Sparing(Follow([s EXCEPT !.flow = Front(@)], Last(s.flow)))
<1>1. PICK edge, flow, u, t :
         /\ edge = Last(s.flow) /\ flow = Front(s.flow)
         /\ u = [s EXCEPT !.flow = flow] /\ t = Follow(u, edge)
  OBVIOUS
<1>2. edge \in Edges /\ ToSet(s.flow) = ToSet(flow) \cup {edge}
  <2>1. s.flow \in Seq(Edges)
    BY DEF Solvers
  <2> QED BY <1>1, <2>1, TopOfStack
<1>3. edge[1] \in BlockIds(function) /\ edge[2] \in BlockIds(function) /\ 0 \notin BlockIds(function)
  BY <1>2, BlockTypes DEF Edges
<1>4. /\ u.known = s.known /\ u.flow = flow /\ u.executable = s.executable
      /\ u.edges = s.edges /\ u.arriving = 0 /\ u.agenda = {}
  BY <1>1 DEF Solvers
<1>5. edge[1] \in s.executable
  BY <1>2, <1>3 DEF Sparing, Grounded
<1>6. edge \in EdgesOf(function)
  BY <1>2 DEF Pushed
<1>7. CASE edge \in s.edges
  <2>1. t = u
    BY <1>1, <1>4, <1>7 DEF Follow
  <2>2. Grounded(t)
    BY <1>2, <1>4, <2>1 DEF Sparing, Grounded, IsRooted
  <2>3. ASSUME NEW r, IsSolution(function, r) PROVE IsWithin(t, r)
    BY <1>2, <1>4, <2>1, <2>3 DEF Sparing, IsWithin
  <2> QED BY <1>1, <2>2, <2>3 DEF Sparing
<1>8. CASE edge \notin s.edges
  <2>1. PICK edges, agenda, arriving :
           /\ edges = s.edges \cup {edge} /\ agenda = PhiVisits(edge[2])
           /\ arriving = IF edge[2] \in s.executable THEN 0 ELSE edge[2]
    OBVIOUS
  <2>2. t = [u EXCEPT !.edges = edges, !.agenda = agenda, !.arriving = arriving]
    BY <1>1, <1>4, <1>8, <2>1 DEF Follow
  <2>3. /\ t.known = s.known /\ t.flow = flow /\ t.executable = s.executable
        /\ t.edges = edges /\ t.arriving = arriving /\ t.agenda = agenda
    BY <1>1, <2>2 DEF Solvers
  <2>4. edge[2] \in s.executable \cup {arriving}
    BY <2>1
  <2>5. \A visit \in t.agenda : visit[1] \in t.executable \cup {t.arriving}
    <3>1. \A visit \in agenda : visit[1] = edge[2]
      BY <2>1, VisitFacts
    <3> QED BY <2>3, <2>4, <3>1
  <2>6. \A e \in t.edges \cup ToSet(t.flow) : e[1] \in t.executable \cup {t.arriving}
    <3>1. \A e \in s.edges \cup ToSet(s.flow) : e[1] \in BlockIds(function)
      <4>1. s.edges \subseteq Edges /\ ToSet(s.flow) \subseteq Edges
        <5>1. PICK E, stack : E = Edges /\ stack = s.flow
          OBVIOUS
        <5>2. stack \in Seq(E)
          BY <5>1 DEF Solvers
        <5>3. ToSet(stack) \subseteq E
          BY <5>2 DEF ToSet
        <5> QED BY <5>1, <5>3 DEF Solvers
      <4> QED BY <4>1 DEF Edges
    <3>2. \A e \in s.edges \cup ToSet(s.flow) : e[1] \in s.executable
      BY <1>3, <3>1 DEF Sparing, Grounded
    <3> QED BY <1>2, <1>5, <2>1, <2>3, <3>2
  <2>7. IsRooted(t)
    <3>1. SUFFICES ASSUME NEW S, 1 \in S, \A e \in edges : e[1] \in S => e[2] \in S
                   PROVE  s.executable \subseteq S /\ (arriving # 0 => arriving \in S)
      BY <2>3 DEF IsRooted
    <3>2. s.executable \subseteq S
      BY <2>1, <3>1 DEF Sparing, Grounded, IsRooted
    <3>3. edge[2] \in S
      BY <1>5, <2>1, <3>1, <3>2
    <3> QED BY <2>1, <3>2, <3>3
  <2>8. Grounded(t)
    <3>1. t.edges \subseteq EdgesOf(function)
      BY <1>6, <2>1, <2>3 DEF Sparing, Grounded
    <3> QED BY <2>5, <2>6, <2>7, <3>1 DEF Grounded
  <2>9. ASSUME NEW r, IsSolution(function, r) PROVE IsWithin(t, r)
    <3>1. IsWithin(s, r)
      BY <2>9 DEF Sparing
    <3>2. edge \in r.edges
      BY <1>2, <3>1 DEF IsWithin
    <3>3. edge[2] \in r.executable
      BY <2>9, <3>2 DEF IsSolution
    <3> QED BY <1>2, <2>1, <2>3, <3>1, <3>2, <3>3 DEF IsWithin
  <2> QED BY <1>1, <2>8, <2>9 DEF Sparing
<1> QED BY <1>7, <1>8

LEMMA WakingIsSparing ==
    ASSUME IsFunction(function), NEW K, NEW s \in Solvers(K), Sparing(s), s.agenda = {}
    PROVE  Sparing([s EXCEPT !.ssa = Front(@), !.agenda = ReadersOf(s, Last(s.ssa))])
<1>1. PICK ssa, agenda, t : /\ ssa = Front(s.ssa) /\ agenda = ReadersOf(s, Last(s.ssa))
                            /\ t = [s EXCEPT !.ssa = ssa, !.agenda = agenda]
  BY Zenon
<1>2. /\ t.known = s.known /\ t.flow = s.flow /\ t.edges = s.edges
      /\ t.executable = s.executable /\ t.agenda = agenda /\ t.arriving = s.arriving
  BY <1>1 DEF Solvers
<1>3. \A visit \in agenda : visit[1] \in s.executable
  <2>1. SUFFICES ASSUME NEW visit \in agenda PROVE visit[1] \in s.executable
    OBVIOUS
  <2>2. PICK b \in s.executable : visit \in VisitsOf(b)
    BY <1>1 DEF ReadersOf
  <2>3. visit[1] = b
    BY <2>2, VisitFacts
  <2> QED BY <2>2, <2>3
<1>4. Grounded(t)
  BY <1>2, <1>3 DEF Sparing, Grounded, IsRooted
<1>5. ASSUME NEW r, IsSolution(function, r) PROVE IsWithin(t, r)
  BY <1>2, <1>5 DEF Sparing, IsWithin
<1> QED BY <1>1, <1>4, <1>5 DEF Sparing

-----------------------------------------------------------------------------
(***************************************************************************)
(* The solution the pass ends at is within every other, and it has         *)
(* executed only what it was led to.  Something is therefore known of      *)
(* everything that is read in a block it executed.                         *)
(***************************************************************************)
Least(f, s) ==
    /\ IsSolution(f, s) /\ KnowsWords(s)
    /\ s.edges \subseteq EdgesOf(f)
    /\ \A e \in s.edges : e[1] \in s.executable
    /\ s.arriving = 0 /\ IsRooted(s)
    /\ \A t : IsSolution(f, t) => IsWithin(s, t)

Learnt(f, s, b, position) ==
    \A v \in Values :
       Definitions(f, v) # {} /\ DefinedBefore(f, v, b, position) => s.known[v] # Nothing

LEMMA LiteralsAreKnown ==
    ASSUME NEW s, NEW operand, operand \notin Values
    PROVE  KnownOf(s, operand) # Nothing
  BY KnownDiffer DEF KnownOf

\* An operand of a block was defined on every way to it.
LEMMA OperandsAreLearnt ==
    ASSUME NEW f, NEW s, IsFunction(f), WellFormed(f), NEW b \in BlockIds(f)
    PROVE  /\ \A i \in DOMAIN f.blocks[b].insts :
                 Learnt(f, s, b, i) =>
                    \A a \in DOMAIN f.blocks[b].insts[i].args :
                       KnownOf(s, f.blocks[b].insts[i].args[a]) # Nothing
           /\ Learnt(f, s, b, Len(f.blocks[b].insts) + 1) =>
                 \A a \in DOMAIN f.blocks[b].term.args :
                    KnownOf(s, f.blocks[b].term.args[a]) # Nothing
<1>1. ASSUME NEW i \in DOMAIN f.blocks[b].insts, Learnt(f, s, b, i),
             NEW a \in DOMAIN f.blocks[b].insts[i].args
      PROVE  KnownOf(s, f.blocks[b].insts[i].args[a]) # Nothing
  <2>1. PICK v : v = f.blocks[b].insts[i].args[a]
    OBVIOUS
  <2>2. CASE v \notin Values
    BY <2>1, <2>2, LiteralsAreKnown, SMTT(30)
  <2>3. CASE v \in Values
    <3>1. v \in ToSet(f.blocks[b].insts[i].args)
      BY <2>1 DEF ToSet
    <3>2. Definitions(f, v) # {}
      BY <2>3, <3>1, ReadIsDefined DEF WellFormed
    <3>3. DefinedBefore(f, v, b, i)
      BY <2>3, <3>1 DEF WellFormed, UsesDominated, ValuesRead
    <3> QED BY <1>1, <2>1, <2>3, <3>2, <3>3 DEF Learnt, KnownOf
  <2> QED BY <2>2, <2>3
<1>2. ASSUME Learnt(f, s, b, Len(f.blocks[b].insts) + 1),
             NEW a \in DOMAIN f.blocks[b].term.args
      PROVE  KnownOf(s, f.blocks[b].term.args[a]) # Nothing
  <2>1. PICK v : v = f.blocks[b].term.args[a]
    OBVIOUS
  <2>2. CASE v \notin Values
    BY <2>1, <2>2, LiteralsAreKnown
  <2>3. CASE v \in Values
    <3>1. v \in ToSet(f.blocks[b].term.args)
      BY <2>1 DEF ToSet
    <3>2. Definitions(f, v) # {}
      BY <2>3, <3>1, ReadIsDefined DEF WellFormed
    <3>3. DefinedBefore(f, v, b, Len(f.blocks[b].insts) + 1)
      BY <2>3, <3>1 DEF WellFormed, UsesDominated, ValuesRead
    <3> QED BY <1>2, <2>1, <2>3, <3>2, <3>3 DEF Learnt, KnownOf
  <2> QED BY <2>2, <2>3
<1> QED BY <1>1, <1>2

LEMMA EvaluateTells ==
    ASSUME NEW s, NEW inst, inst.args \in Seq(Operands), HasItsOperands(inst),
           \A a \in DOMAIN inst.args : KnownOf(s, inst.args[a]) # Nothing
    PROVE  Evaluate(s, inst) # Nothing
<1>1. PICK args : args = inst.args
  OBVIOUS
<1>2. DOMAIN args = 1 .. Len(args)
  BY <1>1
<1>3. PICK j, k : j = KnownOf(s, args[1]) /\ k = KnownOf(s, args[2])
  OBVIOUS
<1>4. CASE inst.op = "copy"
  <2>1. Evaluate(s, inst) = j
    BY <1>1, <1>3, <1>4 DEF Evaluate, BinaryOps
  <2>2. Len(args) = 1
    BY <1>1, <1>4 DEF HasItsOperands
  <2>3. 1 \in DOMAIN args
    BY <1>2, <2>2
  <2> QED BY <1>1, <1>3, <2>1, <2>3
<1>5. CASE inst.op = "undef"
  <2>1. Evaluate(s, inst) = Constant(0)
    BY <1>5 DEF Evaluate, BinaryOps
  <2> QED BY <2>1, KnownDiffer
<1>6. CASE inst.op \in BinaryOps
  <2>1. Evaluate(s, inst) = IF Anything \in {j, k} THEN Anything
                            ELSE IF Nothing \in {j, k} THEN Nothing
                            ELSE IF inst.op = "div" /\ k.value = 0 THEN Anything
                            ELSE Constant(Fold(inst.op, j.value, k.value))
    BY <1>1, <1>3, <1>6 DEF Evaluate, BinaryOps
  <2>2. Len(args) = 2
    BY <1>1, <1>6 DEF HasItsOperands
  <2>3. 1 \in DOMAIN args /\ 2 \in DOMAIN args
    BY <1>2, <2>2
  <2>4. j # Nothing /\ k # Nothing
    BY <1>1, <1>3, <2>3
  <2>5. Evaluate(s, inst) = Anything \/ \E c : Evaluate(s, inst) = Constant(c)
    BY <2>1, <2>4
  <2> QED BY <2>5, KnownDiffer
<1>7. CASE inst.op # "copy" /\ inst.op # "undef" /\ inst.op \notin BinaryOps
  <2>1. Evaluate(s, inst) = Anything
    BY <1>7 DEF Evaluate
  <2> QED BY <2>1, KnownDiffer
<1> QED BY <1>4, <1>5, <1>6, <1>7

LEMMA CoveringTells ==
    ASSUME NEW k, NEW e, Covers(k, e), e # Nothing
    PROVE  k # Nothing
  BY KnownDiffer DEF Covers

\* One instruction further on.
LEMMA InstTells ==
    ASSUME NEW f, NEW s, IsFunction(f), WellFormed(f), IsSolution(f, s),
           NEW b \in s.executable, NEW i \in DOMAIN f.blocks[b].insts, Learnt(f, s, b, i)
    PROVE  Learnt(f, s, b, i + 1)
<1>1. PICK inst : inst = f.blocks[b].insts[i]
  OBVIOUS
<1>3. b \in BlockIds(f)
  BY DEF IsSolution
<1>4. i \in Nat /\ i >= 1
  BY <1>3, InstTypes, SMTT(30)
<1>5. SUFFICES ASSUME NEW v \in Values, Definitions(f, v) # {}, DefinedBefore(f, v, b, i + 1)
               PROVE  s.known[v] # Nothing
  BY DEF Learnt
<1>6. PICK d \in Definitions(f, v) : \A e \in Definitions(f, v) : e = d
  BY <1>5, TheDefinition DEF WellFormed
<1>7. /\ d[1] \in BlockIds(f) /\ d = <<d[1], d[2]>>
      /\ \/ d[2] = 0 /\ \E p \in DOMAIN f.blocks[d[1]].phis : f.blocks[d[1]].phis[p].dest = v
         \/ d[2] \in DOMAIN f.blocks[d[1]].insts /\ f.blocks[d[1]].insts[d[2]].dest = v
  BY DefinitionFacts
<1>8. d[2] \in Nat
  <2>1. DOMAIN f.blocks[d[1]].insts = 1 .. Len(f.blocks[d[1]].insts)
    BY <1>7, InstTypes
  <2>2. \A k \in DOMAIN f.blocks[d[1]].insts : k \in Nat
    BY <2>1
  <2>3. d[2] = 0 \/ d[2] \in DOMAIN f.blocks[d[1]].insts
    BY <1>7
  <2> QED BY <2>2, <2>3, SMTT(30)
<1>9. CASE d[1] = b /\ d[2] = i
  <2>1. inst.dest = v
    BY <1>1, <1>4, <1>7, <1>9
  <2>2. \A a \in DOMAIN inst.args : KnownOf(s, inst.args[a]) # Nothing
    BY <1>1, <1>3, OperandsAreLearnt
  <2>3. inst.args \in Seq(Operands) /\ HasItsOperands(inst)
    BY <1>1, <1>3, InstTypes
  <2>4. Evaluate(s, inst) # Nothing
    BY <2>2, <2>3, EvaluateTells
  <2>5. InstSettled(f, s, b, i)
    BY DEF IsSolution
  <2>6. Covers(s.known[v], Evaluate(s, inst))
    <3>1. v # NoValue
      BY SsaAssumption
    <3> QED BY <1>1, <2>1, <2>5, <3>1 DEF InstSettled
  <2> QED BY <2>4, <2>6, CoveringTells
<1>10. CASE ~(d[1] = b /\ d[2] = i)
  <2>1. DefinedBefore(f, v, b, i)
    <3>1. SUFFICES IF d[1] = b THEN d[2] < i ELSE Dominates(f, d[1], b)
      BY <1>6 DEF DefinedBefore
    <3>2. IF d[1] = b THEN d[2] < i + 1 ELSE Dominates(f, d[1], b)
      BY <1>5 DEF DefinedBefore
    <3>3. CASE d[1] = b
      <4>1. d[2] < i + 1 /\ d[2] # i
        BY <1>10, <3>2, <3>3
      <4>2. d[2] < i
        BY <1>4, <1>8, <4>1
      <4> QED BY <3>3, <4>2
    <3> QED BY <3>2, <3>3
  <2> QED BY <1>5, <2>1 DEF Learnt
<1> QED BY <1>9, <1>10

\* The whole block.
LEMMA BlockTells ==
    ASSUME NEW f, NEW s, IsFunction(f), WellFormed(f), IsSolution(f, s),
           NEW b \in s.executable, Learnt(f, s, b, 1)
    PROVE  \A i \in 1 .. Len(f.blocks[b].insts) + 1 : Learnt(f, s, b, i)
<1>1. b \in BlockIds(f)
  BY DEF IsSolution
<1>2. PICK N \in Nat : N = Len(f.blocks[b].insts) /\ DOMAIN f.blocks[b].insts = 1 .. N
  BY <1>1, InstTypes
<1> DEFINE T == {i \in 0 .. N : Learnt(f, s, b, i + 1)}
<1>3. 0 \in T
  OBVIOUS
<1>4. ASSUME NEW i \in 0 .. N - 1, i \in T PROVE i + 1 \in T
  <2>1. PICK j : j = i + 1
    OBVIOUS
  <2>2. j \in DOMAIN f.blocks[b].insts /\ Learnt(f, s, b, j)
    BY <1>2, <1>4, <2>1
  <2>3. Learnt(f, s, b, j + 1)
    BY <2>2, InstTells
  <2> QED BY <2>1, <2>3
<1>5. \A i \in 0 .. N : i \in T
  <2> HIDE DEF T
  <2> QED BY <1>3, <1>4, UpToBound
<1>6. ASSUME NEW i \in 1 .. N + 1 PROVE Learnt(f, s, b, i)
  <2>1. PICK j \in 0 .. N : j + 1 = i
    <3>1. i - 1 \in 0 .. N /\ (i - 1) + 1 = i
      OBVIOUS
    <3> QED BY <3>1
  <2> QED BY <1>5, <2>1
<1> QED BY <1>2, <1>6

\* The phis: along an edge from a block in which all that is defined is known.
LEMMA ArrivalIsLearnt ==
    ASSUME NEW f, NEW s, IsFunction(f), WellFormed(f),
           NEW a \in BlockIds(f), Learnt(f, s, a, Len(f.blocks[a].insts) + 1),
           NEW b \in BlockIds(f), NEW p \in DOMAIN f.blocks[b].phis,
           NEW k \in DOMAIN f.blocks[b].phis[p].args, f.blocks[b].preds[k] = a
    PROVE  KnownOf(s, f.blocks[b].phis[p].args[k]) # Nothing
<1>1. PICK args : args = f.blocks[b].phis[p].args
  OBVIOUS
<1>2. PICK v : v = args[k]
  OBVIOUS
<1>3. CASE v \notin Values
  BY <1>1, <1>2, <1>3, LiteralsAreKnown, SMTT(30)
<1>4. CASE v \in Values
  <2>1. v \in ToSet(args)
    BY <1>1, <1>2 DEF ToSet
  <2>2. Definitions(f, v) # {}
    BY <1>1, <1>4, <2>1, ReadIsDefined DEF WellFormed
  <2>3. \A d \in Definitions(f, v) : Dominates(f, d[1], a)
    BY <1>1, <1>2, <1>4 DEF WellFormed, PhiArgumentsDominated
  <2>4. DefinedBefore(f, v, a, Len(f.blocks[a].insts) + 1)
    <3>1. ASSUME NEW d \in Definitions(f, v), d[1] = a PROVE d[2] < Len(f.blocks[a].insts) + 1
      <4>1. d[2] = 0 \/ d[2] \in DOMAIN f.blocks[a].insts
        BY <3>1, DefinitionFacts
      <4>2. /\ Len(f.blocks[a].insts) \in Nat
            /\ DOMAIN f.blocks[a].insts = 1 .. Len(f.blocks[a].insts)
        BY InstTypes
      <4> QED BY <4>1, <4>2, SMTT(30)
    <3> QED BY <2>3, <3>1 DEF DefinedBefore
  <2> QED BY <1>1, <1>2, <1>4, <2>2, <2>4 DEF Learnt, KnownOf
<1> QED BY <1>3, <1>4

LEMMA PhisTell ==
    ASSUME NEW f, NEW s, IsFunction(f), WellFormed(f), IsSolution(f, s),
           NEW a \in BlockIds(f), Learnt(f, s, a, Len(f.blocks[a].insts) + 1),
           NEW b \in s.executable, b \in ToSet(Successors(f, a)), <<a, b>> \in s.edges
    PROVE  Learnt(f, s, b, 1)
<1>1. b \in BlockIds(f)
  BY DEF IsSolution
<1>2. SUFFICES ASSUME NEW v \in Values, Definitions(f, v) # {}, DefinedBefore(f, v, b, 1)
               PROVE  s.known[v] # Nothing
  BY DEF Learnt
<1>3. PICK d \in Definitions(f, v) : \A e \in Definitions(f, v) : e = d
  BY <1>2, TheDefinition DEF WellFormed
<1>4. /\ d[1] \in BlockIds(f) /\ d = <<d[1], d[2]>>
      /\ \/ d[2] = 0 /\ \E p \in DOMAIN f.blocks[d[1]].phis : f.blocks[d[1]].phis[p].dest = v
         \/ d[2] \in DOMAIN f.blocks[d[1]].insts /\ f.blocks[d[1]].insts[d[2]].dest = v
  BY DefinitionFacts
<1>5. CASE d[1] = b
  <2>1. d[2] < 1
    BY <1>2, <1>5 DEF DefinedBefore
  <2>2. DOMAIN f.blocks[b].insts = 1 .. Len(f.blocks[b].insts)
    BY <1>1, InstTypes
  <2>3. PICK p \in DOMAIN f.blocks[b].phis : f.blocks[b].phis[p].dest = v
    BY <1>4, <1>5, <2>1, <2>2
  <2>4. PICK k \in DOMAIN f.blocks[b].preds : f.blocks[b].preds[k] = a
    <3>1. EdgesAgree(f)
      BY DEF WellFormed
    <3> QED BY <1>1, <3>1, EdgeIsRecorded, Zenon
  <2>5. PICK args : args = f.blocks[b].phis[p].args
    OBVIOUS
  <2>6. k \in DOMAIN args
    <3>1. Len(args) = Len(f.blocks[b].preds)
      BY <1>1, <2>5 DEF WellFormed, EdgesAgree
    <3>2. args \in Seq(Operands)
      BY <1>1, <2>5, PhiTypes
    <3>3. f.blocks[b].preds \in Seq(BlockIds(f))
      BY <1>1, PartTypes
    <3>4. DOMAIN args = 1 .. Len(args)
      BY <3>2
    <3>5. DOMAIN f.blocks[b].preds = 1 .. Len(f.blocks[b].preds)
      BY <3>3
    <3> QED BY <3>1, <3>4, <3>5
  <2>7. Covers(s.known[v], KnownOf(s, args[k]))
    <3>1. PhiSettled(f, s, b, p)
      BY DEF IsSolution
    <3> QED BY <2>3, <2>4, <2>5, <2>6, <3>1 DEF PhiSettled
  <2>8. KnownOf(s, args[k]) # Nothing
    BY <1>1, <2>4, <2>5, <2>6, ArrivalIsLearnt
  <2> QED BY <2>7, <2>8, CoveringTells
<1>6. CASE d[1] # b
  <2>1. Dominates(f, d[1], b)
    BY <1>2, <1>6 DEF DefinedBefore
  <2>2. Dominates(f, d[1], a)
    BY <1>1, <1>4, <1>6, <2>1, DominatesBefore
  <2>3. DefinedBefore(f, v, a, Len(f.blocks[a].insts) + 1)
    <3>1. ASSUME d[1] = a PROVE d[2] < Len(f.blocks[a].insts) + 1
      <4>1. d[2] = 0 \/ d[2] \in DOMAIN f.blocks[a].insts
        BY <1>4, <3>1
      <4>2. /\ Len(f.blocks[a].insts) \in Nat
            /\ DOMAIN f.blocks[a].insts = 1 .. Len(f.blocks[a].insts)
        BY InstTypes
      <4> QED BY <4>1, <4>2
    <3> QED BY <1>3, <2>2, <3>1 DEF DefinedBefore
  <2> QED BY <1>2, <2>3 DEF Learnt
<1> QED BY <1>5, <1>6

\* Nothing is defined before the entry.
LEMMA EntryIsLearnt ==
    ASSUME NEW f, NEW s, IsFunction(f)
    PROVE  Learnt(f, s, 1, 1)
<1>1. 1 \in BlockIds(f) /\ f.blocks[1].phis = <<>>
  BY DEF IsFunction
<1>2. SUFFICES ASSUME NEW v \in Values, NEW d \in Definitions(f, v), DefinedBefore(f, v, 1, 1)
               PROVE  FALSE
  BY DEF Learnt
<1>3. /\ d[1] \in BlockIds(f)
      /\ \/ d[2] = 0 /\ \E p \in DOMAIN f.blocks[d[1]].phis : f.blocks[d[1]].phis[p].dest = v
         \/ d[2] \in DOMAIN f.blocks[d[1]].insts /\ f.blocks[d[1]].insts[d[2]].dest = v
  BY DefinitionFacts
<1>4. d[1] = 1
  <2>1. d[1] = 1 \/ Dominates(f, d[1], 1)
    BY <1>2 DEF DefinedBefore
  <2> QED BY <2>1, NothingBeforeTheEntry
<1>5. d[2] < 1
  BY <1>2, <1>4 DEF DefinedBefore
<1>6. DOMAIN f.blocks[1].insts = 1 .. Len(f.blocks[1].insts)
  BY <1>1, InstTypes
<1>7. d[2] = 0 /\ \E p \in DOMAIN f.blocks[1].phis : TRUE
  BY <1>3, <1>4, <1>5, <1>6
<1>8. DOMAIN <<>> = {}
  OBVIOUS
<1> QED BY <1>1, <1>7, <1>8

LEMMA AllIsLearnt ==
    ASSUME NEW f, NEW s, IsFunction(f), WellFormed(f), Least(f, s)
    PROVE  \A b \in s.executable : \A i \in 1 .. Len(f.blocks[b].insts) + 1 : Learnt(f, s, b, i)
<1>1. IsSolution(f, s) /\ s.edges \subseteq EdgesOf(f) /\ IsRooted(s)
  BY DEF Least
<1>2. 1 \in s.executable /\ (\A e \in s.edges : e[2] \in s.executable)
      /\ \A b \in s.executable : b \in BlockIds(f)
  BY <1>1 DEF IsSolution
<1> DEFINE All(b) == \A i \in 1 .. Len(f.blocks[b].insts) + 1 : Learnt(f, s, b, i)
           S == {b \in s.executable : All(b)}
<1>3. 1 \in S
  BY <1>1, <1>2, EntryIsLearnt, BlockTells
<1>4. ASSUME NEW e \in s.edges, e[1] \in S PROVE e[2] \in S
  <2>1. PICK a, b : a = e[1] /\ b = e[2]
    OBVIOUS
  <2>2. /\ a \in BlockIds(f) /\ b \in BlockIds(f) /\ e = <<a, b>>
        /\ Contains(Successors(f, a), b)
    BY <1>1, <2>1 DEF EdgesOf
  <2>3. b \in ToSet(Successors(f, a))
    <3>1. Successors(f, a) \in Seq(BlockIds(f))
      BY <2>2, PartTypes DEF Successors
    <3> QED BY <2>2, <3>1, ContainsIs
  <2>4. Learnt(f, s, a, Len(f.blocks[a].insts) + 1)
    <3>1. Len(f.blocks[a].insts) \in Nat
      BY <2>2, InstTypes
    <3>2. Len(f.blocks[a].insts) + 1 \in 1 .. Len(f.blocks[a].insts) + 1
      BY <3>1
    <3> QED BY <1>4, <2>1, <3>2
  <2>5. b \in s.executable
    BY <1>2, <2>1
  <2>6. Learnt(f, s, b, 1)
    BY <1>1, <2>2, <2>3, <2>4, <2>5, PhisTell
  <2>7. All(b)
    BY <1>1, <2>5, <2>6, BlockTells
  <2> QED BY <2>1, <2>5, <2>7
<1>5. s.executable \subseteq S
  <2> HIDE DEF S
  <2> QED BY <1>1, <1>3, <1>4 DEF IsRooted
<1> QED BY <1>5

(***************************************************************************)
(* What is read in an executed block.                                      *)
(***************************************************************************)
ReadsKnown(f, s, b) ==
    /\ \A i \in DOMAIN f.blocks[b].insts : \A a \in DOMAIN f.blocks[b].insts[i].args :
          KnownOf(s, f.blocks[b].insts[i].args[a]) # Nothing
    /\ \A a \in DOMAIN f.blocks[b].term.args : KnownOf(s, f.blocks[b].term.args[a]) # Nothing
    /\ \A p \in DOMAIN f.blocks[b].phis : \A k \in DOMAIN f.blocks[b].phis[p].args :
          <<f.blocks[b].preds[k], b>> \in s.edges
             => KnownOf(s, f.blocks[b].phis[p].args[k]) # Nothing

LEMMA NothingUnknownIsRead ==
    ASSUME NEW f, NEW s, IsFunction(f), WellFormed(f), Least(f, s), NEW b \in s.executable
    PROVE  ReadsKnown(f, s, b)
<1>1. IsSolution(f, s) /\ \A e \in s.edges : e[1] \in s.executable
  BY DEF Least
<1>2. \A c \in s.executable : c \in BlockIds(f)
  BY <1>1 DEF IsSolution
<1>3. \A c \in s.executable : /\ Len(f.blocks[c].insts) \in Nat
                              /\ DOMAIN f.blocks[c].insts = 1 .. Len(f.blocks[c].insts)
  BY <1>2, InstTypes
<1>4. \A c \in s.executable :
         /\ \A i \in DOMAIN f.blocks[c].insts : Learnt(f, s, c, i)
         /\ Learnt(f, s, c, Len(f.blocks[c].insts) + 1)
  BY <1>3, AllIsLearnt, SMTT(30)
<1>5. \A i \in DOMAIN f.blocks[b].insts : \A a \in DOMAIN f.blocks[b].insts[i].args :
         KnownOf(s, f.blocks[b].insts[i].args[a]) # Nothing
  BY <1>2, <1>4, OperandsAreLearnt
<1>6. \A a \in DOMAIN f.blocks[b].term.args : KnownOf(s, f.blocks[b].term.args[a]) # Nothing
  BY <1>2, <1>4, OperandsAreLearnt
<1>7. ASSUME NEW p \in DOMAIN f.blocks[b].phis, NEW k \in DOMAIN f.blocks[b].phis[p].args,
             <<f.blocks[b].preds[k], b>> \in s.edges
      PROVE  KnownOf(s, f.blocks[b].phis[p].args[k]) # Nothing
  <2>1. PICK a : a = f.blocks[b].preds[k]
    OBVIOUS
  <2>2. <<a, b>>[1] = a
    OBVIOUS
  <2>3. a \in s.executable
    BY <1>1, <1>7, <2>1, <2>2
  <2> QED BY <1>2, <1>4, <2>1, <2>3, ArrivalIsLearnt
<1> QED BY <1>5, <1>6, <1>7 DEF ReadsKnown

\* Every executed block but the entry was led to by an edge.
LEMMA ExecutedIsLedTo ==
    ASSUME NEW s, IsRooted(s), NEW o \in s.executable, o # 1, 1 \in s.executable,
           \A e \in s.edges : e[2] \in s.executable
    PROVE  \E e \in s.edges : e[2] = o
<1>1. SUFFICES ASSUME \A e \in s.edges : e[2] # o PROVE FALSE
  OBVIOUS
<1>2. PICK S : S = s.executable \ {o}
  OBVIOUS
<1>3. 1 \in S /\ (\A e \in s.edges : e[1] \in S => e[2] \in S)
  BY <1>1, <1>2
<1>4. s.executable \subseteq S
  BY <1>3 DEF IsRooted
<1> QED BY <1>2, <1>4

-----------------------------------------------------------------------------
(***************************************************************************)
(* What the folding leaves: an executed block keeps its phis, for the      *)
(* target that loses its way in was never executed, and a branch with one  *)
(* traversable edge is a jump along it.                                    *)
(***************************************************************************)
IsLedTo(f, s) ==
    /\ s.executable \subseteq BlockIds(f) /\ s.edges \subseteq EdgesOf(f)
    /\ \A o \in s.executable : o # 1 => \E e \in s.edges : e[2] = o

TheTaken(f, b, s) == Successors(f, b)[IF Taken(f, b, s, 1) THEN 1 ELSE 2]

FoldedSoFar(f, s, h, n) ==
    /\ Consistent(h) /\ BlockIds(h) = BlockIds(f)
    /\ \A c \in BlockIds(f) : h.blocks[c].insts = f.blocks[c].insts
    /\ \A c \in s.executable :
          h.blocks[c].preds = f.blocks[c].preds /\ h.blocks[c].phis = f.blocks[c].phis
    /\ \A c \in BlockIds(f) :
          c > n \/ ~Foldable(f, c, s) => h.blocks[c].term = f.blocks[c].term
    /\ \A c \in BlockIds(f) :
          c <= n /\ Foldable(f, c, s) => h.blocks[c].term = Jump(TheTaken(f, c, s))

\* The two targets of a branch, one of which is taken.
LEMMA TakenTargets ==
    ASSUME NEW f, IsFunction(f), NEW b \in BlockIds(f), NEW s, Foldable(f, b, s),
           NEW t, t = TheTaken(f, b, s)
    PROVE  /\ t \in ToSet(Successors(f, b)) /\ <<b, t>> \in s.edges
           /\ \A c \in ToSet(Successors(f, b)) : <<b, c>> \in s.edges => c = t
<1>1. PICK x, y : x = Successors(f, b)[1] /\ y = Successors(f, b)[2]
  OBVIOUS
<1>2. ToSet(Successors(f, b)) = {x, y}
  <2>1. f.blocks[b].term.kind = "branch"
    BY DEF Foldable
  <2>2. Len(Successors(f, b)) = 2 /\ Successors(f, b) \in Seq(BlockIds(f))
    BY <2>1, PartTypes, ShapeOf DEF Successors, HasItsTargets
  <2>3. DOMAIN Successors(f, b) = {1, 2}
    <3>1. 1 .. 2 = {1, 2}
      OBVIOUS
    <3> QED BY <2>2, <3>1, LengthFacts
  <2> QED BY <1>1, <2>3 DEF ToSet
<1>3. t = IF <<b, x>> \in s.edges THEN x ELSE y
  BY <1>1 DEF TheTaken, Taken
<1>4. (<<b, x>> \in s.edges) # (<<b, y>> \in s.edges)
  BY <1>1 DEF Foldable, Taken
<1> QED BY <1>2, <1>3, <1>4

LEMMA FoldingOneMore ==
    ASSUME NEW f, IsFunction(f), EdgesAgree(f), NEW s, IsLedTo(f, s), NEW n \in Nat, NEW b \in BlockIds(f), b = n + 1,
           NEW h, FoldedSoFar(f, s, h, n), NEW g, g = FoldBranch(h, b, s)
    PROVE  FoldedSoFar(f, s, g, b)
<1>1. /\ Consistent(h) /\ BlockIds(h) = BlockIds(f)
      /\ \A c \in BlockIds(f) : h.blocks[c].insts = f.blocks[c].insts
      /\ \A c \in s.executable :
            h.blocks[c].preds = f.blocks[c].preds /\ h.blocks[c].phis = f.blocks[c].phis
      /\ \A c \in BlockIds(f) :
            c > n \/ ~Foldable(f, c, s) => h.blocks[c].term = f.blocks[c].term
      /\ \A c \in BlockIds(f) :
            c <= n /\ Foldable(f, c, s) => h.blocks[c].term = Jump(TheTaken(f, c, s))
  BY DEF FoldedSoFar
<1>2. Consistent(g) /\ BlockIds(g) = BlockIds(f)
  BY <1>1, FoldingABranch
<1>3. \A c \in BlockIds(f) : c \in Nat
  <2>1. BlockIds(f) = 1 .. Len(f.blocks)
    BY BlockTypes
  <2> QED BY <2>1
<1>4. h.blocks[b].term = f.blocks[b].term
  <2>1. b > n
    OBVIOUS
  <2> QED BY <1>1, <2>1
<1>5. /\ Foldable(h, b, s) <=> Foldable(f, b, s)
      /\ Successors(h, b) = Successors(f, b)
      /\ TheTaken(h, b, s) = TheTaken(f, b, s)
  BY <1>4 DEF Foldable, TheTaken, Taken, Successors
<1>6. \A c \in BlockIds(f) : /\ c > b => c > n
                             /\ c <= b => c <= n \/ c = b
  BY <1>3
<1>7. CASE ~Foldable(h, b, s)
  <2>1. g = h
    BY <1>7 DEF FoldBranch
  <2>2. \A c \in BlockIds(f) :
           c > b \/ ~Foldable(f, c, s) => g.blocks[c].term = f.blocks[c].term
    BY <1>1, <1>6, <2>1
  <2>3. \A c \in BlockIds(f) :
           c <= b /\ Foldable(f, c, s) => g.blocks[c].term = Jump(TheTaken(f, c, s))
    BY <1>1, <1>5, <1>6, <1>7, <2>1
  <2> QED BY <1>1, <1>2, <2>1, <2>2, <2>3 DEF FoldedSoFar
<1>8. CASE Foldable(h, b, s)
  <2>1. PICK t : t = TheTaken(f, b, s)
    OBVIOUS
  <2>2. /\ t \in ToSet(Successors(h, b)) /\ <<b, t>> \in s.edges
        /\ \A c \in ToSet(Successors(h, b)) : <<b, c>> \in s.edges => c = t
    BY <1>5, <1>8, <2>1, TakenTargets
  <2>3. g = SetTerminator(h, b, Jump(t)) /\ h.blocks[b].term.kind = "branch"
    <3>1. Successors(h, b)[IF Taken(h, b, s, 1) THEN 1 ELSE 2] = t
      BY <1>5, <2>1 DEF TheTaken
    <3> QED BY <1>8, <3>1 DEF FoldBranch, Foldable
  <2>4. PICK o \in BlockIds(h) : JumpedBlocks(h, b, t, o, g)
    BY <1>1, <2>2, <2>3, JumpedIs
  <2>5. /\ o # 1 /\ h.blocks[o].preds = <<b>> /\ o # t
        /\ ToSet(Successors(h, b)) = {t, o}
        /\ \A c \in BlockIds(h) :
              /\ g.blocks[c].insts = h.blocks[c].insts
              /\ c # b => g.blocks[c].term = h.blocks[c].term
              /\ c # o => /\ g.blocks[c].preds = h.blocks[c].preds
                          /\ g.blocks[c].phis = h.blocks[c].phis
        /\ g.blocks[b].term = Jump(t)
    BY <2>4 DEF JumpedBlocks
  <2>6. o \notin s.executable
    <3>1. SUFFICES ASSUME o \in s.executable PROVE FALSE
      OBVIOUS
    <3>2. PICK e \in s.edges : e[2] = o
      BY <2>5, <3>1 DEF IsLedTo
    <3>3. PICK a : a = e[1]
      OBVIOUS
    <3>4. a \in BlockIds(f) /\ e = <<a, o>> /\ Contains(Successors(f, a), o)
      BY <3>2, <3>3 DEF IsLedTo, EdgesOf
    <3>5. o \in ToSet(Successors(f, a))
      <4>1. Successors(f, a) \in Seq(BlockIds(f))
        BY <3>4, PartTypes DEF Successors
      <4> QED BY <3>4, <4>1, ContainsIs
    <3>6. PICK k \in DOMAIN f.blocks[o].preds : f.blocks[o].preds[k] = a
      <4>1. o \in BlockIds(f)
        BY <1>1
      <4> QED BY <3>4, <3>5, <4>1, EdgeIsRecorded
    <3>7. f.blocks[o].preds = <<b>>
      BY <1>1, <2>5, <3>1
    <3>8. \A j \in DOMAIN <<b>> : <<b>>[j] = b
      OBVIOUS
    <3>9. a = b
      BY <3>6, <3>7, <3>8
    <3> QED BY <2>2, <2>5, <3>2, <3>4, <3>9
  <2>7. \A c \in BlockIds(f) : g.blocks[c].insts = f.blocks[c].insts
    BY <1>1, <2>5
  <2>8. \A c \in s.executable :
           g.blocks[c].preds = f.blocks[c].preds /\ g.blocks[c].phis = f.blocks[c].phis
    <3>1. s.executable \subseteq BlockIds(h)
      BY <1>1 DEF IsLedTo
    <3> QED BY <1>1, <2>5, <2>6, <3>1, ZenonT(30)
  <2>9. \A c \in BlockIds(f) :
           c > b \/ ~Foldable(f, c, s) => g.blocks[c].term = f.blocks[c].term
    <3>1. \A c \in BlockIds(f) : c > b => c # b
      BY <1>3
    <3> QED BY <1>1, <1>5, <1>6, <1>8, <2>5, <3>1
  <2>10. \A c \in BlockIds(f) :
            c <= b /\ Foldable(f, c, s) => g.blocks[c].term = Jump(TheTaken(f, c, s))
    BY <1>1, <1>6, <2>1, <2>5
  <2> QED BY <1>2, <2>7, <2>8, <2>9, <2>10 DEF FoldedSoFar
<1> QED BY <1>7, <1>8

LEMMA FoldingLeaves ==
    ASSUME NEW f, Consistent(f), NEW s, IsLedTo(f, s)
    PROVE  FoldedSoFar(f, s, FoldBranches(f, s), Len(f.blocks))
<1>1. IsFunction(f) /\ EdgesAgree(f)
  BY DEF Consistent
<1>2. PICK N \in Nat : N = Len(f.blocks) /\ BlockIds(f) = 1 .. N
  BY <1>1, BlockTypes
<1>3. PICK w : /\ w[0] = f
               /\ \A b \in 1 .. N : w[b] = FoldBranch(w[b - 1], b, s)
               /\ FoldBranches(f, s) = w[N]
  BY <1>2, FoldingUnfolds
<1> DEFINE T == {n \in 0 .. N : FoldedSoFar(f, s, w[n], n)}
<1>4. 0 \in T
  <2>1. \A c \in BlockIds(f) : ~(c <= 0)
    BY <1>2
  <2>2. FoldedSoFar(f, s, f, 0)
    BY <2>1 DEF FoldedSoFar
  <2> QED BY <1>3, <2>2
<1>5. ASSUME NEW n \in 0 .. N - 1, n \in T PROVE n + 1 \in T
  <2>1. PICK b : b = n + 1
    OBVIOUS
  <2>2. b \in 1 .. N /\ b - 1 = n /\ b \in 0 .. N /\ n \in Nat
    BY <2>1
  <2>3. PICK g, h : g = w[b] /\ h = w[n]
    OBVIOUS
  <2>4. g = FoldBranch(h, b, s)
    BY <1>3, <2>2, <2>3
  <2>5. FoldedSoFar(f, s, h, n)
    BY <1>5, <2>3
  <2>6. FoldedSoFar(f, s, g, b)
    <3>1. b \in BlockIds(f)
      BY <1>2, <2>2
    <3> QED BY <1>1, <2>1, <2>2, <2>4, <2>5, <3>1, FoldingOneMore
  <2> QED BY <2>1, <2>2, <2>3, <2>6
<1>6. \A n \in 0 .. N : n \in T
  <2> HIDE DEF T
  <2> QED BY <1>4, <1>5, UpToBound
<1>7. FoldedSoFar(f, s, w[N], N)
  BY <1>6
<1> QED BY <1>2, <1>3, <1>7

-----------------------------------------------------------------------------
(***************************************************************************)
(* How an executed block is left afterwards: as before, if along           *)
(* traversable edges only, or along the only one there is.                 *)
(***************************************************************************)
LeavesAsBefore(f, s, b, term) ==
    /\ term.kind = f.blocks[b].term.kind /\ term.to = f.blocks[b].term.to
    /\ term.args = With(ConstantsOf(s), f.blocks[b].term.args)
    /\ \A c \in ToSet(Successors(f, b)) : <<b, c>> \in s.edges

LeavesOneWay(f, s, b, term) ==
    \E t \in ToSet(Successors(f, b)) :
       /\ term = Jump(t) /\ <<b, t>> \in s.edges
       /\ \A c \in ToSet(Successors(f, b)) : <<b, c>> \in s.edges => c = t

Folded(f, s) == FoldBranches(SubstituteOperands(f, ConstantsOf(s)), s)

LEMMA LeastIsLedTo ==
    ASSUME NEW f, NEW s, Least(f, s)
    PROVE  IsLedTo(f, s)
<1>1. IsSolution(f, s) /\ s.edges \subseteq EdgesOf(f) /\ IsRooted(s)
  BY DEF Least
<1>2. 1 \in s.executable /\ (\A e \in s.edges : e[2] \in s.executable)
      /\ \A b \in s.executable : b \in BlockIds(f)
  BY <1>1 DEF IsSolution
<1>3. \A o \in s.executable : o # 1 => \E e \in s.edges : e[2] = o
  BY <1>1, <1>2, ExecutedIsLedTo
<1> QED BY <1>1, <1>2, <1>3 DEF IsLedTo

\* The terminator of an executed block that is not folded.
LEMMA UnfoldedExit ==
    ASSUME NEW f, NEW s, IsFunction(f), WellFormed(f), Least(f, s), NEW b \in s.executable,
           ~Foldable(f, b, s)
    PROVE  \A c \in ToSet(Successors(f, b)) : <<b, c>> \in s.edges
<1>1. IsSolution(f, s)
  BY DEF Least
<1>2. b \in BlockIds(f) /\ ExitSettled(f, s, b) /\ s.flow = <<>>
  BY <1>1 DEF IsSolution
<1>3. PICK term : term = f.blocks[b].term
  OBVIOUS
<1>4. \A c \in ToSet(Leaving(s, term)) : <<b, c>> \in s.edges
  <2>1. ToSet(<<>>) = {}
    BY DEF ToSet
  <2> QED BY <1>2, <1>3, <2>1 DEF ExitSettled
<1>5. /\ term.kind \in {"jump", "branch", "return"} /\ HasItsTargets(term)
      /\ term.to \in Seq(BlockIds(f)) /\ term.args \in Seq(Operands)
  BY <1>2, <1>3, PartTypes, ShapeOf
<1>6. CASE term.kind = "jump"
  <2>1. Leaving(s, term) = term.to
    BY <1>6 DEF Leaving
  <2> QED BY <1>3, <1>4, <2>1 DEF Successors
<1>7. CASE term.kind = "return"
  <2>1. Len(term.to) = 0
    BY <1>5, <1>7 DEF HasItsTargets
  <2>2. DOMAIN term.to = 1 .. 0
    BY <1>5, <2>1
  <2>3. ToSet(term.to) = {}
    BY <2>2 DEF ToSet
  <2> QED BY <1>3, <2>3 DEF Successors
<1>8. CASE term.kind = "branch"
  <2>1. Len(term.to) = 2 /\ Len(term.args) = 1
    BY <1>5, <1>8 DEF HasItsTargets
  <2>2. PICK x, y, known : x = term.to[1] /\ y = term.to[2] /\ known = KnownOf(s, term.args[1])
    OBVIOUS
  <2>3. ToSet(term.to) = {x, y}
    <3>1. DOMAIN term.to = {1, 2}
      <4>1. 1 .. 2 = {1, 2}
        OBVIOUS
      <4> QED BY <1>5, <2>1, <4>1, LengthFacts
    <3> QED BY <2>2, <3>1 DEF ToSet
  <2>4. known # Nothing
    <3>1. ReadsKnown(f, s, b)
      BY NothingUnknownIsRead
    <3>2. 1 \in DOMAIN term.args
      BY <1>5, <2>1
    <3> QED BY <1>3, <2>2, <3>1, <3>2 DEF ReadsKnown
  <2>5. <<b, x>> \in s.edges \/ <<b, y>> \in s.edges
    <3>1. Leaving(s, term) = IF known = Anything THEN term.to
                             ELSE IF known.value = 0 THEN <<y>> ELSE <<x>>
      BY <1>8, <2>2, <2>4 DEF Leaving
    <3>2. CASE known = Anything
      BY <1>4, <2>3, <3>1, <3>2
    <3>3. CASE known # Anything
      <4>1. \A z : z \in ToSet(<<z>>)
        <5>1. \A z : DOMAIN <<z>> = {1} /\ <<z>>[1] = z
          OBVIOUS
        <5> QED BY <5>1 DEF ToSet
      <4>2. Leaving(s, term) = <<y>> \/ Leaving(s, term) = <<x>>
        BY <3>1, <3>3
      <4> QED BY <1>4, <4>1, <4>2
    <3> QED BY <3>2, <3>3
  <2>6. (<<b, x>> \in s.edges) <=> (<<b, y>> \in s.edges)
    BY <1>3, <1>8, <2>2 DEF Foldable, Taken, Successors
  <2> QED BY <1>3, <2>3, <2>5, <2>6 DEF Successors
<1> QED BY <1>5, <1>6, <1>7, <1>8

(***************************************************************************)
(* The function after the folding.                                         *)
(***************************************************************************)
IsFolded(f, s, h) ==
    /\ Consistent(h) /\ BlockIds(h) = BlockIds(f)
    /\ \A b \in s.executable :
          /\ h.blocks[b].preds = f.blocks[b].preds
          /\ DOMAIN h.blocks[b].phis = DOMAIN f.blocks[b].phis
          /\ \A p \in DOMAIN f.blocks[b].phis :
                /\ h.blocks[b].phis[p].dest = f.blocks[b].phis[p].dest
                /\ h.blocks[b].phis[p].args = With(ConstantsOf(s), f.blocks[b].phis[p].args)
          /\ DOMAIN h.blocks[b].insts = DOMAIN f.blocks[b].insts
          /\ \A i \in DOMAIN f.blocks[b].insts :
                /\ h.blocks[b].insts[i].dest = f.blocks[b].insts[i].dest
                /\ h.blocks[b].insts[i].op = f.blocks[b].insts[i].op
                /\ h.blocks[b].insts[i].args = With(ConstantsOf(s), f.blocks[b].insts[i].args)
          /\ \/ LeavesAsBefore(f, s, b, h.blocks[b].term)
             \/ LeavesOneWay(f, s, b, h.blocks[b].term)

LEMMA ConstantsAreWords ==
    ASSUME NEW s, KnowsWords(s)
    PROVE  AreWords(ConstantsOf(s))
  BY ConstantsAreKnown DEF AreWords, ConstantsOf

LEMMA FoldedIs ==
    ASSUME NEW f, NEW s, IsFunction(f), WellFormed(f), Least(f, s), NEW h, h = Folded(f, s)
    PROVE  IsFolded(f, s, h)
<1>1. Consistent(f)
  BY DEF WellFormed, AllReachable, Consistent
<1>2. PICK r, g : r = ConstantsOf(s) /\ g = SubstituteOperands(f, r)
  OBVIOUS
<1>3. AreWords(r)
  BY <1>2, ConstantsAreWords DEF Least
<1>4. Consistent(g) /\ IsFunction(g)
  BY <1>1, <1>2, <1>3, SubstitutionIsConsistent DEF Consistent
<1>5. BlockIds(g) = BlockIds(f)
  BY <1>2 DEF SubstituteOperands, BlockIds
<1>6. \A b \in BlockIds(f) : SubstitutedBlock(r, g.blocks[b], f.blocks[b])
  BY <1>2, <1>3, SubstitutedIs
<1>7. IsLedTo(f, s)
  BY LeastIsLedTo
<1>8. \A b \in BlockIds(f) : /\ g.blocks[b].term.kind = f.blocks[b].term.kind
                             /\ Successors(g, b) = Successors(f, b)
                             /\ Foldable(g, b, s) <=> Foldable(f, b, s)
  BY <1>6 DEF SubstitutedBlock, Successors, Foldable, Taken
<1>9. IsLedTo(g, s)
  <2>1. EdgesOf(g) = EdgesOf(f)
    BY <1>5, <1>8 DEF EdgesOf
  <2> QED BY <1>5, <1>7, <2>1 DEF IsLedTo
<1>10. FoldedSoFar(g, s, h, Len(g.blocks))
  BY <1>2, <1>4, <1>9, FoldingLeaves DEF Folded
<1>11. /\ Consistent(h) /\ BlockIds(h) = BlockIds(g)
       /\ \A c \in BlockIds(g) : h.blocks[c].insts = g.blocks[c].insts
       /\ \A c \in s.executable :
             h.blocks[c].preds = g.blocks[c].preds /\ h.blocks[c].phis = g.blocks[c].phis
       /\ \A c \in BlockIds(g) : ~Foldable(g, c, s) => h.blocks[c].term = g.blocks[c].term
       /\ \A c \in BlockIds(g) : c <= Len(g.blocks) /\ Foldable(g, c, s)
                                    => h.blocks[c].term = Jump(TheTaken(g, c, s))
  BY <1>10 DEF FoldedSoFar
<1>12. ASSUME NEW b \in s.executable
       PROVE  \/ LeavesAsBefore(f, s, b, h.blocks[b].term)
              \/ LeavesOneWay(f, s, b, h.blocks[b].term)
  <2>1. b \in BlockIds(f) /\ b \in BlockIds(g) /\ b <= Len(g.blocks)
    <3>1. BlockIds(g) = 1 .. Len(g.blocks) /\ Len(g.blocks) \in Nat
      BY <1>4, BlockTypes
    <3> QED BY <1>5, <1>7, <3>1 DEF IsLedTo
  <2>2. CASE ~Foldable(f, b, s)
    <3>1. h.blocks[b].term = g.blocks[b].term
      BY <1>8, <1>11, <2>1, <2>2
    <3>2. \A c \in ToSet(Successors(f, b)) : <<b, c>> \in s.edges
      BY <2>2, UnfoldedExit
    <3>3. SubstitutedBlock(r, g.blocks[b], f.blocks[b])
      BY <1>6, <2>1, SMTT(30)
    <3>4. LeavesAsBefore(f, s, b, h.blocks[b].term)
      BY <1>2, <3>1, <3>2, <3>3 DEF LeavesAsBefore, SubstitutedBlock
    <3> QED BY <3>4
  <2>3. CASE Foldable(f, b, s)
    <3>1. PICK t : t = TheTaken(g, b, s)
      OBVIOUS
    <3>2. h.blocks[b].term = Jump(t)
      BY <1>8, <1>11, <2>1, <2>3, <3>1
    <3>3. /\ t \in ToSet(Successors(g, b)) /\ <<b, t>> \in s.edges
          /\ \A c \in ToSet(Successors(g, b)) : <<b, c>> \in s.edges => c = t
      BY <1>4, <1>8, <2>1, <2>3, <3>1, TakenTargets
    <3>4. LeavesOneWay(f, s, b, h.blocks[b].term)
      BY <1>8, <2>1, <3>2, <3>3, SMTT(30) DEF LeavesOneWay
    <3> QED BY <3>4
  <2> QED BY <2>2, <2>3
<1>13. ASSUME NEW b \in s.executable
       PROVE  /\ h.blocks[b].preds = f.blocks[b].preds
              /\ DOMAIN h.blocks[b].phis = DOMAIN f.blocks[b].phis
              /\ \A p \in DOMAIN f.blocks[b].phis :
                    /\ h.blocks[b].phis[p].dest = f.blocks[b].phis[p].dest
                    /\ h.blocks[b].phis[p].args = With(ConstantsOf(s), f.blocks[b].phis[p].args)
              /\ DOMAIN h.blocks[b].insts = DOMAIN f.blocks[b].insts
              /\ \A i \in DOMAIN f.blocks[b].insts :
                    /\ h.blocks[b].insts[i].dest = f.blocks[b].insts[i].dest
                    /\ h.blocks[b].insts[i].op = f.blocks[b].insts[i].op
                    /\ h.blocks[b].insts[i].args = With(ConstantsOf(s), f.blocks[b].insts[i].args)
  <2>1. b \in BlockIds(f) /\ b \in BlockIds(g)
    BY <1>5, <1>7 DEF IsLedTo
  <2>2. SubstitutedBlock(r, g.blocks[b], f.blocks[b])
    BY <1>6, <2>1
  <2>3. /\ h.blocks[b].preds = g.blocks[b].preds /\ h.blocks[b].phis = g.blocks[b].phis
        /\ h.blocks[b].insts = g.blocks[b].insts
    BY <1>11, <2>1
  <2> QED BY <1>2, <2>2, <2>3 DEF SubstitutedBlock
<1> QED BY <1>5, <1>11, <1>12, <1>13 DEF IsFolded

\* Every edge that is left was found traversable.
LEMMA LeftEdges ==
    ASSUME NEW f, NEW s, NEW h, IsFolded(f, s, h), NEW b \in s.executable,
           NEW c \in ToSet(Successors(h, b))
    PROVE  <<b, c>> \in s.edges
<1>1. PICK term : term = h.blocks[b].term
  OBVIOUS
<1>2. LeavesAsBefore(f, s, b, term) \/ LeavesOneWay(f, s, b, term)
  BY <1>1 DEF IsFolded
<1>3. CASE LeavesAsBefore(f, s, b, term)
  BY <1>1, <1>3 DEF LeavesAsBefore, Successors
<1>4. CASE LeavesOneWay(f, s, b, term)
  <2>1. PICK t : term = Jump(t) /\ <<b, t>> \in s.edges
    BY <1>4 DEF LeavesOneWay
  <2>2. c \in ToSet(<<t>>)
    BY <1>1, <2>1 DEF Jump, Successors
  <2>3. DOMAIN <<t>> = {1} /\ <<t>>[1] = t
    OBVIOUS
  <2>4. c = t
    BY <2>2, <2>3 DEF ToSet
  <2> QED BY <2>1, <2>4
<1> QED BY <1>2, <1>3, <1>4

LEMMA LeftIsExecuted ==
    ASSUME NEW f, NEW s, IsSolution(f, s), NEW h, IsFolded(f, s, h)
    PROVE  Reachable(h) \subseteq s.executable
<1>1. 1 \in s.executable /\ \A e \in s.edges : e[2] \in s.executable
  BY DEF IsSolution
<1>2. \A b \in s.executable : \A c \in ToSet(Successors(h, b)) : c \in s.executable
  <2>1. ASSUME NEW b \in s.executable, NEW c \in ToSet(Successors(h, b)) PROVE c \in s.executable
    <3>1. <<b, c>> \in s.edges
      BY LeftEdges
    <3>2. <<b, c>>[2] = c
      OBVIOUS
    <3> QED BY <1>1, <3>1, <3>2
  <2> QED BY <2>1
<1>3. IsFunction(h)
  BY DEF IsFolded, Consistent
<1>4. PICK S, none : S = s.executable /\ none = {}
  OBVIOUS
<1>5. ReachableAvoiding(h, none) \subseteq S
  BY <1>1, <1>2, <1>3, <1>4, AvoidingIsLeast
<1> QED BY <1>4, <1>5 DEF Reachable

-----------------------------------------------------------------------------
(***************************************************************************)
(* What apply leaves of the function: the blocks K, under the numbers N.   *)
(***************************************************************************)
ExitIsLeft(f, s, b, is, K, N) ==
    LET was == f.blocks[b].term
    IN  \/ /\ is.kind = was.kind /\ is.args = With(ConstantsOf(s), was.args)
           /\ DOMAIN is.to = DOMAIN was.to
           /\ \A k \in DOMAIN was.to : /\ was.to[k] \in K /\ is.to[k] = N[was.to[k]]
                                       /\ <<b, was.to[k]>> \in s.edges
        \/ \E t \in K :
              /\ is.kind = "jump" /\ is.args = <<>> /\ DOMAIN is.to = {1} /\ is.to[1] = N[t]
              /\ \A c \in ToSet(Successors(f, b)) : <<b, c>> \in s.edges => c = t

BlockIsLeft(f, s, g, K, N, b) ==
    /\ PhisMove(g.blocks[N[b]], f.blocks[b], K, N, ConstantsOf(s))
    /\ InstsMove(g.blocks[N[b]], f.blocks[b], ConstantsOf(s))
    /\ ExitIsLeft(f, s, b, g.blocks[N[b]].term, K, N)
    /\ \A j \in DOMAIN f.blocks[b].preds :
          f.blocks[b].preds[j] \in K => <<f.blocks[b].preds[j], b>> \in s.edges

IsLeft(f, s, g, K, N) ==
    /\ Renumbers(g, K, N) /\ K \subseteq s.executable
    /\ \A b \in K : BlockIsLeft(f, s, g, K, N, b)

LEMMA FoldedBlockIsLeft ==
    ASSUME NEW f, NEW s, IsFunction(f), WellFormed(f), Least(f, s), NEW h, IsFolded(f, s, h),
           NEW g, NEW K, K \subseteq s.executable, NEW N, MovesTo(h, g, K, N), NEW b \in K
    PROVE  BlockIsLeft(f, s, g, K, N, b)
<1>1. PICK is, mid, was, r : /\ is = g.blocks[N[b]] /\ mid = h.blocks[b] /\ was = f.blocks[b]
                             /\ r = ConstantsOf(s)
  OBVIOUS
<1>2. /\ mid.preds = was.preds
      /\ DOMAIN mid.phis = DOMAIN was.phis
      /\ \A p \in DOMAIN was.phis :
            mid.phis[p].dest = was.phis[p].dest /\ mid.phis[p].args = With(r, was.phis[p].args)
      /\ InstsMove(mid, was, r)
      /\ LeavesAsBefore(f, s, b, mid.term) \/ LeavesOneWay(f, s, b, mid.term)
      /\ Consistent(h) /\ BlockIds(h) = BlockIds(f)
  BY <1>1 DEF IsFolded, InstsMove
<1>3. /\ PhisMove(is, mid, K, N, Unread) /\ is.insts = mid.insts
      /\ ExitMoves(is.term, mid.term, K, N)
  BY <1>1 DEF MovesTo
<1>4. InstsMove(is, was, r)
  BY <1>2, <1>3 DEF InstsMove
<1>5. PhisMove(is, was, K, N, r)
  <2>1. DOMAIN is.phis = DOMAIN was.phis
    BY <1>2, <1>3 DEF PhisMove
  <2>2. ASSUME NEW p \in DOMAIN was.phis
        PROVE  /\ is.phis[p].dest = was.phis[p].dest
               /\ \A j \in DOMAIN was.phis[p].args : was.preds[j] \in K =>
                     \E k \in DOMAIN is.phis[p].args :
                        /\ is.preds[k] = N[was.preds[j]]
                        /\ is.phis[p].args[k] = With(r, was.phis[p].args)[j]
               /\ \A k \in DOMAIN is.phis[p].args :
                     \E j \in DOMAIN was.phis[p].args :
                        /\ was.preds[j] \in K /\ is.preds[k] = N[was.preds[j]]
                        /\ is.phis[p].args[k] = With(r, was.phis[p].args)[j]
    <3>1. PICK args, between : args = was.phis[p].args /\ between = With(r, args)
      OBVIOUS
    <3>2. between = mid.phis[p].args /\ p \in DOMAIN mid.phis
      BY <1>2, <2>2, <3>1
    <3>3. DOMAIN between = DOMAIN args
      BY <3>1 DEF With
    <3>4. \A j \in DOMAIN between : With(Unread, between)[j] = between[j]
      BY WithNothing
    <3>5. /\ is.phis[p].dest = mid.phis[p].dest
          /\ \A j \in DOMAIN between : mid.preds[j] \in K =>
                \E k \in DOMAIN is.phis[p].args :
                   /\ is.preds[k] = N[mid.preds[j]]
                   /\ is.phis[p].args[k] = With(Unread, between)[j]
          /\ \A k \in DOMAIN is.phis[p].args :
                \E j \in DOMAIN between :
                   /\ mid.preds[j] \in K /\ is.preds[k] = N[mid.preds[j]]
                   /\ is.phis[p].args[k] = With(Unread, between)[j]
      BY <1>3, <3>2 DEF PhisMove
    <3>6. /\ \A j \in DOMAIN args : was.preds[j] \in K =>
                \E k \in DOMAIN is.phis[p].args :
                   is.preds[k] = N[was.preds[j]] /\ is.phis[p].args[k] = between[j]
          /\ \A k \in DOMAIN is.phis[p].args :
                \E j \in DOMAIN args :
                   /\ was.preds[j] \in K /\ is.preds[k] = N[was.preds[j]]
                   /\ is.phis[p].args[k] = between[j]
      BY <1>2, <3>3, <3>4, <3>5
    <3>7. is.phis[p].dest = was.phis[p].dest
      BY <1>2, <2>2, <3>5
    <3> QED BY <3>1, <3>6, <3>7
  <2> QED BY <2>1, <2>2 DEF PhisMove
<1>6. ExitIsLeft(f, s, b, is.term, K, N)
  <2>1. CASE LeavesAsBefore(f, s, b, mid.term)
    <3>1. /\ mid.term.kind = was.term.kind /\ mid.term.to = was.term.to
          /\ mid.term.args = With(r, was.term.args)
          /\ \A c \in ToSet(was.term.to) : <<b, c>> \in s.edges
      BY <1>1, <2>1 DEF LeavesAsBefore, Successors
    <3>2. \A k \in DOMAIN was.term.to : was.term.to[k] \in ToSet(was.term.to)
      BY DEF ToSet
    <3> QED BY <1>1, <1>3, <3>1, <3>2, Zenon DEF ExitIsLeft, ExitMoves
  <2>2. CASE LeavesOneWay(f, s, b, mid.term)
    <3>1. PICK t : /\ mid.term = Jump(t)
                   /\ \A c \in ToSet(Successors(f, b)) : <<b, c>> \in s.edges => c = t
      BY <2>2 DEF LeavesOneWay
    <3>2. mid.term.kind = "jump" /\ mid.term.args = <<>> /\ mid.term.to = <<t>>
      BY <3>1 DEF Jump
    <3>3. DOMAIN <<t>> = {1} /\ <<t>>[1] = t
      OBVIOUS
    <3>4. /\ is.term.kind = "jump" /\ is.term.args = <<>> /\ DOMAIN is.term.to = {1}
          /\ t \in K /\ is.term.to[1] = N[t]
      BY <1>3, <3>2, <3>3 DEF ExitMoves
    <3> QED BY <3>1, <3>4 DEF ExitIsLeft
  <2> QED BY <1>2, <2>1, <2>2
<1>7. ASSUME NEW j \in DOMAIN was.preds, was.preds[j] \in K PROVE <<was.preds[j], b>> \in s.edges
  <2>1. PICK a : a = was.preds[j]
    OBVIOUS
  <2>2. b \in BlockIds(h)
    BY <1>2, LeastIsLedTo DEF IsLedTo
  <2>3. b \in ToSet(Successors(h, a))
    BY <1>1, <1>2, <1>7, <2>1, <2>2, PredecessorLeadsThere
  <2> QED BY <1>7, <2>1, <2>3, LeftEdges
<1> QED BY <1>1, <1>4, <1>5, <1>6, <1>7 DEF BlockIsLeft

LEMMA AppliedIsLeft ==
    ASSUME NEW f, NEW s, IsFunction(f), WellFormed(f), Least(f, s)
    PROVE  \E K, N : IsLeft(f, s, Applied(f, s), K, N)
<1>1. PICK h : h = Folded(f, s)
  OBVIOUS
<1>2. IsFolded(f, s, h)
  BY <1>1, FoldedIs
<1>3. PICK g, K : g = RetainReachable(h) /\ K = Reachable(h)
  OBVIOUS
<1>4. Consistent(h)
  BY <1>2 DEF IsFolded
<1>5. PICK N : MovesTo(h, g, K, N)
  BY <1>3, <1>4, RetainingMoves
<1>6. K \subseteq s.executable
  BY <1>2, <1>3, LeftIsExecuted DEF Least
<1>7. \A b \in K : BlockIsLeft(f, s, g, K, N, b)
  BY <1>2, <1>5, <1>6, FoldedBlockIsLeft
<1>8. IsLeft(f, s, g, K, N)
  BY <1>5, <1>6, <1>7 DEF IsLeft, MovesTo
<1>9. Applied(f, s) = g
  BY <1>1, <1>3 DEF Applied, Folded, ConstantsOf
<1> QED BY <1>8, <1>9

-----------------------------------------------------------------------------
(***************************************************************************)
(* A solution t of what is left says something of the function before: of  *)
(* the values that are constant in s what s says, of the others what t     *)
(* does.  It is a solution of that too.                                    *)
(***************************************************************************)
Lifted(s, t, K, N) ==
    [known      |-> [v \in Values |-> IF v \in ConstantValues(s) THEN s.known[v] ELSE t.known[v]],
     edges      |-> {e \in K \X K : <<N[e[1]], N[e[2]]>> \in t.edges},
     executable |-> {b \in K : N[b] \in t.executable},
     flow       |-> <<>>]

LEMMA LiftedParts ==
    ASSUME NEW s, NEW t, NEW K, NEW N, NEW u, u = Lifted(s, t, K, N)
    PROVE  /\ \A v \in Values : u.known[v] = IF v \in ConstantValues(s) THEN s.known[v] ELSE t.known[v]
           /\ \A a, b : <<a, b>> \in u.edges <=> a \in K /\ b \in K /\ <<N[a], N[b]>> \in t.edges
           /\ u.edges \subseteq K \X K
           /\ \A b : b \in u.executable <=> b \in K /\ N[b] \in t.executable
           /\ u.flow = <<>>
<1>1. u.edges = {e \in K \X K : <<N[e[1]], N[e[2]]>> \in t.edges}
  BY DEF Lifted
<1>2. ASSUME NEW a, NEW b
      PROVE  <<a, b>> \in u.edges <=> a \in K /\ b \in K /\ <<N[a], N[b]>> \in t.edges
  <2>1. <<a, b>>[1] = a /\ <<a, b>>[2] = b
    OBVIOUS
  <2>2. <<a, b>> \in K \X K <=> a \in K /\ b \in K
    OBVIOUS
  <2> QED BY <1>1, <2>1, <2>2
<1> QED BY <1>1, <1>2 DEF Lifted

\* A constant of s, as it is read in the function and in what is left of it.
LEMMA ConstantOperand ==
    ASSUME NEW s, KnowsWords(s), NEW v \in ConstantValues(s)
    PROVE  /\ v \in Values /\ s.known[v].value \in Word /\ s.known[v].value \notin Values
           /\ s.known[v] = Constant(s.known[v].value)
<1>1. v \in Values /\ s.known[v].is = "constant"
  BY DEF ConstantValues
<1>2. s.known[v] \in Lattice /\ s.known[v] # Nothing /\ s.known[v] # Anything
  BY <1>1 DEF KnowsWords, Nothing, Anything
<1>3. s.known[v].value \in Word /\ s.known[v] = Constant(s.known[v].value)
  BY <1>2, LatticeFacts
<1> QED BY <1>1, <1>3, SsaAssumption

LEMMA LiftedReads ==
    ASSUME NEW s, KnowsWords(s), NEW t, NEW K, NEW N, NEW u, u = Lifted(s, t, K, N),
           NEW args, NEW a \in DOMAIN args
    PROVE  KnownOf(u, args[a]) = KnownOf(t, With(ConstantsOf(s), args)[a])
<1>1. PICK v, r : v = args[a] /\ r = ConstantsOf(s)
  OBVIOUS
<1>2. DOMAIN r = ConstantValues(s) /\ \A w \in ConstantValues(s) : r[w] = s.known[w].value
  BY <1>1 DEF ConstantsOf
<1>3. With(r, args)[a] = IF v \in ConstantValues(s) THEN s.known[v].value ELSE v
  BY <1>1, <1>2 DEF With
<1>4. \A w \in Values : u.known[w] = IF w \in ConstantValues(s) THEN s.known[w] ELSE t.known[w]
  BY LiftedParts
<1>5. CASE v \in ConstantValues(s)
  <2>1. /\ v \in Values /\ s.known[v].value \notin Values
        /\ s.known[v] = Constant(s.known[v].value)
    BY <1>5, ConstantOperand
  <2>2. KnownOf(u, v) = s.known[v]
    BY <1>4, <1>5, <2>1 DEF KnownOf
  <2>3. KnownOf(t, s.known[v].value) = Constant(s.known[v].value)
    BY <2>1 DEF KnownOf
  <2> QED BY <1>1, <1>3, <1>5, <2>1, <2>2, <2>3
<1>6. CASE v \notin ConstantValues(s)
  <2>1. KnownOf(u, v) = KnownOf(t, v)
    BY <1>4, <1>6 DEF KnownOf
  <2> QED BY <1>1, <1>3, <1>6, <2>1
<1> QED BY <1>5, <1>6

LEMMA NeitherMeansAnything ==
    ASSUME NEW s, KnowsWords(s), NEW v \in Values, v \notin ConstantValues(s), s.known[v] # Nothing
    PROVE  s.known[v] = Anything
<1>1. s.known[v] \in Lattice /\ s.known[v].is # "constant"
  BY DEF KnowsWords, ConstantValues
<1> QED BY <1>1, LatticeFacts

\* What is known in s covers it.
LEMMA LiftedIsCovered ==
    ASSUME NEW s, KnowsWords(s), NEW t, NEW K, NEW N, NEW u, u = Lifted(s, t, K, N),
           NEW operand, KnownOf(s, operand) # Nothing
    PROVE  Covers(KnownOf(s, operand), KnownOf(u, operand))
<1>1. CASE operand \notin Values
  BY <1>1 DEF KnownOf, Covers
<1>2. CASE operand \in Values
  <2>1. s.known[operand] # Nothing
    BY <1>2 DEF KnownOf
  <2>2. u.known[operand] = IF operand \in ConstantValues(s) THEN s.known[operand] ELSE t.known[operand]
    BY <1>2, LiftedParts
  <2>3. CASE operand \in ConstantValues(s)
    BY <1>2, <2>2, <2>3 DEF KnownOf, Covers
  <2>4. CASE operand \notin ConstantValues(s)
    <3>1. s.known[operand] = Anything
      BY <1>2, <2>1, <2>4, NeitherMeansAnything
    <3> QED BY <1>2, <3>1 DEF KnownOf, Covers
  <2> QED BY <2>3, <2>4
<1> QED BY <1>1, <1>2

\* Instructions and terminators that read what is known alike.
ReadAlike(s, args, t, others) == \A a \in DOMAIN args : KnownOf(s, args[a]) = KnownOf(t, others[a])

LEMMA EvaluateAlike ==
    ASSUME NEW s, NEW t, NEW inst, NEW other, inst.args \in Seq(Operands), HasItsOperands(inst),
           other.op = inst.op, ReadAlike(s, inst.args, t, other.args)
    PROVE  Evaluate(s, inst) = Evaluate(t, other)
<1>1. DOMAIN inst.args = 1 .. Len(inst.args)
  OBVIOUS
<1>2. CASE inst.op \in BinaryOps
  <2>1. Len(inst.args) = 2
    BY <1>2 DEF HasItsOperands
  <2>2. 1 \in DOMAIN inst.args /\ 2 \in DOMAIN inst.args
    BY <1>1, <2>1
  <2>3. KnownOf(s, inst.args[1]) = KnownOf(t, other.args[1])
        /\ KnownOf(s, inst.args[2]) = KnownOf(t, other.args[2])
    BY <2>2 DEF ReadAlike
  <2> QED BY <2>3 DEF Evaluate
<1>3. CASE inst.op = "copy"
  <2>1. Len(inst.args) = 1
    BY <1>3 DEF HasItsOperands
  <2>2. 1 \in DOMAIN inst.args
    BY <1>1, <2>1
  <2>3. KnownOf(s, inst.args[1]) = KnownOf(t, other.args[1])
    BY <2>2 DEF ReadAlike
  <2>4. Evaluate(s, inst) = KnownOf(s, inst.args[1])
    BY <1>3 DEF Evaluate, BinaryOps
  <2>5. Evaluate(t, other) = KnownOf(t, other.args[1])
    BY <1>3 DEF Evaluate, BinaryOps
  <2> QED BY <2>3, <2>4, <2>5
<1>4. CASE inst.op = "undef"
  <2>1. Evaluate(s, inst) = Constant(0)
    BY <1>4 DEF Evaluate, BinaryOps
  <2>2. Evaluate(t, other) = Constant(0)
    BY <1>4 DEF Evaluate, BinaryOps
  <2> QED BY <2>1, <2>2
<1>5. CASE inst.op # "copy" /\ inst.op # "undef" /\ inst.op \notin BinaryOps
  <2>1. Evaluate(s, inst) = Anything
    BY <1>5 DEF Evaluate
  <2>2. Evaluate(t, other) = Anything
    BY <1>5 DEF Evaluate
  <2> QED BY <2>1, <2>2
<1> QED BY <1>2, <1>3, <1>4, <1>5

\* They leave along the same positions of their targets.
LEMMA LeavingAlike ==
    ASSUME NEW s, NEW t, NEW term, NEW other, HasItsTargets(term), NEW ids, term.to \in Seq(ids),
           term.args \in Seq(Operands), term.kind \in {"jump", "branch", "return"},
           other.kind = term.kind, DOMAIN other.to = DOMAIN term.to,
           ReadAlike(s, term.args, t, other.args),
           NEW c \in ToSet(Leaving(s, term))
    PROVE  \E k \in DOMAIN term.to : term.to[k] = c /\ other.to[k] \in ToSet(Leaving(t, other))
<1>1. CASE term.kind = "jump"
  <2>1. Leaving(s, term) = term.to
    BY <1>1 DEF Leaving
  <2>2. Leaving(t, other) = other.to
    BY <1>1 DEF Leaving
  <2>3. PICK k \in DOMAIN term.to : term.to[k] = c
    BY <2>1 DEF ToSet
  <2>4. other.to[k] \in ToSet(other.to)
    BY <2>3 DEF ToSet
  <2> QED BY <2>2, <2>3, <2>4
<1>2. CASE term.kind = "return"
  <2>1. Leaving(s, term) = <<>>
    BY <1>2 DEF Leaving
  <2>2. ToSet(<<>>) = {}
    BY DEF ToSet
  <2> QED BY <2>1, <2>2
<1>3. CASE term.kind = "branch"
  <2>1. Len(term.to) = 2 /\ Len(term.args) = 1
    BY <1>3 DEF HasItsTargets
  <2>2. 1 \in DOMAIN term.to /\ 2 \in DOMAIN term.to /\ 1 \in DOMAIN term.args
    <3>1. DOMAIN term.to = 1 .. 2 /\ DOMAIN term.args = 1 .. 1
      BY <2>1, LengthFacts
    <3> QED BY <3>1
  <2>3. PICK x, y, x2, y2 : x = term.to[1] /\ y = term.to[2] /\ x2 = other.to[1] /\ y2 = other.to[2]
    OBVIOUS
  <2>4. PICK known : known = KnownOf(s, term.args[1])
    OBVIOUS
  <2>5. known = KnownOf(t, other.args[1])
    BY <2>2, <2>4 DEF ReadAlike
  <2>6. Leaving(s, term) = IF known = Nothing THEN <<>>
                           ELSE IF known = Anything THEN term.to
                           ELSE IF known.value = 0 THEN <<y>> ELSE <<x>>
    BY <1>3, <2>3, <2>4 DEF Leaving
  <2>7. Leaving(t, other) = IF known = Nothing THEN <<>>
                            ELSE IF known = Anything THEN other.to
                            ELSE IF known.value = 0 THEN <<y2>> ELSE <<x2>>
    BY <1>3, <2>3, <2>5 DEF Leaving
  <2>8. \A z : ToSet(<<z>>) = {z}
    <3>1. \A z : DOMAIN <<z>> = {1} /\ <<z>>[1] = z
      OBVIOUS
    <3> QED BY <3>1 DEF ToSet
  <2>9. CASE known = Nothing
    <3>1. ToSet(<<>>) = {}
      BY DEF ToSet
    <3> QED BY <2>6, <2>9, <3>1
  <2>10. CASE known # Nothing /\ known = Anything
    <3>1. Leaving(s, term) = term.to /\ Leaving(t, other) = other.to
      BY <2>6, <2>7, <2>10
    <3>2. PICK k \in DOMAIN term.to : term.to[k] = c
      BY <3>1 DEF ToSet
    <3>3. other.to[k] \in ToSet(other.to)
      BY <3>2 DEF ToSet
    <3> QED BY <3>1, <3>2, <3>3
  <2>11. CASE known # Nothing /\ known # Anything /\ known.value = 0
    <3>1. Leaving(s, term) = <<y>> /\ Leaving(t, other) = <<y2>>
      BY <2>6, <2>7, <2>11
    <3>2. c = y /\ y2 \in ToSet(Leaving(t, other))
      BY <2>8, <3>1
    <3> QED BY <2>2, <2>3, <3>2
  <2>12. CASE known # Nothing /\ known # Anything /\ known.value # 0
    <3>1. Leaving(s, term) = <<x>> /\ Leaving(t, other) = <<x2>>
      BY <2>6, <2>7, <2>12
    <3>2. c = x /\ x2 \in ToSet(Leaving(t, other))
      BY <2>8, <3>1
    <3> QED BY <2>2, <2>3, <3>2
  <2> QED BY <2>9, <2>10, <2>11, <2>12
<1> QED BY <1>1, <1>2, <1>3

\* What is read in a block that is left is covered by what is known of it.
LEMMA LiftedArguments ==
    ASSUME NEW s, KnowsWords(s), NEW t, NEW K, NEW N, NEW u, u = Lifted(s, t, K, N), NEW args,
           \A a \in DOMAIN args : KnownOf(s, args[a]) # Nothing
    PROVE  CoversOf(s, u, args)
<1>1. ASSUME NEW a \in DOMAIN args PROVE Covers(KnownOf(s, args[a]), KnownOf(u, args[a]))
  <2>1. PICK operand : operand = args[a]
    OBVIOUS
  <2>2. KnownOf(s, operand) # Nothing
    BY <2>1
  <2>3. Covers(KnownOf(s, operand), KnownOf(u, operand))
    BY <2>2, LiftedIsCovered, SMTT(30)
  <2> QED BY <2>1, <2>3
<1> QED BY <1>1 DEF CoversOf

LEMMA LiftedPhi ==
    ASSUME NEW f, NEW s, IsFunction(f), EdgesAgree(f), IsSolution(f, s), KnowsWords(s),
           NEW b \in BlockIds(f), b \in s.executable, ReadsKnown(f, s, b), NEW g, NEW K, NEW N,
           BlockIsLeft(f, s, g, K, N, b), NEW t,
           \A q \in DOMAIN g.blocks[N[b]].phis : PhiSettled(g, t, N[b], q),
           NEW u, u = Lifted(s, t, K, N), NEW p \in DOMAIN f.blocks[b].phis
    PROVE  PhiSettled(f, u, b, p)
<1>1. PICK preds, dest, args, n : /\ preds = f.blocks[b].preds /\ n = N[b]
                                  /\ dest = f.blocks[b].phis[p].dest
                                  /\ args = f.blocks[b].phis[p].args
  OBVIOUS
<1>2. dest \in Values
  BY <1>1, PhiTypes
<1>3. \A v \in Values : u.known[v] = IF v \in ConstantValues(s) THEN s.known[v] ELSE t.known[v]
  BY LiftedParts
<1>4. ASSUME NEW j \in DOMAIN args, <<preds[j], b>> \in u.edges
      PROVE  Covers(u.known[dest], KnownOf(u, args[j]))
  <2>1. PICK a : a = preds[j]
    OBVIOUS
  <2>2. a \in K /\ <<N[a], n>> \in t.edges
    BY <1>1, <1>4, <2>1, LiftedParts
  <2>3. CASE dest \in ConstantValues(s)
    <3>1. <<a, b>> \in s.edges
      <4>1. args \in Seq(Operands) /\ preds \in Seq(BlockIds(f))
        BY <1>1, PhiTypes, PartTypes
      <4>2. Len(args) = Len(preds)
        BY <1>1 DEF EdgesAgree
      <4>3. j \in DOMAIN preds
        BY <1>4, <4>1, <4>2
      <4> QED BY <1>1, <2>1, <2>2, <4>3 DEF BlockIsLeft
    <3>2. KnownOf(s, args[j]) # Nothing
      BY <1>1, <1>4, <2>1, <3>1 DEF ReadsKnown
    <3>3. PhiSettled(f, s, b, p)
      BY SMTT(30) DEF IsSolution
    <3>4. Covers(s.known[dest], KnownOf(s, args[j]))
      BY <1>1, <1>4, <2>1, <3>1, <3>3 DEF PhiSettled
    <3>5. PICK operand : operand = args[j]
      OBVIOUS
    <3>6. Covers(KnownOf(s, operand), KnownOf(u, operand))
      BY <3>2, <3>5, LiftedIsCovered
    <3>7. u.known[dest] = s.known[dest]
      BY <1>2, <1>3, <2>3
    <3> QED BY <3>4, <3>5, <3>6, <3>7, CoversTransitive
  <2>4. CASE dest \notin ConstantValues(s)
    <3>1. PICK is, with : is = g.blocks[n] /\ with = With(ConstantsOf(s), args)
      OBVIOUS
    <3>2. PhisMove(is, f.blocks[b], K, N, ConstantsOf(s))
      BY <1>1, <3>1 DEF BlockIsLeft
    <3>3. p \in DOMAIN is.phis /\ is.phis[p].dest = dest
      BY <1>1, <3>2 DEF PhisMove
    <3>4. PICK k \in DOMAIN is.phis[p].args : is.preds[k] = N[a] /\ is.phis[p].args[k] = with[j]
      BY <1>1, <1>4, <2>1, <2>2, <3>1, <3>2, Zenon DEF PhisMove
    <3>5. PhiSettled(g, t, n, p)
      BY <1>1, <3>1, <3>3
    <3>6. Covers(t.known[dest], KnownOf(t, with[j]))
      BY <2>2, <3>1, <3>3, <3>4, <3>5, Zenon DEF PhiSettled
    <3>7. KnownOf(u, args[j]) = KnownOf(t, with[j])
      BY <1>4, <3>1, LiftedReads, SMTT(30)
    <3> QED BY <1>2, <1>3, <2>4, <3>6, <3>7
  <2> QED BY <2>3, <2>4
<1> QED BY <1>1, <1>4 DEF PhiSettled

LEMMA LiftedInst ==
    ASSUME NEW f, NEW s, IsFunction(f), KnowsWords(s), NEW b \in BlockIds(f),
           ReadsKnown(f, s, b), NEW g, NEW K, NEW N,
           BlockIsLeft(f, s, g, K, N, b), NEW t,
           \A j \in DOMAIN g.blocks[N[b]].insts : InstSettled(g, t, N[b], j),
           NEW u, u = Lifted(s, t, K, N), NEW i \in DOMAIN f.blocks[b].insts,
           InstSettled(f, s, b, i)
    PROVE  InstSettled(f, u, b, i)
<1>1. PICK inst, dest, n, other : /\ inst = f.blocks[b].insts[i] /\ n = N[b]
                                  /\ dest = f.blocks[b].insts[i].dest
                                  /\ other = g.blocks[n].insts[i]
  OBVIOUS
<1>2. inst.args \in Seq(Operands) /\ HasItsOperands(inst) /\ dest \in Values \cup {NoValue}
  BY <1>1, InstTypes
<1>3. \A v \in Values : u.known[v] = IF v \in ConstantValues(s) THEN s.known[v] ELSE t.known[v]
  BY LiftedParts
<1>4. ASSUME dest # NoValue PROVE Covers(u.known[dest], Evaluate(u, inst))
  <2>1. dest \in Values
    BY <1>2, <1>4
  <2>2. CASE dest \in ConstantValues(s)
    <3>1. \A a \in DOMAIN inst.args : KnownOf(s, inst.args[a]) # Nothing
      BY <1>1 DEF ReadsKnown
    <3>2. CoversOf(s, u, inst.args)
      BY <3>1, LiftedArguments
    <3>3. Covers(Evaluate(s, inst), Evaluate(u, inst))
      BY <1>2, <3>2, EvaluateIsCovered
    <3>4. Covers(s.known[dest], Evaluate(s, inst))
      BY <1>1, <1>4 DEF InstSettled
    <3>5. u.known[dest] = s.known[dest]
      BY <1>3, <2>1, <2>2
    <3> QED BY <3>3, <3>4, <3>5, CoversTransitive
  <2>3. CASE dest \notin ConstantValues(s)
    <3>1. InstsMove(g.blocks[n], f.blocks[b], ConstantsOf(s))
      BY <1>1 DEF BlockIsLeft
    <3>2. /\ i \in DOMAIN g.blocks[n].insts /\ other.dest = dest /\ other.op = inst.op
          /\ other.args = With(ConstantsOf(s), inst.args)
      BY <1>1, <3>1 DEF InstsMove
    <3>3. \A a \in DOMAIN inst.args : KnownOf(u, inst.args[a]) = KnownOf(t, With(ConstantsOf(s), inst.args)[a])
      BY LiftedReads
    <3>4. ReadAlike(u, inst.args, t, other.args)
      BY <3>2, <3>3 DEF ReadAlike
    <3>5. Evaluate(u, inst) = Evaluate(t, other)
      BY <1>2, <3>2, <3>4, EvaluateAlike
    <3>6. InstSettled(g, t, n, i)
      BY <1>1, <3>2
    <3>7. Covers(t.known[dest], Evaluate(t, other))
      BY <1>1, <1>4, <3>2, <3>6, Zenon DEF InstSettled
    <3> QED BY <1>3, <2>1, <2>3, <3>5, <3>7
  <2> QED BY <2>2, <2>3
<1> QED BY <1>1, <1>4 DEF InstSettled

LEMMA LiftedExit ==
    ASSUME NEW f, NEW s, IsFunction(f), IsSolution(f, s), KnowsWords(s), NEW b \in BlockIds(f),
           ReadsKnown(f, s, b), NEW g, NEW K, NEW N, b \in K,
           BlockIsLeft(f, s, g, K, N, b), NEW t, ExitSettled(g, t, N[b]), t.flow = <<>>,
           NEW u, u = Lifted(s, t, K, N), ExitSettled(f, s, b)
    PROVE  ExitSettled(f, u, b)
<1>1. PICK was, n, is : was = f.blocks[b].term /\ n = N[b] /\ is = g.blocks[n].term
  OBVIOUS
<1>2. /\ HasItsTargets(was) /\ was.to \in Seq(BlockIds(f)) /\ was.args \in Seq(Operands)
      /\ was.kind \in {"jump", "branch", "return"}
  BY <1>1, PartTypes DEF IsFunction
<1>3. ToSet(<<>>) = {}
  BY DEF ToSet
<1>4. \A d \in ToSet(Leaving(t, is)) : <<n, d>> \in t.edges
  BY <1>1, <1>3 DEF ExitSettled
<1>5. ASSUME NEW x, NEW y
      PROVE  <<x, y>> \in u.edges <=> x \in K /\ y \in K /\ <<N[x], N[y]>> \in t.edges
  BY LiftedParts
<1>6. ASSUME NEW c \in ToSet(Leaving(u, was)) PROVE <<b, c>> \in u.edges
  <2>1. SUFFICES c \in K /\ N[c] \in ToSet(Leaving(t, is))
    <3>1. c \in K => (<<b, c>> \in u.edges <=> <<n, N[c]>> \in t.edges)
      BY <1>1, <1>5
    <3> QED BY <1>4, <3>1
  <2>2. CASE /\ is.kind = was.kind /\ is.args = With(ConstantsOf(s), was.args)
             /\ DOMAIN is.to = DOMAIN was.to
             /\ \A k \in DOMAIN was.to : was.to[k] \in K /\ is.to[k] = N[was.to[k]]
    <3>1. \A a \in DOMAIN was.args : KnownOf(u, was.args[a]) = KnownOf(t, With(ConstantsOf(s), was.args)[a])
      BY LiftedReads
    <3>2. ReadAlike(u, was.args, t, is.args)
      BY <2>2, <3>1 DEF ReadAlike
    <3>3. PICK k \in DOMAIN was.to : was.to[k] = c /\ is.to[k] \in ToSet(Leaving(t, is))
      <4>1. PICK ids : ids = BlockIds(f)
        OBVIOUS
      <4>2. was.to \in Seq(ids)
        BY <1>2, <4>1
      <4> QED BY <1>2, <1>6, <2>2, <3>2, <4>2, LeavingAlike
    <3> QED BY <2>2, <3>3
  <2>3. CASE \E only \in K :
               /\ is.kind = "jump" /\ DOMAIN is.to = {1} /\ is.to[1] = N[only]
               /\ \A d \in ToSet(Successors(f, b)) : <<b, d>> \in s.edges => d = only
    <3>1. PICK only \in K :
               /\ is.kind = "jump" /\ DOMAIN is.to = {1} /\ is.to[1] = N[only]
               /\ \A d \in ToSet(Successors(f, b)) : <<b, d>> \in s.edges => d = only
      BY <2>3
    <3>2. \A a \in DOMAIN was.args : KnownOf(s, was.args[a]) # Nothing
      BY <1>1 DEF ReadsKnown
    <3>3. CoversOf(s, u, was.args)
      BY <3>2, LiftedArguments
    <3>4. ToSet(Leaving(u, was)) \subseteq ToSet(Leaving(s, was))
      BY <1>2, <3>3, LeavingIsCovered
    <3>5. s.flow = <<>>
      BY DEF IsSolution
    <3>6. <<b, c>> \in s.edges
      BY <1>1, <1>3, <1>6, <3>4, <3>5 DEF ExitSettled
    <3>7. ToSet(Leaving(s, was)) \subseteq ToSet(Successors(f, b))
      BY <1>1, LeavingIsAmongSuccessors
    <3>8. c = only
      BY <1>6, <3>1, <3>4, <3>6, <3>7
    <3>9. Leaving(t, is) = is.to
      BY <3>1 DEF Leaving
    <3>10. is.to[1] \in ToSet(is.to)
      BY <3>1 DEF ToSet
    <3> QED BY <3>1, <3>8, <3>9, <3>10
  <2> QED BY <1>1, <2>2, <2>3, Zenon DEF BlockIsLeft, ExitIsLeft
<1> QED BY <1>1, <1>6 DEF ExitSettled

(***************************************************************************)
(* What is solved after the rewriting was a solution before it.            *)
(***************************************************************************)
LEMMA LiftedIsSolution ==
    ASSUME NEW f, NEW s, IsFunction(f), WellFormed(f), Least(f, s), NEW g, NEW K, NEW N,
           IsLeft(f, s, g, K, N), NEW t, IsSolution(g, t), NEW u, u = Lifted(s, t, K, N)
    PROVE  IsSolution(f, u)
<1>1. IsSolution(f, s) /\ KnowsWords(s)
  BY DEF Least
<1>2. /\ 1 \in K /\ N[1] = 1 /\ K \subseteq s.executable
      /\ \A b \in K : BlockIsLeft(f, s, g, K, N, b)
  BY DEF IsLeft, Renumbers
<1>3. /\ \A a, b : <<a, b>> \in u.edges <=> a \in K /\ b \in K /\ <<N[a], N[b]>> \in t.edges
      /\ u.edges \subseteq K \X K
      /\ \A b : b \in u.executable <=> b \in K /\ N[b] \in t.executable
      /\ u.flow = <<>>
  BY LiftedParts
<1>4. 1 \in t.executable /\ (\A e \in t.edges : e[2] \in t.executable) /\ t.flow = <<>>
  BY DEF IsSolution
<1>5. 1 \in u.executable
  BY <1>2, <1>3, <1>4
<1>6. ASSUME NEW e \in u.edges PROVE e[2] \in u.executable
  <2>1. PICK a \in K, b \in K : e = <<a, b>>
    BY <1>3, <1>6
  <2>2. <<N[a], N[b]>> \in t.edges /\ <<N[a], N[b]>>[2] = N[b]
    BY <1>3, <1>6, <2>1
  <2>3. N[b] \in t.executable
    BY <1>4, <2>2
  <2> QED BY <1>3, <2>1, <2>3
<1>7. ASSUME NEW b \in u.executable
      PROVE  /\ b \in BlockIds(f)
             /\ \A p \in DOMAIN f.blocks[b].phis : PhiSettled(f, u, b, p)
             /\ \A i \in DOMAIN f.blocks[b].insts : InstSettled(f, u, b, i)
             /\ ExitSettled(f, u, b)
  <2>1. b \in K /\ N[b] \in t.executable /\ b \in s.executable
    BY <1>2, <1>3, <1>7
  <2>2. /\ b \in BlockIds(f)
        /\ \A i \in DOMAIN f.blocks[b].insts : InstSettled(f, s, b, i)
        /\ ExitSettled(f, s, b)
    BY <1>1, <2>1 DEF IsSolution
  <2>3. /\ \A p \in DOMAIN g.blocks[N[b]].phis : PhiSettled(g, t, N[b], p)
        /\ \A i \in DOMAIN g.blocks[N[b]].insts : InstSettled(g, t, N[b], i)
        /\ ExitSettled(g, t, N[b])
    BY <2>1 DEF IsSolution
  <2>4. ReadsKnown(f, s, b) /\ EdgesAgree(f) /\ BlockIsLeft(f, s, g, K, N, b)
    BY <1>2, <2>1, NothingUnknownIsRead DEF WellFormed
  <2>5. \A p \in DOMAIN f.blocks[b].phis : PhiSettled(f, u, b, p)
    BY <1>1, <2>1, <2>2, <2>3, <2>4, LiftedPhi
  <2>6. \A i \in DOMAIN f.blocks[b].insts : InstSettled(f, u, b, i)
    BY <1>1, <2>2, <2>3, <2>4, LiftedInst
  <2>7. ExitSettled(f, u, b)
    BY <1>1, <1>4, <2>1, <2>2, <2>3, <2>4, LiftedExit
  <2> QED BY <2>2, <2>5, <2>6, <2>7
<1> QED BY <1>3, <1>5, <1>6, <1>7 DEF IsSolution

-----------------------------------------------------------------------------
(***************************************************************************)
(* A second run over what is left finds nothing to do.                     *)
(***************************************************************************)
\* What is read where something was known is no constant there.
LEMMA NoConstantIsLeft ==
    ASSUME NEW s, KnowsWords(s), NEW t, NEW K, NEW N, NEW u, u = Lifted(s, t, K, N), IsWithin(s, u),
           NEW args, NEW a \in DOMAIN args, KnownOf(s, args[a]) # Nothing
    PROVE  With(ConstantsOf(s), args)[a] \notin ConstantValues(t)
<1>1. PICK v, r : v = args[a] /\ r = ConstantsOf(s)
  OBVIOUS
<1>2. DOMAIN r = ConstantValues(s) /\ \A w \in ConstantValues(s) : r[w] = s.known[w].value
  BY <1>1 DEF ConstantsOf
<1>3. With(r, args)[a] = IF v \in ConstantValues(s) THEN s.known[v].value ELSE v
  BY <1>1, <1>2 DEF With
<1>4. ConstantValues(t) \subseteq Values /\ \A w \in ConstantValues(t) : t.known[w].is = "constant"
  BY DEF ConstantValues
<1>5. CASE v \in ConstantValues(s)
  <2>1. s.known[v].value \notin Values
    BY <1>5, ConstantOperand
  <2> QED BY <1>1, <1>3, <1>4, <1>5, <2>1
<1>6. CASE v \notin ConstantValues(s)
  <2>1. SUFFICES ASSUME v \in Values, t.known[v].is = "constant" PROVE FALSE
    BY <1>1, <1>3, <1>4, <1>6
  <2>2. s.known[v] # Nothing
    BY <1>1, <2>1 DEF KnownOf
  <2>3. s.known[v] = Anything
    BY <1>6, <2>1, <2>2, NeitherMeansAnything
  <2>4. Covers(u.known[v], s.known[v])
    BY <2>1 DEF IsWithin
  <2>5. u.known[v] = Anything
    BY <2>2, <2>3, <2>4 DEF Covers
  <2>6. \A w \in Values : u.known[w] = IF w \in ConstantValues(s) THEN s.known[w] ELSE t.known[w]
    BY LiftedParts
  <2>7. t.known[v] = Anything
    BY <1>6, <2>1, <2>5, <2>6, SMTT(30)
  <2> QED BY <2>1, <2>7 DEF Anything
<1> QED BY <1>5, <1>6

LEMMA NothingReadIsLeft ==
    ASSUME NEW f, NEW s, IsFunction(f), EdgesAgree(f), KnowsWords(s), NEW b \in BlockIds(f),
           ReadsKnown(f, s, b), NEW g, NEW K, NEW N,
           BlockIsLeft(f, s, g, K, N, b), NEW t, NEW u, u = Lifted(s, t, K, N), IsWithin(s, u)
    PROVE  ~ReadsHere(g, N[b], ConstantValues(t))
<1>1. PICK n, was, is, r, values : /\ n = N[b] /\ was = f.blocks[b] /\ is = g.blocks[n]
                                   /\ r = ConstantsOf(s) /\ values = ConstantValues(t)
  OBVIOUS
<1>2. PhisMove(is, was, K, N, r) /\ InstsMove(is, was, r) /\ ExitIsLeft(f, s, b, is.term, K, N)
  BY <1>1 DEF BlockIsLeft
<1>3. ASSUME NEW p \in DOMAIN is.phis, NEW k \in DOMAIN is.phis[p].args
      PROVE  is.phis[p].args[k] \notin values
  <2>1. p \in DOMAIN was.phis
    BY <1>2 DEF PhisMove
  <2>2. PICK args : args = was.phis[p].args
    OBVIOUS
  <2>3. PICK j \in DOMAIN args : was.preds[j] \in K /\ is.phis[p].args[k] = With(r, args)[j]
    BY <1>2, <2>1, <2>2 DEF PhisMove
  <2>4. j \in DOMAIN was.preds
    <3>1. PICK preds : preds = was.preds
      OBVIOUS
    <3>2. args \in Seq(Operands) /\ preds \in Seq(BlockIds(f))
      BY <1>1, <2>1, <2>2, <3>1, PhiTypes, PartTypes
    <3>3. Len(args) = Len(preds)
      BY <1>1, <2>1, <2>2, <3>1 DEF EdgesAgree
    <3> QED BY <3>1, <3>2, <3>3
  <2>5. <<was.preds[j], b>> \in s.edges
    BY <1>1, <2>3, <2>4 DEF BlockIsLeft
  <2>6. KnownOf(s, args[j]) # Nothing
    BY <1>1, <2>1, <2>2, <2>5 DEF ReadsKnown
  <2>7. With(ConstantsOf(s), args)[j] \notin ConstantValues(t)
    BY <2>6, NoConstantIsLeft
  <2> QED BY <1>1, <2>3, <2>7
<1>4. ASSUME NEW i \in DOMAIN is.insts, NEW a \in DOMAIN is.insts[i].args
      PROVE  is.insts[i].args[a] \notin values
  <2>1. PICK args : args = was.insts[i].args
    OBVIOUS
  <2>2. i \in DOMAIN was.insts /\ is.insts[i].args = With(r, args)
    BY <1>2, <2>1 DEF InstsMove
  <2>3. a \in DOMAIN args
    BY <2>2, SMTT(30) DEF With
  <2>4. KnownOf(s, args[a]) # Nothing
    BY <1>1, <2>1, <2>2, <2>3 DEF ReadsKnown
  <2>5. With(ConstantsOf(s), args)[a] \notin ConstantValues(t)
    BY <2>3, <2>4, NoConstantIsLeft
  <2> QED BY <1>1, <2>2, <2>5
<1>5. ASSUME NEW a \in DOMAIN is.term.args PROVE is.term.args[a] \notin values
  <2>1. PICK args : args = was.term.args
    OBVIOUS
  <2>2. is.term.args = With(r, args) \/ is.term.args = <<>>
    BY <1>1, <1>2, <2>1, Zenon DEF ExitIsLeft
  <2>3. is.term.args = With(r, args)
    <3>1. DOMAIN <<>> = {}
      OBVIOUS
    <3> QED BY <1>5, <2>2, <3>1
  <2>4. a \in DOMAIN args
    BY <2>3 DEF With
  <2>5. KnownOf(s, args[a]) # Nothing
    BY <1>1, <2>1, <2>4 DEF ReadsKnown
  <2>6. With(ConstantsOf(s), args)[a] \notin ConstantValues(t)
    BY <2>4, <2>5, NoConstantIsLeft
  <2> QED BY <1>1, <2>3, <2>6
<1> QED BY <1>1, <1>3, <1>4, <1>5 DEF ReadsHere

\* A branch that is left is left along both edges.
LEMMA NoBranchIsLeftToFold ==
    ASSUME NEW f, NEW s, IsFunction(f), NEW b \in BlockIds(f), NEW g, NEW K, NEW N, b \in K,
           BlockIsLeft(f, s, g, K, N, b), NEW t, NEW u, u = Lifted(s, t, K, N), IsWithin(s, u)
    PROVE  ~Foldable(g, N[b], t)
<1>1. PICK n, was, is : n = N[b] /\ was = f.blocks[b].term /\ is = g.blocks[n].term
  OBVIOUS
<1>2. SUFFICES ASSUME is.kind = "branch" PROVE <<n, is.to[1]>> \in t.edges /\ <<n, is.to[2]>> \in t.edges
  BY <1>1 DEF Foldable, Taken, Successors
<1>3. /\ is.kind = was.kind
      /\ \A k \in DOMAIN was.to : /\ was.to[k] \in K /\ is.to[k] = N[was.to[k]]
                                  /\ <<b, was.to[k]>> \in s.edges
  BY <1>1, <1>2, Zenon DEF BlockIsLeft, ExitIsLeft
<1>4. 1 \in DOMAIN was.to /\ 2 \in DOMAIN was.to
  <2>1. HasItsTargets(was) /\ was.to \in Seq(BlockIds(f))
    BY <1>1, PartTypes DEF IsFunction
  <2>2. Len(was.to) = 2
    BY <1>2, <1>3, <2>1 DEF HasItsTargets
  <2> QED BY <2>1, <2>2
<1>5. ASSUME NEW c, <<b, c>> \in s.edges PROVE <<n, N[c]>> \in t.edges
  <2>1. <<b, c>> \in u.edges
    BY <1>5 DEF IsWithin
  <2> QED BY <1>1, <2>1, LiftedParts
<1> QED BY <1>3, <1>4, <1>5

LEMMA NothingToFold ==
    ASSUME NEW g, Len(g.blocks) \in Nat, BlockIds(g) = 1 .. Len(g.blocks), NEW t,
           \A n \in BlockIds(g) : ~Foldable(g, n, t)
    PROVE  FoldBranches(g, t) = g
<1>1. PICK N \in Nat : N = Len(g.blocks)
  OBVIOUS
<1>2. PICK w : /\ w[0] = g
               /\ \A b \in 1 .. Len(g.blocks) : w[b] = FoldBranch(w[b - 1], b, t)
               /\ FoldBranches(g, t) = w[Len(g.blocks)]
  BY FoldingUnfolds
<1>3. \A b \in 1 .. N : FoldBranch(g, b, t) = g
  BY <1>1 DEF FoldBranch
<1> DEFINE T == {n \in 0 .. N : w[n] = g}
<1>4. 0 \in T
  BY <1>2
<1>5. ASSUME NEW n \in 0 .. N - 1, n \in T PROVE n + 1 \in T
  <2>1. n + 1 \in 1 .. N /\ (n + 1) - 1 = n /\ n + 1 \in 0 .. N
    OBVIOUS
  <2>2. w[n + 1] = FoldBranch(w[n], n + 1, t) /\ w[n] = g
    BY <1>1, <1>2, <1>5, <2>1
  <2> QED BY <1>3, <2>1, <2>2
<1> HIDE DEF T
<1>6. \A k \in 0 .. N : k \in T
  BY <1>4, <1>5, UpToBound
<1>7. w[N] = g
  BY <1>6 DEF T
<1> QED BY <1>1, <1>2, <1>7

LEMMA NothingIsReported ==
    ASSUME NEW f, NEW s, IsFunction(f), WellFormed(f), Least(f, s), NEW g, g = Applied(f, s),
           NEW t, IsSolution(g, t)
    PROVE  ~Reports(g, t)
<1>1. PICK K, N : IsLeft(f, s, g, K, N)
  BY AppliedIsLeft
<1>2. PICK u : u = Lifted(s, t, K, N)
  OBVIOUS
<1>3. IsSolution(f, u)
  BY <1>1, <1>2, LiftedIsSolution
<1>4. KnowsWords(s) /\ IsSolution(f, s) /\ IsWithin(s, u)
  BY <1>3 DEF Least
<1>5. IsFunction(g) /\ WellFormed(g)
  BY <1>4, AppliedIsWellFormed
<1>6. ASSUME NEW n \in BlockIds(g)
      PROVE  ~ReadsHere(g, n, ConstantValues(t)) /\ ~Foldable(g, n, t)
  <2>1. PICK b \in K : n = N[b]
    BY <1>1 DEF IsLeft, Renumbers
  <2>2. b \in s.executable /\ BlockIsLeft(f, s, g, K, N, b)
    BY <1>1 DEF IsLeft
  <2>3. b \in BlockIds(f) /\ EdgesAgree(f)
    BY <1>4, <2>2 DEF IsSolution, WellFormed
  <2>4. ReadsKnown(f, s, b)
    BY <2>2, NothingUnknownIsRead
  <2>5. ~ReadsHere(g, N[b], ConstantValues(t))
    BY <1>2, <1>4, <2>2, <2>3, <2>4, NothingReadIsLeft
  <2>6. ~Foldable(g, N[b], t)
    BY <1>2, <1>4, <2>2, <2>3, NoBranchIsLeftToFold
  <2> QED BY <2>1, <2>5, <2>6
<1>7. ~ReadsAny(g, ConstantValues(t))
  BY <1>5, <1>6, ReadIsSomewhere
<1>8. FoldBranches(g, t) = g
  <2>1. Len(g.blocks) \in Nat /\ BlockIds(g) = 1 .. Len(g.blocks)
    BY <1>5, BlockTypes
  <2> QED BY <1>6, <2>1, NothingToFold
<1>9. Reachable(g) = BlockIds(g)
  BY <1>5 DEF WellFormed, AllReachable
<1> QED BY <1>6, <1>7, <1>8, <1>9 DEF Reports

-----------------------------------------------------------------------------
(***************************************************************************)
(* The runs of the pass, and what they report.                             *)
(***************************************************************************)
IsLeftover(g) == \E f, s : IsFunction(f) /\ WellFormed(f) /\ Least(f, s) /\ g = Applied(f, s)

Sparingly ==
    /\ run <= 2 => Sparing(solver)
    /\ run = 1 => changed = <<>>
    /\ run = 2 => changed \in Seq(BOOLEAN) /\ Len(changed) = 1 /\ IsLeftover(function)
    /\ run = 3 => ~changed[2]

LEMMA SolvedIsLeast ==
    ASSUME Solving, Accepted, Sparing(solver), run <= 2, Solved
    PROVE  Least(function, solver)
<1>1. IsFunction(function) /\ KnowsWords(solver) /\ OnItsWay(solver)
  BY DEF Solving, Accepted
<1>2. IsSolution(function, solver)
  BY <1>1, WayEndsAtASolution
<1>3. solver.arriving = 0
  BY DEF Solved, Idle
<1>4. PICK K : solver \in Solvers(K)
  BY <1>1 DEF OnItsWay
<1>5. /\ solver.edges \subseteq EdgesOf(function) /\ IsRooted(solver)
      /\ \A e \in solver.edges : e[1] \in solver.executable \cup {solver.arriving}
      /\ \A t : IsSolution(function, t) => IsWithin(solver, t)
  BY DEF Sparing, Grounded
<1>6. ASSUME NEW e \in solver.edges PROVE e[1] \in solver.executable
  <2>1. e \in Edges
    BY <1>4 DEF Solvers
  <2>2. e[1] \in BlockIds(function) /\ 0 \notin BlockIds(function)
    BY <1>1, <2>1, BlockTypes DEF Edges
  <2> QED BY <1>3, <1>5, <2>2
<1> QED BY <1>1, <1>2, <1>3, <1>5, <1>6 DEF Least

LEMMA SparinglyStarts == Init => Sparingly
<1>1. SUFFICES ASSUME Init PROVE Sparingly
  OBVIOUS
<1>2. function \in Functions /\ solver = Fresh /\ run = 1 /\ changed = <<>>
  BY <1>1 DEF Init
<1>3. Sparing(Fresh)
  BY <1>2, FreshIsSparing, SccpAssumption
<1> QED BY <1>2, <1>3 DEF Sparingly

LEMMA SparingAfterwards == (IsFunction(function) => Sparing(Fresh))'
<1>1. IsFunction(function) => Sparing(Fresh)
  BY FreshIsSparing
<1> QED BY <1>1, PTL

LEMMA SameSparing ==
    ASSUME function' = function, Sparing(solver')
    PROVE  Sparing(solver)'
  BY DEF Sparing, Grounded

LEMMA SolvingSparingly ==
    ASSUME Solving, Accepted, Ending, Sparing(solver), run <= 2,
           NextVisit \/ EnterBlock \/ FollowEdge \/ WakeReaders \/ SwitchStack
    PROVE  Sparing(solver')
<1>1. IsFunction(function) /\ OnItsWay(solver) /\ Pushed(solver)
  BY DEF Solving, Accepted, Ending
<1>2. PICK K : solver \in Solvers(K)
  BY <1>1 DEF OnItsWay
<1>3. CASE NextVisit
  <2>1. PICK visit \in solver.agenda :
               solver' = [Visit(solver, visit) EXCEPT !.agenda = @ \ {visit}]
    BY <1>3 DEF NextVisit
  <2> QED BY <1>1, <1>2, <2>1, VisitIsSparing
<1>4. CASE EnterBlock
  <2>1. /\ solver.arriving # 0
        /\ solver' = [solver EXCEPT !.executable = @ \cup {solver.arriving},
                                    !.agenda = VisitsOf(solver.arriving), !.arriving = 0]
    BY <1>4 DEF EnterBlock
  <2> QED BY <1>1, <1>2, <2>1, EnteringIsSparing, Zenon
<1>5. CASE FollowEdge
  <2>1. /\ solver.agenda = {} /\ solver.arriving = 0 /\ solver.flow # <<>>
        /\ solver' = Follow([solver EXCEPT !.flow = Front(@)], Last(solver.flow))
    BY <1>5 DEF FollowEdge, Idle
  <2> QED BY <1>1, <1>2, <2>1, FollowingIsSparing
<1>6. CASE WakeReaders
  <2>1. /\ solver.agenda = {}
        /\ solver' = [solver EXCEPT !.ssa = Front(@),
                                    !.agenda = ReadersOf(solver, Last(solver.ssa))]
    BY <1>6 DEF WakeReaders, Idle
  <2> QED BY <1>1, <1>2, <2>1, WakingIsSparing, Zenon
<1>7. CASE SwitchStack
  BY <1>7 DEF SwitchStack
<1> QED BY <1>3, <1>4, <1>5, <1>6, <1>7

LEMMA SparinglyStep ==
    Solving /\ Accepted /\ Ending /\ Sparingly /\ [Next]_vars => Sparingly'
<1> SUFFICES ASSUME Solving, Accepted, Ending, Sparingly, [Next]_vars PROVE Sparingly'
  OBVIOUS
<1>1. run \in 1 .. 3
  BY DEF Solving
<1>2. ASSUME function' = function, run' = run, changed' = changed, run <= 2 => Sparing(solver')
      PROVE  Sparingly'
  <2>1. run' <= 2 => Sparing(solver)'
    BY <1>2, SameSparing
  <2>2. IsLeftover(function) => IsLeftover(function)'
    BY <1>2
  <2> QED BY <1>2, <2>1, <2>2 DEF Sparingly
<1>3. CASE UNCHANGED vars
  BY <1>2, <1>3 DEF vars, Sparingly
<1>4. CASE run = 3
  BY <1>3, <1>4, EndedStays DEF Ending
<1>5. CASE run <= 2 /\ (NextVisit \/ EnterBlock \/ FollowEdge \/ WakeReaders \/ SwitchStack)
  <2>1. Sparing(solver')
    BY <1>5, SolvingSparingly DEF Sparingly
  <2>2. function' = function /\ run' = run /\ changed' = changed
    BY <1>5 DEF NextVisit, EnterBlock, FollowEdge, WakeReaders, SwitchStack
  <2> QED BY <1>2, <2>1, <2>2
<1>6. CASE run <= 2 /\ Apply
  <2>1. Least(function, solver) /\ IsFunction(function) /\ WellFormed(function)
    BY <1>6, SolvedIsLeast DEF Apply, Accepted, Sparingly
  <2>2. PICK report \in BOOLEAN : report = Reports(function, solver)
    <3>1. Reports(function, solver) \in BOOLEAN
      BY DEF Reports
    <3> QED BY <3>1
  <2>3. changed' = Append(changed, report) /\ run' = run + 1 /\ function' = Applied(function, solver)
    BY <1>6, <2>2 DEF Apply, Begin
  <2>4. CASE run = 1
    <3>1. solver' = Fresh /\ run' = 2
      BY <1>6, <2>3, <2>4 DEF Apply, Begin
    <3>2. IsFunction(function')
      BY <2>1, <2>3, AppliedIsWellFormed DEF Least
    <3>3. Sparing(solver)'
      BY <3>1, <3>2, SparingAfterwards DEF Sparing, Grounded
    <3>4. changed' \in Seq(BOOLEAN) /\ Len(changed') = 1
      BY <2>2, <2>3, <2>4 DEF Sparingly
    <3>5. IsLeftover(function)'
      BY <2>1, <2>3 DEF IsLeftover
    <3> QED BY <3>1, <3>3, <3>4, <3>5 DEF Sparingly
  <2>5. CASE run = 2
    <3>1. run' = 3 /\ changed \in Seq(BOOLEAN) /\ Len(changed) = 1 /\ IsLeftover(function)
      BY <2>3, <2>5 DEF Sparingly
    <3>2. PICK f, s : IsFunction(f) /\ WellFormed(f) /\ Least(f, s) /\ function = Applied(f, s)
      BY <3>1 DEF IsLeftover
    <3>3. IsSolution(function, solver)
      BY <2>1 DEF Least
    <3>4. ~Reports(function, solver)
      BY <3>2, <3>3, NothingIsReported
    <3>5. ~changed'[2]
      <4>1. report = FALSE
        BY <2>2, <3>4
      <4>2. PICK S, reports, last : S = BOOLEAN /\ reports = changed /\ last = report
        OBVIOUS
      <4>3. reports \in Seq(S) /\ Len(reports) = 1 /\ last \in S
        BY <2>2, <3>1, <4>2
      <4>4. Append(reports, last)[2] = last
        BY <4>3, AppendedSecond
      <4>5. changed'[2] = report
        BY <2>3, <4>2, <4>4
      <4> QED BY <4>1, <4>5
    <3> QED BY <3>1, <3>5 DEF Sparingly
  <2> QED BY <1>1, <1>6, <2>4, <2>5
<1>7. run <= 2 \/ run = 3
  BY <1>1
<1> QED BY <1>3, <1>4, <1>5, <1>6, <1>7 DEF Next, Finished

(***************************************************************************)
(* The second run of the pass over the same function finds no constant to  *)
(* read, no branch to fold and no block to delete, and says so.            *)
(***************************************************************************)
THEOREM TheSecondRunChangesNothing == Spec => []SecondRunChangesNothing
<1>1. Solving /\ Sparingly => SecondRunChangesNothing
  <2>1. SUFFICES ASSUME Solving, Sparingly, Len(changed) = 2 PROVE ~changed[2]
    BY DEF SecondRunChangesNothing
  <2>2. run \in 1 .. 3
    BY <2>1 DEF Solving
  <2>3. run = 3
    BY <2>1, <2>2 DEF Sparingly
  <2> QED BY <2>1, <2>3 DEF Sparingly
<1>2. Solving /\ Accepted /\ Ending /\ [Next]_vars => Ending'
  BY EndingStep DEF Accepted
<1> QED BY <1>1, <1>2, SolvingStarts, SolvingStep, AcceptedStarts, AcceptedStep,
           EndingStarts, SparinglyStarts, SparinglyStep, PTL DEF Spec
=============================================================================
