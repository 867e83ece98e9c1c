----------------------------- MODULE LeavingSsa -----------------------------
(***************************************************************************)
(* From SSA form back to three-address code: to_cfg of                     *)
(* middle/ssa/destruct.rs.  PhiCopies has the sequencing of the copies of  *)
(* one edge step by step; here it is one of the things a block's code is   *)
(* made of.                                                                *)
(***************************************************************************)
EXTENDS Promotion

\* A value's home, and what a block is called.
Home(v)         == Temp("v", v[2])
Place(operand)  == IF operand[1] = "value" THEN Home(operand) ELSE operand
BlockLabel(b)   == <<"block", b>>
ExitLabel(f)    == IF f.exit = 0 THEN <<"exit", 0>> ELSE BlockLabel(f.exit)

Labels(f) == {BlockLabel(b) : b \in Ssa!BlockIds(f)} \cup {ExitLabel(f)}

NewCode(f) == [entry |-> BlockLabel(1), exit |-> ExitLabel(f), copies |-> 0,
               blocks |-> [label \in Labels(f) |-> EmptyBlock]]

-----------------------------------------------------------------------------
\* lower_inst.  What only moves a value moves the whole word.
Argument(i, k) == IF k \in DOMAIN i.args THEN Place(i.args[k]) ELSE Nothing

Destination(i) == IF i.dest = Nothing THEN Nothing ELSE Home(i.dest)

\* Mutant: the call stands in front of what it is passed.
CallThenParams(i) ==
    <<[Transfer("call", Label(i.callee), Imm(Len(i.args))) EXCEPT !.dest = Destination(i)]>>
        \o [k \in DOMAIN i.args |-> Transfer("param", Place(i.args[k]), Nothing)]

CallSequence(i) ==
    [k \in DOMAIN i.args |-> Transfer("param", Place(i.args[k]), Nothing)]
        \o <<[Transfer("call", Label(i.callee), Imm(Len(i.args))) EXCEPT !.dest = Destination(i)]>>

LowerInst(i) ==
    LET Moving(op, arg) == <<[Transfer(op, arg, Nothing) EXCEPT !.dest = Destination(i)]>>
        Wide(dest, arg1, arg2) ==
            <<[Instruction(i.op, i.width, dest, arg1, arg2) EXCEPT !.sign = i.sign, !.from = i.from]>>
    IN  CASE i.op = "copy"       -> Moving("mov", Argument(i, 1))
          [] i.op = "param"      -> Moving("get_param", Argument(i, 1))
          [] i.op = "undef"      -> Moving("mov", Imm(0))
          [] i.op = "addr_of"    -> Moving("addr_of", i.slot)
          [] i.op = "call"       -> CallSequence(i)
          [] i.op = "slot_load"  ->
                <<Instruction("mov", i.width, Destination(i), i.slot, Nothing)>>
          [] i.op = "slot_store" ->
                <<Instruction("mov", i.width, i.slot, Argument(i, 1), Nothing)>>
          [] i.op \in {"array_load", "array_addr"} -> Wide(Destination(i), i.slot, Argument(i, 1))
          [] i.op = "array_store" -> Wide(i.slot, Argument(i, 1), Argument(i, 2))
          [] OTHER -> Wide(Destination(i), Argument(i, 1), Argument(i, 2))

-----------------------------------------------------------------------------
(***************************************************************************)
(* The copies along an edge: first those nothing waits for, then a cycle   *)
(* at a time.                                                              *)
(***************************************************************************)
Move(to, from) == [Transfer("mov", from, Nothing) EXCEPT !.dest = to]

EmitReady(s, sourceOf) ==
    LET dest   == Last(s.ready)
        source == sourceOf[dest]
        isValue == source[1] = "value"
        from   == IF isValue THEN s.location[source] ELSE source
        freed  == isValue /\ from = Place(source) /\ source \in s.pending \ {dest}
    IN  [s EXCEPT !.code = Append(@, Move(Home(dest), from)),
                  !.pending = @ \ {dest},
                  !.location = IF isValue THEN [@ EXCEPT ![source] = Home(dest)] ELSE @,
                  !.ready = IF freed THEN Append(Front(@), source) ELSE Front(@)]

Revisit(s) ==
    LET dest == Last(s.toDo)
        temporary == Temp("phi", s.used + 1)
        popped == [s EXCEPT !.toDo = Front(@)]
    IN  IF dest \notin s.pending THEN popped
        ELSE [popped EXCEPT !.used = @ + 1, !.code = Append(@, Move(temporary, Home(dest))),
                            !.location = (dest :> temporary) @@ @, !.ready = Append(@, dest)]

RECURSIVE UntilDone(_, _)
UntilDone(s, sourceOf) ==
    CASE s.ready # <<>> -> UntilDone(EmitReady(s, sourceOf), sourceOf)
      [] s.ready = <<>> /\ s.toDo # <<>> -> UntilDone(Revisit(s), sourceOf)
      [] OTHER -> s

Sequentialize(copies, used) ==
    LET dests    == [k \in DOMAIN copies |-> copies[k].dest]
        sourceOf == [d \in ToSet(dests) |-> copies[SelectInSeq(dests, LAMBDA e : e = d)].source]
        read     == {sourceOf[d] : d \in ToSet(dests)} \cap SsaValues
    IN  UntilDone([ code |-> <<>>, used |-> used, pending |-> ToSet(dests), toDo |-> dests,
                    location |-> [v \in read |-> Home(v)],
                    ready |-> SelectSeq(dests, LAMBDA d : d \notin read) ], sourceOf)

\* lower_outgoing_phis, where a block with phis follows nothing else.
OutgoingPhis(f, b, used) ==
    LET to       == Ssa!Successors(f, b)[1]
        position == SelectInSeq(f.blocks[to].preds, LAMBDA p : p = b)
        copies   == [k \in DOMAIN f.blocks[to].phis |->
                        [dest |-> f.blocks[to].phis[k].dest, source |-> f.blocks[to].phis[k].args[position]]]
    IN  IF Len(Ssa!Successors(f, b)) # 1 THEN [code |-> <<>>, used |-> used]
        ELSE Sequentialize(SelectSeq(copies, LAMBDA c : c.source # c.dest), used)

-----------------------------------------------------------------------------
LowerTerminator(f, b) ==
    LET term == f.blocks[b].term
        JumpTo(k) == Transfer("jump", Label(BlockLabel(term.to[k])), Nothing)
    IN  CASE term.kind = "jump"   -> <<JumpTo(1)>>
          [] term.kind = "branch" ->
                << Instruction("branch_if", term.width, Nothing, Place(term.args[1]),
                               Label(BlockLabel(term.to[1]))), JumpTo(2) >>
          [] term.kind = "return" ->
                << Transfer("ret", IF term.args = <<>> THEN Nothing ELSE Place(term.args[1]), Nothing) >>

LeavesTo(f, b) ==
    IF f.blocks[b].term.kind = "return" THEN <<ExitLabel(f)>>
    ELSE [k \in DOMAIN Ssa!Successors(f, b) |-> BlockLabel(Ssa!Successors(f, b)[k])]

LowerSsaBlock(code, f, b) ==
    LET copies == OutgoingPhis(f, b, code.copies)
        body   == FlattenSeq([k \in DOMAIN f.blocks[b].insts |-> LowerInst(f.blocks[b].insts[k])])
                    \o copies.code \o LowerTerminator(f, b)
        Linked(blocks, to) == Link(blocks, BlockLabel(b), to)
    IN  [code EXCEPT !.copies = copies.used,
                     !.blocks = FoldLeft(Linked, [@ EXCEPT ![BlockLabel(b)].code = body],
                                         LeavesTo(f, b))]
=============================================================================
