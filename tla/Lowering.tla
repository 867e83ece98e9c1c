------------------------------ MODULE Lowering ------------------------------
(***************************************************************************)
(* Lowering of the tree to three-address code: middle/desuger.rs.          *)
(*                                                                         *)
(* The context is a record; a rule takes a node and a context to a result  *)
(* whose value is an operand, or a place.  What the code panics on is an   *)
(* error, and ends the compiler.  types is the analyzer that accepted the  *)
(* program, vars the renamer.                                              *)
(***************************************************************************)
EXTENDS Layout, ThreeAddress

Lowered(l) == Ok(Nothing, l)
Panic(l)   == Fail("panic", l)

NewContext(types, vars) ==
    [ types |-> types, vars |-> vars,
      blocks |-> <<>>, current |-> <<>>, return |-> Word,
      temps |-> 0, labels |-> 0, loops |-> <<>>,
      objects   |-> [v \in {} |-> 0],   \* object_sizes
      functions |-> [f \in {} |-> 0] ]

\* A struct has no width.
NoWidth == 0
WidthOf(type) == CASE IsInteger(type) -> IntegerSizes[type[1]]
                   [] IsStruct(type)  -> NoWidth
                   [] OTHER           -> Word

SignOf(type) == IF IsInteger(type) THEN type[2] ELSE "unsigned"

TypeOf(e, l)      == l.types.exprs[e.id]
ExprWidth(e, l)   == WidthOf(TypeOf(e, l))
SizeOfType(t, l)  == SizeOf(l.types.structs, t)

-----------------------------------------------------------------------------
(***************************************************************************)
(* Code and blocks.                                                        *)
(***************************************************************************)
Emit(i, l) ==
    IF i.width = NoWidth THEN Panic(l)
    ELSE Ok(i.dest, [l EXCEPT !.blocks[l.current].code = Append(@, i)])

\* The instruction with a fresh temporary for its destination.
EmitFresh(i, l) ==
    Emit([i EXCEPT !.dest = Temp("t", l.temps + 1)], [l EXCEPT !.temps = @ + 1])

EmitBinary(op, sign, width, lhs, rhs, l) ==
    EmitFresh([Instruction(op, width, Nothing, lhs, rhs) EXCEPT !.sign = sign], l)

CreateBlock(prefix, l) ==
    LET label == <<prefix, l.labels + 1>>
    IN  Ok(label, [l EXCEPT !.labels = @ + 1, !.blocks = (label :> EmptyBlock) @@ @])

In(label, l) == [l EXCEPT !.current = label]

JumpTo(label, l) ==
    Then(Emit(Transfer("jump", Label(label), Nothing), l), LAMBDA jump :
         Lowered([jump.at EXCEPT !.blocks = Link(@, l.current, label)]))

BranchTo(op, width, condition, label, l) ==
    Then(Emit(Instruction(op, width, Nothing, condition, Label(label)), l), LAMBDA branch :
         Lowered([branch.at EXCEPT !.blocks = Link(@, l.current, label)]))

OpenUnreachableBlock(l) ==
    Then(CreateBlock("unreachable", l), LAMBDA block : Lowered(In(block.value, block.at)))

-----------------------------------------------------------------------------
(***************************************************************************)
(* Conversions.                                                            *)
(***************************************************************************)
\* Mutant: every value widens by its sign.
ConvertSigned(value, from, sign, to, l) ==
    CASE from = NoWidth -> Panic(l)
      [] from = to      -> Ok(value, l)
      [] from \notin {NoWidth, to} /\ value[1] = "imm" ->
            Ok(Imm(Narrow(to, ReadAs(from, "signed", value[2]))), l)
      [] OTHER -> EmitFresh([Instruction("convert", to, Nothing, value, Nothing)
                                EXCEPT !.from = from], l)

Convert(value, from, sign, to, l) ==
    CASE from = NoWidth -> Panic(l)
      [] from = to      -> Ok(value, l)
      [] from \notin {NoWidth, to} /\ value[1] = "imm" ->
            Ok(Imm(Narrow(to, ReadAs(from, sign, value[2]))), l)
      [] OTHER -> EmitFresh([Instruction("convert", to, Nothing, value, Nothing)
                                EXCEPT !.from = from, !.sign = sign], l)

RECURSIVE LowerExpr(_, _), PlaceOf(_, _)

LowerConverted(e, to, l) ==
    IF ExprWidth(e, l) = NoWidth THEN Panic(l)
    ELSE Then(LowerExpr(e, l), LAMBDA value :
              Convert(value.value, ExprWidth(e, l), SignOf(TypeOf(e, l)), to, value.at))

LowerIndex(index, l) == LowerConverted(index, Word, l)

-----------------------------------------------------------------------------
(***************************************************************************)
(* Objects and their addresses.  A place is an operand and the bytes past  *)
(* it: past the storage of a variable, or past the address in a value.     *)
(***************************************************************************)
Object(v)       == [of |-> Var(v), named |-> TRUE, offset |-> 0]
Pointee(base)   == [of |-> base, named |-> FALSE, offset |-> 0]
OffsetBy(p, by) == [p EXCEPT !.offset = @ + by]

AddressOf(place, l) ==
    CASE place.named ->
            EmitFresh(Instruction("array_addr", 1, Nothing, place.of, Imm(place.offset)), l)
      [] ~place.named /\ place.offset = 0 -> Ok(place.of, l)
      [] OTHER -> EmitBinary("+", "signed", Word, place.of, Imm(place.offset), l)

LoadFrom(place, width, l) ==
    Then(AddressOf(place, l), LAMBDA address :
         EmitFresh(Instruction("load", width, Nothing, address.value, Nothing), address.at))

StoreInto(place, value, width, l) ==
    Then(AddressOf(place, l), LAMBDA address :
         Emit(Instruction("store", width, Nothing, address.value, value), address.at))

WidestChunk(remaining) == CASE remaining < 4 -> 1
                            [] remaining \in 4..7 -> 4
                            [] OTHER -> Word

RECURSIVE CopyChunks(_, _, _, _, _)
CopyChunks(to, from, copied, bytes, l) ==
    IF copied >= bytes THEN Lowered(l)
    ELSE LET width == WidestChunk(bytes - copied)
         IN  Then(LoadFrom(OffsetBy(from, copied), width, l), LAMBDA value :
             Then(StoreInto(OffsetBy(to, copied), value.value, width, value.at), LAMBDA stored :
                  CopyChunks(to, from, copied + width, bytes, stored.at)))

LowerObjectCopy(to, source, bytes, l) ==
    Then(PlaceOf(source, l), LAMBDA from : CopyChunks(to, from.value, 0, bytes, from.at))

MemberOffset(base, member, isArrow, l) ==
    LET type == IF isArrow THEN TypeOf(base, l)[2] ELSE TypeOf(base, l)
    IN  MemberOf(l.types.structs[type[2]], member).offset

IsDirectElement(e, l) ==
    /\ e.kind = "index"
    /\ e.kids[1].kind = "identifier"
    /\ ~IsAggregate(TypeOf(e, l))

VariableOf(e, l) == l.vars.exprToVar[e.id]

\* A constant index folds into the offset.
IndexPlace(array, index, l) ==
    LET size == SizeOfType(TypeOf(array, l)[2], l)
        Scaled(counted, at) ==
            IF size = 1 THEN Ok(counted, at)
            ELSE EmitBinary("*", "signed", Word, counted, Imm(size), at)
    IN  Then(PlaceOf(array, l), LAMBDA base :
        IF index.kind = "literal" /\ index.name \notin CharConstants
        THEN Ok(OffsetBy(base.value, Literals[index.name] * size), base.at)
        ELSE Then(LowerIndex(index, base.at), LAMBDA counted :
             Then(Scaled(counted.value, counted.at), LAMBDA scaled :
             Then(AddressOf(base.value, scaled.at), LAMBDA address :
             Then(EmitBinary("+", "signed", Word, address.value, scaled.value, address.at), LAMBDA sum :
                  Ok(Pointee(sum.value), sum.at))))))

PlaceOf(e, l) ==
    LET Behind(pointer) ==
            Then(LowerExpr(pointer, l), LAMBDA base : Ok(Pointee(base.value), base.at))
        Offset(isArrow) == MemberOffset(e.kids[1], e.name, isArrow, l)
    IN  CASE e.kind = "identifier" ->
                IF IsAggregate(TypeOf(e, l)) THEN Ok(Object(VariableOf(e, l)), l)
                ELSE Then(EmitFresh(Instruction("addr_of", Word, Nothing, Var(VariableOf(e, l)),
                                                Nothing), l), LAMBDA address :
                          Ok(Pointee(address.value), address.at))
          [] e.kind = "unary" /\ e.name = "deref" -> Behind(e.kids[1])
          [] e.kind = "arrow" ->
                Then(Behind(e.kids[1]), LAMBDA base : Ok(OffsetBy(base.value, Offset(TRUE)), base.at))
          [] e.kind = "member" ->
                Then(PlaceOf(e.kids[1], l), LAMBDA base :
                     Ok(OffsetBy(base.value, Offset(FALSE)), base.at))
          [] e.kind = "index" -> IndexPlace(e.kids[1], e.kids[2], l)
          [] e.kind = "binary" /\ e.name = "=" /\ IsStruct(TypeOf(e, l)) -> Behind(e)
          [] OTHER -> Panic(l)

-----------------------------------------------------------------------------
(***************************************************************************)
(* Expressions.                                                            *)
(***************************************************************************)
StructAssignment(lhs, rhs, l) ==
    Then(PlaceOf(lhs, l), LAMBDA to :
    Then(LowerObjectCopy(to.value, rhs, SizeOfType(TypeOf(lhs, l), l), to.at), LAMBDA copied :
         AddressOf(to.value, copied.at)))

\* The value is lowered before the object it goes to; it is the result, except
\* that of a variable is the variable.
ScalarAssignment(lhs, rhs, l) ==
    LET width == ExprWidth(lhs, l)
        Write(value, at) ==
            CASE lhs.kind = "unary" ->
                    Then(LowerExpr(lhs.kids[1], at), LAMBDA address :
                         Emit(Instruction("store", width, Nothing, address.value, value), address.at))
              [] IsDirectElement(lhs, l) ->
                    Then(LowerIndex(lhs.kids[2], at), LAMBDA index :
                         Emit(Instruction("array_store", width, Var(VariableOf(lhs.kids[1], l)),
                                          index.value, value), index.at))
              [] lhs.kind \in {"member", "arrow", "index"} /\ ~IsDirectElement(lhs, l) ->
                    Then(PlaceOf(lhs, at), LAMBDA place : StoreInto(place.value, value, width, place.at))
              [] lhs.kind = "identifier" ->
                    Emit(Instruction("mov", width, Var(VariableOf(lhs, l)), value, Nothing), at)
    IN  Then(LowerConverted(rhs, width, l), LAMBDA value :
        Then(Write(value.value, value.at), LAMBDA written :
             Ok(IF lhs.kind = "identifier" THEN Var(VariableOf(lhs, l)) ELSE value.value, written.at)))

AnswersZeroOrOne(e) ==
    \/ e.kind = "binary" /\ (IsRelational(e.name) \/ e.name \in {"&&", "||"})
    \/ e.kind = "unary" /\ e.name = "not"

LowerShortCircuit(op, lhs, rhs, l) ==
    LET settles == IF op = "&&" THEN "branch_if_not" ELSE "branch_if"
        settled == IF op = "&&" THEN 0 ELSE 1
        Answer(result, right) ==
            IF AnswersZeroOrOne(rhs) THEN Instruction("mov", 4, result, right, Nothing)
            ELSE Instruction("!=", ExprWidth(rhs, l), result, right, Imm(0))
    IN  Then(CreateBlock("rhs", l), LAMBDA more :
        Then(CreateBlock("end", more.at), LAMBDA end :
        Then(LowerExpr(lhs, end.at), LAMBDA left :
        Then(EmitFresh(Instruction("mov", 4, Nothing, Imm(settled), Nothing), left.at), LAMBDA result :
        Then(BranchTo(settles, ExprWidth(lhs, l), left.value, end.value, result.at), LAMBDA branch :
        Then(JumpTo(more.value, branch.at), LAMBDA jump :
        Then(LowerExpr(rhs, In(more.value, jump.at)), LAMBDA right :
        Then(Emit(Answer(result.value, right.value), right.at), LAMBDA answer :
        Then(JumpTo(end.value, answer.at), LAMBDA done :
             Ok(result.value, In(end.value, done.at)))))))))))

\* `%' has no opcode.
LowerBinary(e, l) ==
    LET lhs  == e.kids[1]
        rhs  == e.kids[2]
        type == IF e.name \in {"<<", ">>"} THEN TypeOf(e, l)
                ELSE Common(TypeOf(lhs, l), TypeOf(rhs, l))
    IN  Then(LowerConverted(lhs, WidthOf(type), l), LAMBDA left :
        Then(LowerConverted(rhs, WidthOf(type), left.at), LAMBDA right :
             IF e.name = "%" THEN Panic(right.at)
             ELSE EmitBinary(e.name, SignOf(type), WidthOf(type), left.value, right.value, right.at)))

RECURSIVE LowerArgs(_, _, _, _)
LowerArgs(args, params, operands, l) ==
    IF args = <<>> THEN Ok(operands, l)
    ELSE Then(LowerConverted(Head(args), WidthOf(Head(params)), l), LAMBDA arg :
              LowerArgs(Tail(args), Tail(params), Append(operands, arg.value), arg.at))

\* The arguments are all lowered before the first is passed.
LowerCall(callee, args, l) ==
    LET signature == l.types.functions[callee.name]
        Pass(result, k) ==
            Then(result, LAMBDA so :
                 Then(Emit(Instruction("param", WidthOf(signature.params[k]), Nothing,
                                       so.value[k], Nothing), so.at), LAMBDA passed :
                      Ok(so.value, passed.at)))
    IN  Then(FoldLeftDomain(Pass, LowerArgs(args, signature.params, <<>>, l), args), LAMBDA passed :
             EmitFresh(Instruction("call", WidthOf(signature.returns), Nothing,
                                   Label(callee.name), Imm(Len(args))), passed.at))

\* The address of an element, and what `&*p' leaves out.
LowerAddressOf(inner, l) ==
    CASE IsDirectElement(inner, l) ->
            Then(LowerIndex(inner.kids[2], l), LAMBDA index :
                 EmitFresh(Instruction("array_addr", ExprWidth(inner, l), Nothing,
                                       Var(VariableOf(inner.kids[1], l)), index.value), index.at))
      [] inner.kind = "unary" -> LowerExpr(inner.kids[1], l)
      [] OTHER -> Then(PlaceOf(inner, l), LAMBDA place : AddressOf(place.value, place.at))

\* Negation, complement, logical not and dereference; `++' and `--' panic.
LowerUnary(e, l) ==
    LET inner == e.kids[1]
        width == ExprWidth(e, l)
    IN  CASE e.name = "neg" ->
                Then(LowerConverted(inner, width, l), LAMBDA operand :
                     EmitBinary("-", "signed", width, Imm(0), operand.value, operand.at))
          [] e.name = "bitnot" ->
                Then(LowerConverted(inner, width, l), LAMBDA operand :
                     EmitBinary("^", "signed", width, operand.value, Imm(-1), operand.at))
          [] e.name = "not" ->
                Then(LowerExpr(inner, l), LAMBDA operand :
                     EmitBinary("==", "signed", ExprWidth(inner, l), operand.value, Imm(0), operand.at))
          [] e.name = "deref" ->
                Then(LowerExpr(inner, l), LAMBDA pointer :
                     EmitFresh(Instruction("load", width, Nothing, pointer.value, Nothing), pointer.at))
          [] e.name = "addressof" -> LowerAddressOf(inner, l)
          [] OTHER -> Panic(l)

LiteralOperand(word) ==
    Imm(IF word \in CharConstants THEN Narrow(1, Literals[word]) ELSE Narrow(Word, Literals[word]))

LowerExpr(e, l) ==
    CASE e.kind = "literal"    -> Ok(LiteralOperand(e.name), l)
      [] e.kind = "identifier" -> Ok(Var(VariableOf(e, l)), l)
      [] e.kind = "binary" /\ e.name = "=" ->
            IF IsStruct(TypeOf(e.kids[1], l)) THEN StructAssignment(e.kids[1], e.kids[2], l)
            ELSE ScalarAssignment(e.kids[1], e.kids[2], l)
      [] e.kind = "binary" /\ e.name \in {"&&", "||"} ->
            LowerShortCircuit(e.name, e.kids[1], e.kids[2], l)
      [] e.kind = "binary" /\ e.name \notin {"=", "&&", "||"} -> LowerBinary(e, l)
      [] e.kind = "call"  -> LowerCall(e.kids[1], Tail(e.kids), l)
      [] e.kind = "index" /\ IsDirectElement(e, l) ->
            Then(LowerIndex(e.kids[2], l), LAMBDA index :
                 EmitFresh(Instruction("array_load", ExprWidth(e, l), Nothing,
                                       Var(VariableOf(e.kids[1], l)), index.value), index.at))
      [] e.kind \in {"member", "arrow", "index"} /\ ~IsDirectElement(e, l) ->
            Then(PlaceOf(e, l), LAMBDA place : LoadFrom(place.value, ExprWidth(e, l), place.at))
      [] e.kind = "unary" -> LowerUnary(e, l)
      [] e.kind = "cast"  -> LowerConverted(e.kids[1], ExprWidth(e, l), l)

-----------------------------------------------------------------------------
(***************************************************************************)
(* Statements.                                                             *)
(***************************************************************************)
RECURSIVE LowerStmt(_, _)

LowerOptional(Lower(_, _), node, l) == IF node = NoNode THEN Lowered(l) ELSE Lower(node, l)

LowerDeclaration(decl, l) ==
    LET v    == l.vars.declToVar[decl.id]
        type == l.types.decls[decl.id]
        init == decl.kids[1]
        sized == [l EXCEPT !.objects = (v :> SizeOfType(type, l)) @@ @]
    IN  CASE decl.kind # "variable" -> Lowered(l)
          [] decl.kind = "variable" /\ IsAggregate(type) ->
                IF init = NoNode THEN Lowered(sized)
                ELSE LowerObjectCopy(Object(v), init, SizeOfType(type, l), sized)
          [] decl.kind = "variable" /\ ~IsAggregate(type) /\ init = NoNode -> Lowered(l)
          [] OTHER ->
                Then(LowerConverted(init, WidthOf(type), l), LAMBDA value :
                     Emit(Instruction("mov", WidthOf(type), Var(v), value.value, Nothing), value.at))

LowerBlock(items, l) ==
    FoldLeft(LAMBDA result, item :
                Then(result, LAMBDA so :
                     IF item.kind \in {"variable", "struct"} THEN LowerDeclaration(item, so.at)
                     ELSE LowerStmt(item, so.at)),
             Lowered(l), items)

LowerIf(condition, yes, no, l) ==
    Then(CreateBlock("then", l), LAMBDA then :
    Then(CreateBlock("else", then.at), LAMBDA else :
    Then(CreateBlock("end", else.at), LAMBDA end :
    Then(LowerExpr(condition, end.at), LAMBDA test :
    Then(BranchTo("branch_if_not", ExprWidth(condition, l), test.value, else.value, test.at), LAMBDA branch :
    Then(JumpTo(then.value, branch.at), LAMBDA jump :
    Then(LowerStmt(yes, In(then.value, jump.at)), LAMBDA thenDone :
    Then(JumpTo(end.value, thenDone.at), LAMBDA joined :
    Then(LowerOptional(LowerStmt, no, In(else.value, joined.at)), LAMBDA elseDone :
    Then(JumpTo(end.value, elseDone.at), LAMBDA done :
         Lowered(In(end.value, done.at))))))))))))

\* lower_loop_body: continue goes to next, break to after.
LowerLoopBody(body, next, after, l) ==
    Then(LowerStmt(body, [l EXCEPT !.loops = Append(@, [next |-> next, after |-> after])]),
         LAMBDA done : Lowered([done.at EXCEPT !.loops = Front(@)]))

LowerWhile(condition, body, l) ==
    Then(CreateBlock("cond", l), LAMBDA cond :
    Then(CreateBlock("body", cond.at), LAMBDA into :
    Then(CreateBlock("end", into.at), LAMBDA end :
    Then(JumpTo(cond.value, end.at), LAMBDA enter :
    Then(LowerExpr(condition, In(cond.value, enter.at)), LAMBDA test :
    Then(BranchTo("branch_if_not", ExprWidth(condition, l), test.value, end.value, test.at), LAMBDA branch :
    Then(JumpTo(into.value, branch.at), LAMBDA jump :
    Then(LowerLoopBody(body, cond.value, end.value, In(into.value, jump.at)), LAMBDA once :
    Then(JumpTo(cond.value, once.at), LAMBDA again :
         Lowered(In(end.value, again.at)))))))))))

ForCondition(condition, end, l) ==
    IF condition = NoNode THEN Lowered(l)
    ELSE Then(LowerExpr(condition, l), LAMBDA test :
              BranchTo("branch_if_not", ExprWidth(condition, l), test.value, end, test.at))

LowerFor(init, condition, step, body, l) ==
    Then(CreateBlock("cond", l), LAMBDA cond :
    Then(CreateBlock("body", cond.at), LAMBDA into :
    Then(CreateBlock("step", into.at), LAMBDA stepping :
    Then(CreateBlock("end", stepping.at), LAMBDA end :
    Then(LowerOptional(LowerStmt, init, end.at), LAMBDA ready :
    Then(JumpTo(cond.value, ready.at), LAMBDA enter :
    Then(ForCondition(condition, end.value, In(cond.value, enter.at)), LAMBDA test :
    Then(JumpTo(into.value, test.at), LAMBDA jump :
    Then(LowerLoopBody(body, stepping.value, end.value, In(into.value, jump.at)), LAMBDA once :
    Then(JumpTo(stepping.value, once.at), LAMBDA stepped :
    Then(LowerOptional(LowerExpr, step, In(stepping.value, stepped.at)), LAMBDA advanced :
    Then(JumpTo(cond.value, advanced.at), LAMBDA again :
         Lowered(In(end.value, again.at))))))))))))))

\* `ret' is not a jump: the edge is recorded apart.
LowerReturn(value, l) ==
    Then(IF value = NoNode THEN Lowered(l) ELSE LowerConverted(value, l.return, l), LAMBDA result :
    Then(Emit(Instruction("ret", l.return, Nothing, result.value, Nothing), result.at), LAMBDA ret :
         OpenUnreachableBlock([ret.at EXCEPT !.blocks = Link(@, ret.at.current, <<"exit", 0>>)])))

LowerLoopJump(label, l) ==
    Then(JumpTo(label, l), LAMBDA jump : OpenUnreachableBlock(jump.at))

LowerStmt(stmt, l) ==
    LET kids == stmt.kids
    IN  CASE stmt.kind = "empty"    -> Lowered(l)
          [] stmt.kind = "expr"     -> LowerExpr(kids[1], l)
          [] stmt.kind = "if"       -> LowerIf(kids[1], kids[2], kids[3], l)
          [] stmt.kind = "while"    -> LowerWhile(kids[1], kids[2], l)
          [] stmt.kind = "for"      -> LowerFor(kids[1], kids[2], kids[3], kids[4], l)
          [] stmt.kind = "block"    -> LowerBlock(kids, l)
          [] stmt.kind = "return"   -> LowerReturn(kids[1], l)
          [] stmt.kind = "break"    -> LowerLoopJump(Last(l.loops).after, l)
          [] stmt.kind = "continue" -> LowerLoopJump(Last(l.loops).next, l)

-----------------------------------------------------------------------------
(***************************************************************************)
(* Functions.                                                              *)
(***************************************************************************)
Entry == <<"entry", 0>>
Exit  == <<"exit", 0>>

BindParameters(params, l) ==
    FoldLeftDomain(LAMBDA result, k :
        Then(result, LAMBDA so :
             Emit(Instruction("get_param", WidthOf(l.types.decls[params[k].id]),
                              Var(l.vars.declToVar[params[k].id]), Imm(k - 1), Nothing), so.at)),
        Lowered(l), params)

LowerFunction(decl, l) ==
    LET params == Front(decl.kids)
        opened == [l EXCEPT !.blocks  = (Entry :> EmptyBlock) @@ (Exit :> EmptyBlock),
                            !.current = Entry,
                            !.return  = WidthOf(l.types.functions[decl.name].returns)]
    IN  Then(BindParameters(params, opened), LAMBDA bound :
        Then(LowerStmt(Last(decl.kids), bound.at), LAMBDA body :
        Then(JumpTo(Exit, body.at), LAMBDA done :
             Lowered([done.at EXCEPT !.functions =
                        (decl.name :> [entry |-> Entry, exit |-> Exit, blocks |-> done.at.blocks]) @@ @]))))

\* One turn of the loop of lower_program: a parameter without a variable and a
\* global variable panic.
LowerDecl(decl, l) ==
    CASE decl.kind = "function" /\ Last(decl.kids) # NoNode ->
            IF \E k \in 1..(Len(decl.kids) - 1) : decl.kids[k].id \notin DOMAIN l.vars.declToVar
            THEN Panic(l) ELSE LowerFunction(decl, l)
      [] decl.kind \in {"variable", "extern"} -> Panic(l)
      [] OTHER -> Lowered(l)

=============================================================================
