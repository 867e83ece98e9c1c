------------------------------ MODULE Semantic ------------------------------
(***************************************************************************)
(* Semantic analysis: frontend/semantic.rs.                                *)
(*                                                                         *)
(* The analyzer is a record; a rule takes a node and an analyzer to a      *)
(* result whose value is a type.  The errors are what is reported, in the  *)
(* order it is.                                                            *)
(***************************************************************************)
EXTENDS Layout

NoneYet == [id \in {} |-> {}]

NewAnalyzer ==
    [ scopes    |-> NewScopes, \* symbols: name to type
      exprs     |-> NoneYet,   \* the type of each checked expression
      decls     |-> NoneYet,   \* of each variable and parameter
      functions |-> NoneYet,   \* signatures
      structs   |-> NoneYet,   \* layouts
      returns   |-> VoidType,  \* current_function
      depth     |-> 0,         \* loop_depth
      errors    |-> <<>> ]

Unit == VoidType \* the value of a rule that has none

Require(condition, what, a) == IF condition THEN Ok(Unit, a) ELSE Fail(what, a)

ConvertsTo(found, expected) ==
    \/ expected = found
    \/ IsInteger(found) /\ (IsInteger(expected) \/ IsPointer(expected))

IsPassable(type) == ~IsAggregate(type)

RECURSIVE IsLvalue(_)
IsLvalue(e) ==
    \/ e.kind \in {"identifier", "index", "arrow"}
    \/ e.kind = "unary" /\ e.name = "deref"
    \/ e.kind = "member" /\ IsLvalue(e.kids[1])

LiteralType(word) ==
    LET Fits(bits) == Literals[word] < 2^(bits - 1)
    IN  CASE word \in CharConstants \/ Fits(4 * ByteBits) -> SignedInt
          [] word \notin CharConstants /\ ~Fits(4 * ByteBits) ->
                LongType(IF Fits(8 * ByteBits) THEN "signed" ELSE "unsigned")

-----------------------------------------------------------------------------
(***************************************************************************)
(* Expressions.                                                            *)
(***************************************************************************)
RECURSIVE AnalyzeExpr(_, _), AnalyzeArgs(_, _, _)

Comparisons == {"==", "!=", "<", "<=", ">", ">="}
Logical     == {"&&", "||"}
Shifts      == {"<<", ">>"}

AnalyzeAssignment(lhs, rhs, a) ==
    IF ~IsLvalue(lhs) THEN Fail("NotAnObject", a)
    ELSE Then(AnalyzeExpr(lhs, a), LAMBDA target :
         Then(AnalyzeExpr(rhs, target.at), LAMBDA value :
         Then(Require(ConvertsTo(value.value, target.value), "TypeError", value.at), LAMBDA checked :
              Ok(target.value, checked.at))))

AnalyzeBinary(op, lhs, rhs, a) ==
    IF op = "=" THEN AnalyzeAssignment(lhs, rhs, a)
    ELSE Then(AnalyzeExpr(lhs, a), LAMBDA left :
         Then(AnalyzeExpr(rhs, left.at), LAMBDA right :
         Then(Require(IsInteger(left.value) /\ IsInteger(right.value), "TypeError", right.at),
              LAMBDA checked :
                Ok(CASE op \in Comparisons \cup Logical -> SignedInt
                     [] op \in Shifts -> Promoted(left.value)
                     [] OTHER -> Common(left.value, right.value), checked.at))))

AnalyzeUnary(op, operand, a) ==
    Then(AnalyzeExpr(operand, a), LAMBDA of :
        LET type == of.value
        IN  CASE op = "addressof" ->
                    IF IsLvalue(operand) THEN Ok(PointerTo(type), of.at) ELSE Fail("NotAnObject", of.at)
              [] op = "deref" ->
                    IF IsPointer(type) THEN Ok(type[2], of.at) ELSE Fail("NotDereferenceable", of.at)
              [] OTHER ->
                    IF ~IsInteger(type) THEN Fail("TypeError", of.at)
                    ELSE Ok(CASE op = "not" -> SignedInt
                              [] op \in {"neg", "bitnot"} -> Promoted(type)
                              [] OTHER -> type, of.at))

AnalyzeIndex(array, index, a) ==
    Then(AnalyzeExpr(array, a), LAMBDA base :
    IF ~IsArray(base.value) THEN Fail("NotIndexable", base.at)
    ELSE Then(AnalyzeExpr(index, base.at), LAMBDA at :
         Then(Require(IsInteger(at.value), "TypeError", at.at), LAMBDA checked :
              Ok(base.value[2], checked.at))))

AnalyzeMemberAccess(base, member, isArrow, a) ==
    Then(AnalyzeExpr(base, a), LAMBDA of :
        LET type   == of.value
            fits   == IF isArrow THEN IsPointer(type) /\ IsStruct(type[2]) ELSE IsStruct(type)
            struct == IF isArrow THEN type[2] ELSE type
        IN  CASE ~fits -> Fail("NotAStruct", of.at)
              [] fits /\ ~IsComplete(of.at.structs, struct) -> Fail("IncompleteType", of.at)
              [] OTHER ->
                    LET layout == of.at.structs[struct[2]]
                    IN  IF MembersNamed(layout, member) = {} THEN Fail("NoSuchMember", of.at)
                        ELSE Ok(MemberOf(layout, member).type, of.at))

AnalyzeArgs(args, params, a) ==
    IF args = <<>> THEN Ok(Unit, a)
    ELSE Then(AnalyzeExpr(Head(args), a), LAMBDA arg :
         Then(Require(ConvertsTo(arg.value, Head(params)), "TypeError", arg.at), LAMBDA checked :
              AnalyzeArgs(Tail(args), Tail(params), checked.at)))

AnalyzeCall(callee, args, a) ==
    CASE callee.kind # "identifier" -> Fail("Unsupported", a)
      [] callee.kind = "identifier" /\ callee.name \notin DOMAIN a.functions ->
            Fail("UndeclaredFunction", a)
      [] OTHER ->
            LET signature == a.functions[callee.name]
            IN  IF Len(args) # Len(signature.params) THEN Fail("ArgumentCountMismatch", a)
                ELSE Then(AnalyzeArgs(args, signature.params, a), LAMBDA checked :
                          Ok(signature.returns, checked.at))

CheckExpr(e, a) ==
    CASE e.kind = "literal"    -> Ok(LiteralType(e.name), a)
      [] e.kind = "identifier" ->
            IF InScope(a.scopes, e.name) THEN Ok(Lookup(a.scopes, e.name), a)
            ELSE Fail("UndeclaredVariable", a)
      [] e.kind = "binary"     -> AnalyzeBinary(e.name, e.kids[1], e.kids[2], a)
      [] e.kind = "unary"      -> AnalyzeUnary(e.name, e.kids[1], a)
      [] e.kind = "cast"       ->
            Then(AnalyzeExpr(e.kids[1], a), LAMBDA operand :
            Then(Require(~IsAggregate(e.type), "TypeError", operand.at), LAMBDA checked :
                 Ok(e.type, checked.at)))
      [] e.kind = "call"       -> AnalyzeCall(e.kids[1], Tail(e.kids), a)
      [] e.kind = "index"      -> AnalyzeIndex(e.kids[1], e.kids[2], a)
      [] e.kind \in {"member", "arrow"} ->
            AnalyzeMemberAccess(e.kids[1], e.name, e.kind = "arrow", a)
      [] e.kind = "sizeof"     -> Fail("Unsupported", a)

AnalyzeExpr(e, a) ==
    Then(CheckExpr(e, a), LAMBDA checked :
         Ok(checked.value, [checked.at EXCEPT !.exprs = (e.id :> checked.value) @@ @]))

AnalyzeCondition(e, a) ==
    Then(AnalyzeExpr(e, a), LAMBDA condition :
         Require(IsInteger(condition.value), "TypeError", condition.at))

-----------------------------------------------------------------------------
(***************************************************************************)
(* Declarations of variables and structs.                                  *)
(***************************************************************************)
RECURSIVE LayOutMembers(_, _, _, _)
LayOutMembers(tag, members, laidOut, a) ==
    IF members = <<>>
    THEN LET defined == [a EXCEPT !.structs = (tag :> LayOut(a.structs, laidOut)) @@ @]
         IN  Require(tag \notin DOMAIN a.structs, "RedeclaredStruct", defined)
    ELSE LET member == Head(members)
         IN  CASE \E earlier \in ToSet(laidOut) : earlier[1] = member.name ->
                    Fail("RedeclaredVariable", a)
               [] HasUnknownSize(member.type) -> Fail("Unsupported", a)
               [] ~HasUnknownSize(member.type) /\ ~IsComplete(a.structs, member.type) ->
                    Fail("IncompleteType", a)
               [] OTHER -> LayOutMembers(tag, Tail(members),
                                         Append(laidOut, <<member.name, member.type>>), a)

AnalyzeStructDecl(decl, a) ==
    CASE decl.type # NoType -> Fail("Unsupported", a)
      [] decl.type = NoType /\ (decl.name = NoName \/ decl.kids = <<NoNode>>) -> Ok(Unit, a)
      [] OTHER -> LayOutMembers(decl.name, decl.kids, <<>>, a)

\* The name is in scope in its own initializer.
AnalyzeVariableDecl(decl, a) ==
    LET type     == decl.type
        init     == decl.kids[1]
        recorded == [a EXCEPT !.decls = (decl.id :> type) @@ @]
        declared == [recorded EXCEPT !.scopes = Declare(@, decl.name, type)]
    IN  CASE decl.kind = "extern" \/ HasUnknownSize(type) -> Fail("Unsupported", a)
          [] type = VoidType -> Fail("TypeError", a)
          [] ~IsComplete(a.structs, type) -> Fail("IncompleteType", a)
          [] LookupLocal(a.scopes, decl.name) -> Fail("RedeclaredVariable", recorded)
          [] init = NoNode -> Ok(Unit, declared)
          [] IsArray(type) -> Fail("Unsupported", declared)
          [] OTHER -> Then(AnalyzeExpr(init, declared), LAMBDA value :
                           Require(ConvertsTo(value.value, type), "TypeError", value.at))

-----------------------------------------------------------------------------
(***************************************************************************)
(* Statements.                                                             *)
(***************************************************************************)
RECURSIVE AnalyzeStmt(_, _), AnalyzeBlockItems(_, _)

\* Both are undone when the analysis fails as well.
InLoop(Analysis(_), a) ==
    LET result == Analysis([a EXCEPT !.depth = @ + 1])
    IN  [result EXCEPT !.at.depth = a.depth]

InNewScope(Analysis(_), a) ==
    LET result == Analysis([a EXCEPT !.scopes = PushScope(@)])
    IN  [result EXCEPT !.at.scopes = PopScope(@)]

\* An error is reported, and the analysis goes on behind it.
Reported(result) ==
    IF result.is = "ok" THEN result.at ELSE [result.at EXCEPT !.errors = @ \o result.value]

AnalyzeItem(item, a) ==
    CASE item.kind \in {"variable", "extern"} -> AnalyzeVariableDecl(item, a)
      [] item.kind = "struct" -> AnalyzeStructDecl(item, a)
      [] OTHER -> AnalyzeStmt(item, a)

AnalyzeBlockItems(items, a) ==
    IF items = <<>> THEN Ok(Unit, a)
    ELSE AnalyzeBlockItems(Tail(items), Reported(AnalyzeItem(Head(items), a)))

Optionally(Analysis(_, _), node, a) == IF node = NoNode THEN Ok(Unit, a) ELSE Analysis(node, a)

\* The block around a declaration gets no scope of its own.
AnalyzeForInit(init, a) ==
    IF init.kind = "block" THEN AnalyzeBlockItems(init.kids, a) ELSE AnalyzeStmt(init, a)

AnalyzeFor(stmt, a) ==
    Then(Optionally(AnalyzeForInit, stmt.kids[1], a), LAMBDA init :
    Then(Optionally(AnalyzeCondition, stmt.kids[2], init.at), LAMBDA condition :
    Then(Optionally(AnalyzeExpr, stmt.kids[3], condition.at), LAMBDA step :
         InLoop(LAMBDA inside : AnalyzeStmt(stmt.kids[4], inside), step.at))))

AnalyzeReturn(value, a) ==
    Then(Optionally(AnalyzeExpr, value, a), LAMBDA found :
         Require(ConvertsTo(found.value, a.returns), "TypeError", found.at))

AnalyzeStmt(stmt, a) ==
    CASE stmt.kind = "empty"  -> Ok(Unit, a)
      [] stmt.kind = "expr"   -> AnalyzeExpr(stmt.kids[1], a)
      [] stmt.kind = "return" -> AnalyzeReturn(stmt.kids[1], a)
      [] stmt.kind = "if"     ->
            Then(AnalyzeCondition(stmt.kids[1], a), LAMBDA condition :
            Then(AnalyzeStmt(stmt.kids[2], condition.at), LAMBDA yes :
                 Optionally(AnalyzeStmt, stmt.kids[3], yes.at)))
      [] stmt.kind = "while"  ->
            Then(AnalyzeCondition(stmt.kids[1], a), LAMBDA condition :
                 InLoop(LAMBDA inside : AnalyzeStmt(stmt.kids[2], inside), condition.at))
      [] stmt.kind = "for"    -> InNewScope(LAMBDA inside : AnalyzeFor(stmt, inside), a)
      [] stmt.kind \in {"break", "continue"} -> Require(a.depth > 0, "JumpOutsideLoop", a)
      [] stmt.kind = "block"  ->
            InNewScope(LAMBDA inside : AnalyzeBlockItems(stmt.kids, inside), a)

-----------------------------------------------------------------------------
(***************************************************************************)
(* Functions.                                                              *)
(***************************************************************************)
Parameters(function)   == Front(function.kids)
BodyOf(function)       == Last(function.kids)
IsDefinition(function) == function.kind = "function" /\ BodyOf(function) # NoNode

ParamName(param) == IF param.name = NoName THEN "_" ELSE param.name

\* A parameter that cannot be declared leaves the scope of the function open.
RECURSIVE DeclareParams(_, _)
DeclareParams(params, a) ==
    IF params = <<>> THEN Ok(Unit, a)
    ELSE LET param == Head(params)
         IN  CASE HasUnknownSize(param.type) -> Fail("Unsupported", a)
               [] LookupLocal(a.scopes, ParamName(param)) -> Fail("RedeclaredVariable", a)
               [] OTHER -> DeclareParams(Tail(params),
                                [a EXCEPT !.scopes = Declare(@, ParamName(param), param.type)])

AnalyzeFunctionDecl(decl, a) ==
    CASE HasUnknownSize(decl.type) -> Fail("Unsupported", a)
      [] ~HasUnknownSize(decl.type) /\ ~IsDefinition(decl) -> Ok(Unit, a)
      [] OTHER ->
            Then(DeclareParams(Parameters(decl), [a EXCEPT !.scopes = PushScope(@)]), LAMBDA inside :
                LET result == AnalyzeStmt(BodyOf(decl), [inside.at EXCEPT !.returns = decl.type])
                IN  [result EXCEPT !.at.returns = a.returns, !.at.scopes = PopScope(@)])

AnalyzeDecl(decl, a) ==
    CASE decl.kind \in {"variable", "extern"} -> AnalyzeVariableDecl(decl, a)
      [] decl.kind = "function" -> AnalyzeFunctionDecl(decl, a)
      [] decl.kind = "struct"   -> AnalyzeStructDecl(decl, a)

\* One turn of the loop of analyze_program.
AnalyzeNext(decl, a) == Reported(AnalyzeDecl(decl, a))

-----------------------------------------------------------------------------
(***************************************************************************)
(* Every signature is recorded before any body is checked; the first error *)
(* ends that.                                                              *)
(***************************************************************************)
RECURSIVE ParamSignatures(_, _)
ParamSignatures(params, a) ==
    IF params = <<>> THEN Ok(Unit, a)
    ELSE LET param == Head(params)
         IN  IF HasUnknownSize(param.type) \/ ~IsPassable(param.type) THEN Fail("Unsupported", a)
             ELSE ParamSignatures(Tail(params), [a EXCEPT !.decls = (param.id :> param.type) @@ @])

RECURSIVE RegisterFunctions(_, _, _)
RegisterFunctions(functions, defined, a) ==
    IF functions = <<>> THEN Ok(Unit, a)
    ELSE LET function  == Head(functions)
             name      == function.name
             signature == [ returns |-> function.type,
                            params  |-> [k \in DOMAIN Parameters(function) |-> Parameters(function)[k].type] ]
             second    == IsDefinition(function) /\ name \in defined
             known     == name \in DOMAIN a.functions
         IN  IF HasUnknownSize(function.type) \/ ~IsPassable(function.type) THEN Fail("Unsupported", a)
             ELSE Then(ParamSignatures(Parameters(function), a), LAMBDA passed :
                CASE second -> Fail("RedeclaredFunction", passed.at)
                  [] ~second /\ known /\ a.functions[name] # signature ->
                        Fail("ConflictingDeclaration", passed.at)
                  [] OTHER ->
                        RegisterFunctions(Tail(functions),
                            IF IsDefinition(function) THEN defined \cup {name} ELSE defined,
                            IF known THEN passed.at
                            ELSE [passed.at EXCEPT !.functions = (name :> signature) @@ @]))

FunctionsOf(decls) == SelectSeq(decls, LAMBDA decl : decl.kind = "function")

RegisterFunctionSignatures(decls, a) ==
    Reported(RegisterFunctions(FunctionsOf(decls), {}, a))

=============================================================================
