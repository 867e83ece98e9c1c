------------------------------- MODULE Parser -------------------------------
(***************************************************************************)
(* The recursive descent parser: frontend/parser.rs.                       *)
(*                                                                         *)
(* The cursor is a record: the tokens, the position, the next node id and  *)
(* the set of positions errors were reported at.  A rule is an operator from a    *)
(* cursor to a result: "ok" with a node and the cursor behind it, "error"  *)
(* with the cursor at the token that is blamed, or "diverges".  The last   *)
(* is how a loop of a rule that has no end shows up: the loop of           *)
(* parse_block reads nothing but the cursor, so if an item fails and       *)
(* recovery leaves the cursor where the item began, it does so for ever.   *)
(* The loop over the declarations of a file is the state machine below.    *)
(***************************************************************************)
EXTENDS Syntax

CONSTANT Programs \* the token sequences that are parsed

ASSUME ParserAssumption ==
    /\ Identifiers \cap (Keywords \cup DOMAIN Literals) = {}
    /\ \A program \in Programs : program # <<>>

VARIABLES
    parser, \* the cursor between two declarations
    decls,  \* the declarations that parsed
    turn    \* the parity of the turns of the loop, so that every turn is a step

At(tokens, pos, next, errors) ==
    [tokens |-> tokens, pos |-> pos, next |-> next, errors |-> errors]

Error(p) == Fail("syntax", p)

-----------------------------------------------------------------------------
(***************************************************************************)
(* The token stream.  Behind its end there is nothing but Eof.             *)
(***************************************************************************)
PeekKind(p, n) ==
    IF p.pos + n <= Len(p.tokens) THEN KindOf(p.tokens[p.pos + n]) ELSE "Eof"

Current(p)     == PeekKind(p, 0)
Check(p, kind) == Current(p) = kind
Advance(p)     == IF p.pos <= Len(p.tokens) THEN [p EXCEPT !.pos = @ + 1] ELSE p
Spelling(p)        == p.tokens[p.pos]

\* prev: at the first token it is that token.
Previous(p) == KindOf(p.tokens[IF p.pos = 1 THEN 1 ELSE p.pos - 1])

MatchKind(p, kind) == IF Check(p, kind) THEN Advance(p) ELSE p

Expect(p, kind) == IF Check(p, kind) THEN Ok(NoNode, Advance(p)) ELSE Error(p)

ExpectIdentifier(p) ==
    IF Check(p, "Identifier") THEN Ok(Spelling(p), Advance(p)) ELSE Error(p)

\* allocate_id, mk_expr, mk_stmt and mk_decl.
Make(kind, name, type, kids, p) ==
    Ok(Node(p.next, kind, name, type, kids), [p EXCEPT !.next = @ + 1])

-----------------------------------------------------------------------------
(***************************************************************************)
(* Lookahead.                                                              *)
(***************************************************************************)
StartsType(kind)        == kind \in TypeWords
StartsDeclaration(kind) == kind = "extern" \/ StartsType(kind)
AtDeclaration(p)        == StartsDeclaration(Current(p))

AtStructDecl(p) ==
    /\ Check(p, "struct")
    /\ \/ PeekKind(p, 1) = "{"
       \/ PeekKind(p, 1) = "Identifier" /\ PeekKind(p, 2) \in {"{", ";"}

\* specifier_length, of a specifier that starts there.
SpecifierLength(p, offset) ==
    LET kind == PeekKind(p, offset)
        next == PeekKind(p, offset + 1)
    IN  CASE kind = "struct" -> 2
          [] kind \in {"signed", "unsigned"} /\ next \in {"char", "int"} -> 2
          [] kind \in {"signed", "unsigned"} /\ next = "long" ->
                IF PeekKind(p, offset + 2) = "int" THEN 3 ELSE 2
          [] kind = "long" /\ next = "int" -> 2
          [] OTHER -> 1

AtCast(p) ==
    /\ Check(p, "(")
    /\ StartsType(PeekKind(p, 1))
    /\ PeekKind(p, 1 + SpecifierLength(p, 1)) \in {")", "Identifier"}

-----------------------------------------------------------------------------
(***************************************************************************)
(* Types and declarators.  The value of a result is a type, or a pair of a  *)
(* name and a type.                                                        *)
(***************************************************************************)
\* parse_integer_specifier, where one starts.
IntegerSpecifier(p, sign) ==
    CASE Check(p, "char") -> Ok(CharType(sign), Advance(p))
      [] Check(p, "int")  -> Ok(IntType(sign), Advance(p))
      [] Check(p, "long") -> Ok(LongType(sign), MatchKind(Advance(p), "int"))

OtherSpecifier(p) ==
    CASE Check(p, "void") -> Ok(VoidType, Advance(p))
      [] Check(p, "struct") ->
            Then(ExpectIdentifier(Advance(p)), LAMBDA tag : Ok(StructType(tag.value), tag.at))
      [] OTHER -> Error(p)

TypeSpecifier(p) ==
    LET IsInteger(q) == Current(q) \in {"char", "int", "long"}
        rest == Advance(p)
    IN  IF Current(p) \in {"signed", "unsigned"}
        THEN CASE IsInteger(rest) -> IntegerSpecifier(rest, Current(p))
               [] ~IsInteger(rest) /\ StartsType(Current(rest)) -> Error(rest)
               [] OTHER -> Ok(IntType(Current(p)), rest)
        ELSE IF IsInteger(p) THEN IntegerSpecifier(p, "signed") ELSE OtherSpecifier(p)

RECURSIVE ArraySuffixes(_, _, _)
ArraySuffixes(p, name, type) ==
    IF ~Check(p, "[") THEN Ok(<<name, type>>, p)
    ELSE LET inside == Advance(p)
             sized  == Check(inside, "Literal") /\ Spelling(inside) \notin CharConstants
             length == IF sized THEN Literals[Spelling(inside)] ELSE -1
         IN  Then(Expect(IF sized THEN Advance(inside) ELSE inside, "]"),
                  LAMBDA close : ArraySuffixes(close.at, name, ArrayOf(type, length)))

RECURSIVE Declarator(_, _)
Declarator(p, type) ==
    IF Check(p, "*") THEN Declarator(Advance(p), PointerTo(type))
    ELSE Then(ExpectIdentifier(p), LAMBDA name : ArraySuffixes(name.at, name.value, type))

\* A prototype may leave the names out.
RECURSIVE ParamList(_, _)
ParamList(p, params) ==
    IF params = <<>> /\ Check(p, ")") THEN Ok(<<>>, p)
    ELSE Then(TypeSpecifier(p), LAMBDA base :
         Then(IF Current(base.at) \in {"Identifier", "*"} THEN Declarator(base.at, base.value)
              ELSE Ok(<<NoName, base.value>>, base.at), LAMBDA declared :
         Then(Make("param", declared.value[1], declared.value[2], <<>>, declared.at), LAMBDA param :
            IF Check(param.at, ",") THEN ParamList(Advance(param.at), Append(params, param.value))
            ELSE Ok(Append(params, param.value), param.at))))

-----------------------------------------------------------------------------
(***************************************************************************)
(* Expressions, by precedence climbing.                                    *)
(***************************************************************************)
RECURSIVE Expr(_), BinaryExpr(_, _), Climb(_, _, _), Unary(_), Postfix(_, _), CallArgs(_, _)

Primary(p) ==
    CASE Check(p, "Identifier") -> Make("identifier", Spelling(p), NoType, <<>>, Advance(p))
      [] Check(p, "Literal")    -> Make("literal", Spelling(p), NoType, <<>>, Advance(p))
      [] Check(p, "(") ->
            Then(Expr(Advance(p)), LAMBDA inner :
            Then(Expect(inner.at, ")"), LAMBDA close : Ok(inner.value, close.at)))
      [] OTHER -> Error(p)

\* parse_call_args, with at least one argument to come.
CallArgs(p, args) ==
    Then(Expr(p), LAMBDA arg :
        IF Check(arg.at, ",") THEN CallArgs(Advance(arg.at), Append(args, arg.value))
        ELSE Then(Expect(arg.at, ")"), LAMBDA close : Ok(Append(args, arg.value), close.at)))

Postfix(p, expr) ==
    LET More(result) == Then(result, LAMBDA longer : Postfix(longer.at, longer.value))
        next == Advance(p)
    IN  CASE Check(p, "(") ->
                More(Then(IF Check(next, ")") THEN Ok(<<>>, Advance(next)) ELSE CallArgs(next, <<>>),
                          LAMBDA args : Make("call", NoName, NoType, <<expr>> \o args.value, args.at)))
          [] Check(p, "[") ->
                More(Then(Expr(next), LAMBDA index :
                     Then(Expect(index.at, "]"), LAMBDA close :
                          Make("index", NoName, NoType, <<expr, index.value>>, close.at))))
          [] Current(p) \in {".", "->"} ->
                More(Then(ExpectIdentifier(next), LAMBDA member :
                          Make(IF Check(p, "->") THEN "arrow" ELSE "member",
                               member.value, NoType, <<expr>>, member.at)))
          [] Current(p) \in DOMAIN PostfixOperators ->
                More(Make("unary", PostfixOperators[Current(p)], NoType, <<expr>>, next))
          [] OTHER -> Ok(expr, p)

Unary(p) ==
    CASE Current(p) \in DOMAIN PrefixOperators ->
            Then(Unary(Advance(p)), LAMBDA operand :
                Make("unary", PrefixOperators[Current(p)], NoType, <<operand.value>>, operand.at))
      [] Check(p, "sizeof") ->
            Then(Expect(Advance(p), "("), LAMBDA open :
            Then(Expr(open.at), LAMBDA operand :
            Then(Expect(operand.at, ")"), LAMBDA close :
                Make("sizeof", NoName, NoType, <<operand.value>>, close.at))))
      [] AtCast(p) ->
            Then(TypeSpecifier(Advance(p)), LAMBDA type :
            Then(Expect(type.at, ")"), LAMBDA close :
            Then(Unary(close.at), LAMBDA operand :
                Make("cast", NoName, type.value, <<operand.value>>, operand.at))))
      [] OTHER -> Then(Primary(p), LAMBDA primary : Postfix(primary.at, primary.value))

\* Mutant: the right operand takes the operators of its own level as well.
ClimbRight(p, lhs, lowest) ==
    IF Current(p) \notin DOMAIN Precedence \/ Precedence[Current(p)] < lowest THEN Ok(lhs, p)
    ELSE Then(BinaryExpr(Advance(p), Precedence[Current(p)]), LAMBDA rhs :
         Then(Make("binary", Current(p), NoType, <<lhs, rhs.value>>, rhs.at), LAMBDA longer :
            Climb(longer.at, longer.value, lowest)))

\* The loop of parse_binary_expr.
Climb(p, lhs, lowest) ==
    IF Current(p) \notin DOMAIN Precedence \/ Precedence[Current(p)] < lowest THEN Ok(lhs, p)
    ELSE Then(BinaryExpr(Advance(p), Precedence[Current(p)] + 1), LAMBDA rhs :
         Then(Make("binary", Current(p), NoType, <<lhs, rhs.value>>, rhs.at), LAMBDA longer :
            Climb(longer.at, longer.value, lowest)))

BinaryExpr(p, lowest) == Then(Unary(p), LAMBDA lhs : Climb(lhs.at, lhs.value, lowest))

\* parse_expr and parse_assignment, which is right-associative.
Expr(p) ==
    Then(BinaryExpr(p, LowestPrecedence), LAMBDA target :
        IF ~Check(target.at, "=") THEN target
        ELSE Then(Expr(Advance(target.at)), LAMBDA value :
                Make("binary", "=", NoType, <<target.value, value.value>>, value.at)))

-----------------------------------------------------------------------------
(***************************************************************************)
(* Recovery.                                                               *)
(***************************************************************************)
\* Mutant: the cursor always moves.
RECURSIVE SkipToBoundary(_)
SkipToBoundary(p) ==
    IF Check(p, "Eof") \/ Previous(p) \in {";", "}"} THEN p ELSE SkipToBoundary(Advance(p))

RECURSIVE Synchronize(_)
Synchronize(p) ==
    IF \/ Check(p, "Eof")
       \/ Previous(p) \in {";", "}"}
       \/ Current(p) \in {"if", "while", "for", "return", "}"}
       \/ AtDeclaration(p)
    THEN p
    ELSE Synchronize(Advance(p))

\* recover_from, with the cursor of the failed rule.
RecoverFrom(p) == Synchronize([p EXCEPT !.errors = @ \cup {p.pos}])

-----------------------------------------------------------------------------
(***************************************************************************)
(* Declarations and statements.                                            *)
(***************************************************************************)
RECURSIVE Decl(_, _), Stmt(_), Block(_, _)

RECURSIVE StructMembers(_, _)
StructMembers(p, members) ==
    IF Current(p) \in {"}", "Eof"}
    THEN Then(Expect(p, "}"), LAMBDA close : Ok(members, close.at))
    ELSE Then(TypeSpecifier(p), LAMBDA base :
         Then(Declarator(base.at, base.value), LAMBDA declared :
         Then(Expect(declared.at, ";"), LAMBDA end :
         Then(Make("variable", declared.value[1], declared.value[2], <<NoNode>>, end.at), LAMBDA member :
            StructMembers(member.at, Append(members, member.value))))))

\* An anonymous struct has no name, a forward declaration no body.
StructDecl(p, storage) ==
    LET named == Check(Advance(p), "Identifier")
        tag   == IF named THEN Spelling(Advance(p)) ELSE NoName
        body  == IF named THEN Advance(Advance(p)) ELSE Advance(p)
    IN  Then(IF Check(body, "{") THEN StructMembers(Advance(body), <<>>) ELSE Ok(<<NoNode>>, body),
             LAMBDA members :
        Then(Expect(members.at, ";"), LAMBDA end :
             Make("struct", tag, storage, members.value, end.at)))

\* The children of a function are its parameters and then its body.
FunctionTail(p, declared) ==
    Then(ParamList(p, <<>>), LAMBDA params :
    Then(Expect(params.at, ")"), LAMBDA close :
    Then(IF Check(close.at, "{") THEN Block(Advance(close.at), <<>>)
         ELSE Then(Expect(close.at, ";"), LAMBDA end : Ok(NoNode, end.at)), LAMBDA body :
         Make("function", declared[1], declared[2], Append(params.value, body.value), body.at))))

VariableTail(p, storage, declared) ==
    Then(IF Check(p, "=") THEN Expr(Advance(p)) ELSE Ok(NoNode, p), LAMBDA init :
    Then(Expect(init.at, ";"), LAMBDA end :
         Make(storage, declared[1], declared[2], <<init.value>>, end.at)))

Decl(p, context) ==
    LET external == Check(p, "extern")
        q        == MatchKind(p, "extern")
    IN  IF AtStructDecl(q) THEN StructDecl(q, IF external THEN <<"extern">> ELSE NoType)
        ELSE Then(TypeSpecifier(q), LAMBDA base :
             Then(Declarator(base.at, base.value), LAMBDA declared :
                IF context = "top" /\ Check(declared.at, "(")
                THEN FunctionTail(Advance(declared.at), declared.value)
                ELSE VariableTail(declared.at, IF external THEN "extern" ELSE "variable", declared.value)))

\* An item that fails is left where recovery stops; if that is where it began,
\* the loop has no other state that could let it go on.
AfterItem(p, items, item) ==
    LET resume == RecoverFrom(item.at)
    IN  CASE item.is = "ok"       -> Block(item.at, Append(items, item.value))
          [] item.is = "diverges" -> item
          [] item.is = "error"    -> IF resume.pos = p.pos THEN Diverges("syntax", resume)
                                     ELSE Block(resume, items)

Block(p, items) ==
    IF Current(p) \in {"}", "Eof"}
    THEN Then(Expect(p, "}"), LAMBDA close : Make("block", NoName, NoType, items, close.at))
    ELSE AfterItem(p, items, IF AtDeclaration(p) THEN Decl(p, "block") ELSE Stmt(p))

Parenthesized(p) ==
    Then(Expect(p, "("), LAMBDA open :
    Then(Expr(open.at), LAMBDA inner :
    Then(Expect(inner.at, ")"), LAMBDA close : Ok(inner.value, close.at))))

IfStmt(p) ==
    Then(Parenthesized(p), LAMBDA condition :
    Then(Stmt(condition.at), LAMBDA yes :
    Then(IF Check(yes.at, "else") THEN Stmt(Advance(yes.at)) ELSE Ok(NoNode, yes.at), LAMBDA no :
         Make("if", NoName, NoType, <<condition.value, yes.value, no.value>>, no.at))))

WhileStmt(p) ==
    Then(Parenthesized(p), LAMBDA condition :
    Then(Stmt(condition.at), LAMBDA body :
         Make("while", NoName, NoType, <<condition.value, body.value>>, body.at)))

\* An expression up to `end', or nothing if `end' is there already.
OptionalExpr(p, end) ==
    Then(IF Check(p, end) THEN Ok(NoNode, p) ELSE Expr(p), LAMBDA expr :
    Then(Expect(expr.at, end), LAMBDA close : Ok(expr.value, close.at)))

ExprStmt(p) ==
    Then(Expr(p), LAMBDA expr :
    Then(Expect(expr.at, ";"), LAMBDA end : Make("expr", NoName, NoType, <<expr.value>>, end.at)))

\* A declaration is wrapped in a block.
ForInit(p) ==
    CASE Check(p, ";") -> Ok(NoNode, Advance(p))
      [] ~Check(p, ";") /\ AtDeclaration(p) ->
            Then(Decl(p, "block"), LAMBDA decl :
                 Make("block", NoName, NoType, <<decl.value>>, decl.at))
      [] OTHER -> ExprStmt(p)

ForStmt(p) ==
    Then(Expect(p, "("), LAMBDA open :
    Then(ForInit(open.at), LAMBDA init :
    Then(OptionalExpr(init.at, ";"), LAMBDA condition :
    Then(OptionalExpr(condition.at, ")"), LAMBDA step :
    Then(Stmt(step.at), LAMBDA body :
         Make("for", NoName, NoType,
              <<init.value, condition.value, step.value, body.value>>, body.at))))))

Stmt(p) ==
    LET rest == Advance(p)
    IN  CASE Check(p, ";")      -> Make("empty", NoName, NoType, <<>>, rest)
          [] Check(p, "{")      -> Block(rest, <<>>)
          [] Check(p, "if")     -> IfStmt(rest)
          [] Check(p, "while")  -> WhileStmt(rest)
          [] Check(p, "for")    -> ForStmt(rest)
          [] Check(p, "return") ->
                Then(OptionalExpr(rest, ";"), LAMBDA value :
                     Make("return", NoName, NoType, <<value.value>>, value.at))
          [] Current(p) \in {"break", "continue"} ->
                Then(Expect(rest, ";"), LAMBDA end :
                     Make(Current(p), NoName, NoType, <<>>, end.at))
          [] OTHER -> ExprStmt(p)

-----------------------------------------------------------------------------
(***************************************************************************)
(* parse_translation_unit: one step per turn of its loop.                  *)
(***************************************************************************)
parsing == <<parser, decls, turn>>

ParserInit ==
    /\ parser \in {At(program, 1, 0, {}) : program \in Programs}
    /\ decls = <<>>
    /\ turn = 0

Finished == Check(parser, "Eof")

ParseDeclaration ==
    /\ ~Finished
    /\ \E decl \in {Decl(parser, "top")} :
          /\ decl.is = "ok"
          /\ parser' = decl.at
          /\ decls' = Append(decls, decl.value)
    /\ turn' = 1 - turn

RecoverAtTopLevel ==
    /\ ~Finished
    /\ \E decl \in {Decl(parser, "top")} :
          decl.is = "error" /\ parser' = RecoverFrom(decl.at)
    /\ turn' = 1 - turn
    /\ UNCHANGED decls

\* A turn of a block's loop that leaves the cursor where it was.
SpinInBlock ==
    /\ ~Finished
    /\ Decl(parser, "top").is = "diverges"
    /\ turn' = 1 - turn
    /\ UNCHANGED <<parser, decls>>

ParserNext == ParseDeclaration \/ RecoverAtTopLevel \/ SpinInBlock

\* Every action of ParserNext is a turn, and one of them is possible whenever
\* the file has not ended.
Turn == ~Finished /\ turn' = 1 - turn

ParserSpec == ParserInit /\ [][ParserNext]_parsing /\ WF_turn(Turn)

-----------------------------------------------------------------------------
\* Parsing ends for every file, with every syntax error in it reported: `The
\* parser recovers from errors rather than stopping at the first one' (the
\* header of parser.rs).
EveryFileIsReadToItsEnd == <>Finished

=============================================================================
