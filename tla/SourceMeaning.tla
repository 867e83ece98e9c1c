--------------------------- MODULE SourceMeaning ---------------------------
(***************************************************************************)
(* What a program says: a definitional interpreter of the subset of C the  *)
(* compiler accepts, over the tree the parser builds.                      *)
(*                                                                         *)
(* It is the reference the compiler is held against, and shares nothing    *)
(* with its passes: names are bound by an environment that each construct  *)
(* extends for what it encloses, types are those of the values, an object  *)
(* is a tree of scalars and a pointer is a place in one, so no layout, no  *)
(* address and no width of a register occurs in it.  A scalar is <<>>      *)
(* until it is written.  What C leaves undefined ends the run; arithmetic  *)
(* that overflows wraps, as the code generated for it does.  Functions     *)
(* that are only declared are the environment: calling one is an event.    *)
(***************************************************************************)
EXTENDS Syntax, Widths, Bitwise

Undefined(c) == Fail("undefined", c)

FunctionsNamed(program, name) ==
    {decl \in ToSet(program) : decl.kind = "function" /\ decl.name = name}

Definitions(program, name) ==
    {decl \in FunctionsNamed(program, name) : Last(decl.kids) # NoNode}

TheFunction(program, name) ==
    IF Definitions(program, name) # {} THEN CHOOSE decl \in Definitions(program, name) : TRUE
    ELSE CHOOSE decl \in FunctionsNamed(program, name) : TRUE

StructMembersOf(program, tag) ==
    (CHOOSE decl \in UNION {NodesOf(top) : top \in ToSet(program)} :
        decl.kind = "struct" /\ decl.name = tag /\ decl.kids # <<NoNode>>).kids

-----------------------------------------------------------------------------
(***************************************************************************)
(* Integer types by their rank, and integers in them.                      *)
(***************************************************************************)
BytesOf == [kind \in {"char", "int", "long"} |->
                CASE kind = "char" -> 1 [] kind = "int" -> 4 [] kind = "long" -> 8]

IsInt(type) == type[1] \in DOMAIN BytesOf
AsInt == IntType("signed")

InType(type, value) ==
    IF type[2] = "signed" THEN Narrow(BytesOf[type[1]], value) ELSE Unsigned(BytesOf[type[1]], value)

Promotion(type) == IF type[1] = "char" THEN AsInt ELSE type

\* 6.3.1.8: with different signs, the unsigned type wins unless the other can
\* hold all of its values.
Balanced(s, t) ==
    LET a == Promotion(s)
        b == Promotion(t)
        Wider(x, y) == IF BytesOf[x[1]] >= BytesOf[y[1]] THEN x ELSE y
        unsigned == IF a[2] = "unsigned" THEN a ELSE b
        signed   == IF a[2] = "unsigned" THEN b ELSE a
    IN  IF a[2] = b[2] \/ BytesOf[signed[1]] > BytesOf[unsigned[1]] THEN Wider(a, b)
        ELSE unsigned

Typed(type, v) == [type |-> type, v |-> v]
Truth(condition) == Typed(AsInt, IF condition THEN 1 ELSE 0)

\* As if by assignment.
To(type, value) ==
    CASE IsInt(type) -> Typed(type, InType(type, value.v))
      [] type[1] = "pointer" /\ IsInt(value.type) -> Typed(type, <<0, <<>>>>)
      [] OTHER -> Typed(type, value.v)

Constant(word) ==
    LET value == Literals[word]
    IN  CASE word \in CharConstants -> Typed(AsInt, Narrow(1, value))
          [] word \notin CharConstants /\ value < 2^(Bits(4) - 1) -> Typed(AsInt, value)
          [] word \notin CharConstants /\ value >= 2^(Bits(4) - 1) ->
                Typed(LongType(IF value < 2^(Bits(8) - 1) THEN "signed" ELSE "unsigned"), value)

Truncated(a, b) == LET size == (IF a < 0 THEN -a ELSE a) \div (IF b < 0 THEN -b ELSE b)
                   IN  IF (a < 0) = (b < 0) THEN size ELSE -size

IsUndefined(op, type, a, b) ==
    LET bits == Bits(BytesOf[type[1]])
    IN  CASE op = "/" -> b = 0 \/ (type[2] = "signed" /\ a = -(2^(bits - 1)) /\ b = -1)
          [] op \in {"<<", ">>"} -> b \notin 0..(bits - 1)
          [] OTHER -> FALSE

Arithmetic(op, type, a, b) ==
    LET bytes == BytesOf[type[1]]
        Bitmap(v) == Unsigned(bytes, v)
    IN  CASE op = "+" -> a + b
          [] op = "-" -> a - b
          [] op = "*" -> Narrow(bytes, a) * Narrow(bytes, b)
          [] op = "/" -> Truncated(a, b)
          [] op = "&" -> Bitmap(a) & Bitmap(b)
          [] op = "|" -> Bitmap(a) | Bitmap(b)
          [] op = "^" -> Bitmap(a) ^^ Bitmap(b)
          [] op = "<<" -> (a % 2^(Bits(bytes) - b)) * 2^b
          [] op = ">>" -> a \div 2^b

Holds(op, a, b) ==
    CASE op = "==" -> a = b [] op = "!=" -> a # b [] op = "<" -> a < b
      [] op = "<=" -> a <= b [] op = ">" -> a > b [] op = ">=" -> a >= b

Relations == {"==", "!=", "<", "<=", ">", ">="}

Apply(op, left, right, c) ==
    LET both == Balanced(left.type, right.type)
        type == IF op \in {"<<", ">>"} THEN Promotion(left.type) ELSE both
        a    == InType(type, left.v)
        b    == IF op \in {"<<", ">>"} THEN right.v ELSE InType(type, right.v)
    IN  CASE op \in Relations -> Ok(Truth(Holds(op, a, b)), c)
          [] op \notin Relations /\ IsUndefined(op, type, a, b) -> Undefined(c)
          [] OTHER -> Ok(Typed(type, InType(type, Arithmetic(op, type, a, b))), c)

-----------------------------------------------------------------------------
(***************************************************************************)
(* Objects.  A place is an object, the way into it, and the type there.    *)
(***************************************************************************)
RECURSIVE Unwritten(_, _), Within(_, _), Replaced(_, _, _)

Unwritten(program, type) ==
    CASE type[1] = "array"  -> [k \in 0..(type[3] - 1) |-> Unwritten(program, type[2])]
      [] type[1] = "struct" ->
            LET members == ToSet(StructMembersOf(program, type[2]))
            IN  [name \in {m.name : m \in members} |->
                    Unwritten(program, (CHOOSE m \in members : m.name = name).type)]
      [] OTHER -> <<>>

Within(tree, path) == IF path = <<>> THEN tree ELSE Within(tree[Head(path)], Tail(path))

Replaced(tree, path, by) ==
    IF path = <<>> THEN by
    ELSE [tree EXCEPT ![Head(path)] = Replaced(@, Tail(path), by)]

IsScalar(type) == IsInt(type) \/ type[1] = "pointer"

ReadPlace(place, c) ==
    LET held == Within(c.store[place.object].tree, place.path)
    IN  IF ~IsScalar(place.type) THEN Ok(Typed(place.type, held), c)
        ELSE IF held = <<>> THEN Undefined(c) ELSE Ok(Typed(place.type, held[1]), c)

WritePlace(place, value, c) ==
    [c EXCEPT !.store[place.object].tree =
        Replaced(@, place.path, IF IsScalar(place.type) THEN <<value.v>> ELSE value.v)]

NewObject(type, c) ==
    [c EXCEPT !.store = Append(@, [type |-> type, tree |-> Unwritten(c.program, type)])]

RECURSIVE Denotes(_)
Denotes(e) ==
    \/ e.kind \in {"identifier", "index", "arrow"}
    \/ e.kind = "unary" /\ e.name = "deref"
    \/ e.kind = "member" /\ Denotes(e.kids[1])

-----------------------------------------------------------------------------
(***************************************************************************)
(* Expressions.                                                            *)
(***************************************************************************)
RECURSIVE Eval(_, _, _), PlaceFor(_, _, _), Exec(_, _, _), ExecItems(_, _, _), EvalArgs(_, _, _, _, _)

Follow(pointer, c) ==
    IF pointer.v[1] = 0 THEN Undefined(c)
    ELSE Ok([object |-> pointer.v[1], path |-> pointer.v[2], type |-> pointer.type[2]], c)

MemberPlace(place, name, c) ==
    LET members == ToSet(StructMembersOf(c.program, place.type[2]))
    IN  [place EXCEPT !.path = Append(@, name),
                      !.type = (CHOOSE m \in members : m.name = name).type]

PlaceFor(e, env, c) ==
    CASE e.kind = "identifier" ->
            Ok([object |-> env[e.name], path |-> <<>>, type |-> c.store[env[e.name]].type], c)
      [] e.kind = "unary" -> Then(Eval(e.kids[1], env, c), LAMBDA p : Follow(p.value, p.at))
      [] e.kind = "arrow" ->
            Then(Eval(e.kids[1], env, c), LAMBDA p :
            Then(Follow(p.value, p.at), LAMBDA whole :
                 Ok(MemberPlace(whole.value, e.name, whole.at), whole.at)))
      [] e.kind = "member" ->
            Then(PlaceFor(e.kids[1], env, c), LAMBDA whole :
                 Ok(MemberPlace(whole.value, e.name, whole.at), whole.at))
      [] e.kind = "index" ->
            Then(PlaceFor(e.kids[1], env, c), LAMBDA whole :
            Then(Eval(e.kids[2], env, whole.at), LAMBDA k :
                 IF k.value.v \notin 0..(whole.value.type[3] - 1) THEN Undefined(k.at)
                 ELSE Ok([whole.value EXCEPT !.path = Append(@, k.value.v), !.type = @[2]], k.at)))

EvalAssignment(lhs, rhs, env, c) ==
    Then(Eval(rhs, env, c), LAMBDA value :
    Then(PlaceFor(lhs, env, value.at), LAMBDA place :
        LET stored == To(place.value.type, value.value)
        IN  Ok(stored, WritePlace(place.value, stored, place.at))))

EvalLogical(op, lhs, rhs, env, c) ==
    Then(Eval(lhs, env, c), LAMBDA left :
    IF (left.value.v # 0) = (op = "||") THEN Ok(Truth(op = "||"), left.at)
    ELSE Then(Eval(rhs, env, left.at), LAMBDA right : Ok(Truth(right.value.v # 0), right.at)))

EvalUnary(op, operand, env, c) ==
    IF op = "addressof"
    THEN Then(PlaceFor(operand, env, c), LAMBDA place :
              Ok(Typed(PointerTo(place.value.type), <<place.value.object, place.value.path>>), place.at))
    ELSE Then(Eval(operand, env, c), LAMBDA of :
            LET type == Promotion(of.value.type)
            IN  Ok(CASE op = "not"    -> Truth(of.value.v = 0)
                     [] op = "neg"    -> Typed(type, InType(type, -of.value.v))
                     [] op = "bitnot" -> Typed(type, InType(type, -of.value.v - 1)), of.at))

EvalArgs(args, params, values, env, c) ==
    IF args = <<>> THEN Ok(values, c)
    ELSE Then(Eval(Head(args), env, c), LAMBDA arg :
              EvalArgs(Tail(args), Tail(params), Append(values, To(Head(params).type, arg.value)),
                       env, arg.at))

\* The bits an argument is passed as.
PassedBits(value) == Unsigned(BytesOf[value.type[1]], value.v)

Enter(function, values, c) ==
    LET params  == Front(function.kids)
        bound   == FoldLeftDomain(LAMBDA so, k :
                        [so EXCEPT !.store = Append(@, [type |-> params[k].type, tree |-> <<values[k].v>>])],
                        c, params)
        env     == [name \in {params[k].name : k \in DOMAIN params} |->
                        Len(c.store) + (CHOOSE k \in DOMAIN params : params[k].name = name)]
    IN  Then(Exec(Last(function.kids), env, bound), LAMBDA flow :
             Ok(IF Head(flow.value) = "return" /\ Len(flow.value) = 2
                THEN To(function.type, flow.value[2]) ELSE Typed(VoidType, 0), flow.at))

EvalCall(name, args, env, c) ==
    LET function == TheFunction(c.program, name)
    IN  Then(EvalArgs(args, Front(function.kids), <<>>, env, c), LAMBDA passed :
            LET so == passed.at
            IN  CASE Last(function.kids) # NoNode /\ so.fuel = 0 -> Fail("fuel", so)
                  [] Last(function.kids) # NoNode /\ so.fuel > 0 ->
                        Enter(function, passed.value, [so EXCEPT !.fuel = @ - 1])
                  [] Last(function.kids) = NoNode /\ Len(so.calls) = Len(so.answers) ->
                        Fail("unanswered", so)
                  [] OTHER ->
                        Ok(IF function.type = VoidType THEN Typed(VoidType, 0)
                           ELSE Typed(function.type, InType(function.type, so.answers[Len(so.calls) + 1])),
                           [so EXCEPT !.calls = Append(@, <<name,
                                [k \in DOMAIN passed.value |-> PassedBits(passed.value[k])]>>)]))

Eval(e, env, c) ==
    CASE e.kind = "literal" -> Ok(Constant(e.name), c)
      [] e.kind = "binary" /\ e.name = "=" -> EvalAssignment(e.kids[1], e.kids[2], env, c)
      [] e.kind = "binary" /\ e.name \in {"&&", "||"} ->
            EvalLogical(e.name, e.kids[1], e.kids[2], env, c)
      [] e.kind = "binary" /\ e.name \notin {"=", "&&", "||"} ->
            Then(Eval(e.kids[1], env, c), LAMBDA left :
            Then(Eval(e.kids[2], env, left.at), LAMBDA right :
                 Apply(e.name, left.value, right.value, right.at)))
      [] e.kind = "cast" -> Then(Eval(e.kids[1], env, c), LAMBDA of :
                                 Ok(To(e.type, of.value), of.at))
      [] e.kind = "call" -> EvalCall(e.kids[1].name, Tail(e.kids), env, c)
      [] Denotes(e) -> Then(PlaceFor(e, env, c), LAMBDA place : ReadPlace(place.value, place.at))
      [] e.kind = "unary" /\ e.name # "deref" -> EvalUnary(e.name, e.kids[1], env, c)
      [] e.kind = "member" /\ ~Denotes(e) ->
            Then(Eval(e.kids[1], env, c), LAMBDA whole :
                LET type == MemberPlace([path |-> <<>>, type |-> whole.value.type], e.name, c).type
                IN  Ok(Typed(type, whole.value.v[e.name][1]), whole.at))

-----------------------------------------------------------------------------
(***************************************************************************)
(* Statements.  A statement answers how it ends; a block extends the       *)
(* environment from a declaration to its own end.                          *)
(***************************************************************************)
Normal == <<"normal">>

ExecDeclaration(decl, env, c) ==
    LET made  == NewObject(decl.type, c)
        inner == (decl.name :> Len(made.store)) @@ env
        place == [object |-> Len(made.store), path |-> <<>>, type |-> decl.type]
    IN  IF decl.kids[1] = NoNode THEN Ok(inner, made)
        ELSE Then(Eval(decl.kids[1], inner, made), LAMBDA value :
                  Ok(inner, WritePlace(place, To(decl.type, value.value), value.at)))

ExecItems(items, env, c) ==
    CASE items = <<>> -> Ok(Normal, c)
      [] items # <<>> /\ Head(items).kind = "variable" ->
            Then(ExecDeclaration(Head(items), env, c), LAMBDA inner :
                 ExecItems(Tail(items), inner.value, inner.at))
      [] items # <<>> /\ Head(items).kind = "struct" -> ExecItems(Tail(items), env, c)
      [] OTHER -> Then(Exec(Head(items), env, c), LAMBDA flow :
                       IF flow.value = Normal THEN ExecItems(Tail(items), env, flow.at) ELSE flow)

Test(condition, env, c) ==
    IF condition = NoNode THEN Ok(TRUE, c)
    ELSE Then(Eval(condition, env, c), LAMBDA value : Ok(value.value.v # 0, value.at))

RECURSIVE Loop(_, _, _, _, _)
Loop(condition, step, body, env, c) ==
    IF c.fuel = 0 THEN Fail("fuel", c)
    ELSE Then(Test(condition, env, [c EXCEPT !.fuel = @ - 1]), LAMBDA test :
         IF ~test.value THEN Ok(Normal, test.at)
         ELSE Then(Exec(body, env, test.at), LAMBDA flow :
              CASE Head(flow.value) = "return" -> flow
                [] Head(flow.value) = "break"  -> Ok(Normal, flow.at)
                [] OTHER -> Then(IF step = NoNode THEN flow ELSE Eval(step, env, flow.at), LAMBDA next :
                                 Loop(condition, step, body, env, next.at))))

ExecFor(stmt, env, c) ==
    LET init == stmt.kids[1]
        Rest(inner, so) == Loop(stmt.kids[2], stmt.kids[3], stmt.kids[4], inner, so)
    IN  CASE init = NoNode -> Rest(env, c)
          [] init # NoNode /\ init.kind = "block" ->
                Then(ExecDeclaration(init.kids[1], env, c), LAMBDA inner : Rest(inner.value, inner.at))
          [] OTHER -> Then(Exec(init, env, c), LAMBDA done : Rest(env, done.at))

Exec(stmt, env, c) ==
    LET kids == stmt.kids
    IN  CASE stmt.kind = "empty" -> Ok(Normal, c)
          [] stmt.kind = "expr"  -> Then(Eval(kids[1], env, c), LAMBDA value : Ok(Normal, value.at))
          [] stmt.kind = "block" -> ExecItems(kids, env, c)
          [] stmt.kind = "if"    ->
                Then(Test(kids[1], env, c), LAMBDA test :
                     CASE test.value -> Exec(kids[2], env, test.at)
                       [] ~test.value /\ kids[3] # NoNode -> Exec(kids[3], env, test.at)
                       [] OTHER -> Ok(Normal, test.at))
          [] stmt.kind = "while" -> Loop(kids[1], NoNode, kids[2], env, c)
          [] stmt.kind = "for"   -> ExecFor(stmt, env, c)
          [] stmt.kind = "return" /\ kids[1] = NoNode -> Ok(<<"return">>, c)
          [] stmt.kind = "return" /\ kids[1] # NoNode ->
                Then(Eval(kids[1], env, c), LAMBDA value : Ok(<<"return", value.value>>, value.at))
          [] stmt.kind \in {"break", "continue"} -> Ok(<<stmt.kind>>, c)

-----------------------------------------------------------------------------
(***************************************************************************)
(* A run of a function: what it called, and the bits it returned.          *)
(***************************************************************************)
RunSource(program, name, args, answers, fuel) ==
    LET function == TheFunction(program, name)
        start    == [program |-> program, store |-> <<>>, calls |-> <<>>, answers |-> answers, fuel |-> fuel]
        values   == [k \in DOMAIN args |-> To(function.kids[k].type, Typed(LongType("signed"), args[k]))]
    IN  Enter(function, values, start)

-----------------------------------------------------------------------------
(***************************************************************************)
(* How a tree is written: the grammar of C read from the tree to the       *)
(* tokens, with no parenthesis that is not needed and each type by one     *)
(* spelling.  It is the reference for the parser, which goes the other     *)
(* way, and so follows the grammar of ISO C and not the parser.            *)
(***************************************************************************)
Separated(parts) ==
    FoldLeftDomain(LAMBDA text, k : text \o (IF k = 1 THEN <<>> ELSE <<",">>) \o parts[k], <<>>, parts)

-----------------------------------------------------------------------------
(***************************************************************************)
(* Declarators: a pointer binds less tightly than an array, and of two     *)
(* arrays the outer one is written first.                                  *)
(***************************************************************************)
WordFor(number) == CHOOSE word \in DOMAIN Literals \ CharConstants : Literals[word] = number

RECURSIVE Base(_), Stars(_), Dimensions(_)
Base(type)  == IF type[1] \in {"pointer", "array"} THEN Base(type[2]) ELSE type
Stars(type) == CASE type[1] = "pointer" -> Append(Stars(type[2]), "*")
                 [] type[1] = "array"   -> Stars(type[2])
                 [] OTHER -> <<>>
Dimensions(type) ==
    IF type[1] # "array" THEN <<>>
    ELSE <<"[">> \o (IF type[3] = -1 THEN <<>> ELSE <<WordFor(type[3])>>) \o <<"]">>
         \o Dimensions(type[2])

Specifier(type) ==
    CASE type[1] = "struct" -> <<"struct", type[2]>>
      [] type[1] = "void"   -> <<"void">>
      [] OTHER -> (IF type[2] = "unsigned" THEN <<"unsigned">> ELSE <<>>) \o <<type[1]>>

Declared(name, type) ==
    Specifier(Base(type)) \o Stars(type) \o (IF name = NoName THEN <<>> ELSE <<name>>)
        \o Dimensions(type)

-----------------------------------------------------------------------------
(***************************************************************************)
(* Expressions: in a position of the grammar that asks for a level, an     *)
(* expression of a lower one stands in parentheses.                        *)
(***************************************************************************)
UnaryLevel   == 11
PostfixLevel == 12

PrefixWord(name)  == CHOOSE op \in DOMAIN PrefixOperators : PrefixOperators[op] = name

Level(e) == CASE e.kind = "binary" /\ e.name = "=" -> 0
              [] e.kind = "binary" /\ e.name # "=" -> Precedence[e.name]
              [] e.kind = "cast" \/ (e.kind = "unary" /\ e.name \notin {"postinc", "postdec"}) -> UnaryLevel
              [] OTHER -> PostfixLevel

RECURSIVE Shown(_), ShownAt(_, _)

ShownAt(level, e) == IF Level(e) < level THEN <<"(">> \o Shown(e) \o <<")">> ELSE Shown(e)

Shown(e) ==
    LET Kid(k, level) == ShownAt(level, e.kids[k])
    IN  CASE e.kind \in {"identifier", "literal"} -> <<e.name>>
          [] e.kind = "binary" /\ e.name = "=" -> Kid(1, 1) \o <<"=">> \o Kid(2, 0)
          [] e.kind = "binary" /\ e.name # "=" -> Kid(1, Level(e)) \o <<e.name>> \o Kid(2, Level(e) + 1)
          [] e.kind = "cast" -> <<"(">> \o Specifier(e.type) \o <<")">> \o Kid(1, UnaryLevel)
          [] e.kind = "unary" /\ e.name = "postinc" -> Kid(1, PostfixLevel) \o <<"++">>
          [] e.kind = "unary" /\ e.name = "postdec" -> Kid(1, PostfixLevel) \o <<"--">>
          [] e.kind = "unary" /\ e.name \notin {"postinc", "postdec"} ->
                <<PrefixWord(e.name)>> \o Kid(1, UnaryLevel)
          [] e.kind = "sizeof" -> <<"sizeof", "(">> \o Kid(1, 0) \o <<")">>
          [] e.kind = "index"  -> Kid(1, PostfixLevel) \o <<"[">> \o Kid(2, 0) \o <<"]">>
          [] e.kind = "member" -> Kid(1, PostfixLevel) \o <<".", e.name>>
          [] e.kind = "arrow"  -> Kid(1, PostfixLevel) \o <<"->", e.name>>
          [] e.kind = "call"   ->
                Kid(1, PostfixLevel) \o <<"(">>
                    \o Separated([k \in 1..(Len(e.kids) - 1) |-> Kid(k + 1, 0)]) \o <<")">>

-----------------------------------------------------------------------------
(***************************************************************************)
(* Statements and declarations.                                            *)
(***************************************************************************)
RECURSIVE Written(_)

Optional(node) == IF node = NoNode THEN <<>> ELSE Shown(node)
Braced(nodes)  == <<"{">> \o FlattenSeq([k \in DOMAIN nodes |-> Written(nodes[k])]) \o <<"}">>

Written(node) ==
    LET kids == node.kids
    IN  CASE node.kind = "empty"  -> <<";">>
          [] node.kind = "expr"   -> Shown(kids[1]) \o <<";">>
          [] node.kind = "return" -> <<"return">> \o Optional(kids[1]) \o <<";">>
          [] node.kind \in {"break", "continue"} -> <<node.kind, ";">>
          [] node.kind = "block"  -> Braced(kids)
          [] node.kind = "while"  -> <<"while", "(">> \o Shown(kids[1]) \o <<")">> \o Written(kids[2])
          [] node.kind = "if" ->
                <<"if", "(">> \o Shown(kids[1]) \o <<")">> \o Written(kids[2])
                    \o (IF kids[3] = NoNode THEN <<>> ELSE <<"else">> \o Written(kids[3]))
          [] node.kind = "for" ->
                <<"for", "(">>
                    \o (CASE kids[1] = NoNode -> <<";">>
                          [] kids[1] # NoNode /\ kids[1].kind = "block" -> Written(kids[1].kids[1])
                          [] OTHER -> Written(kids[1]))
                    \o Optional(kids[2]) \o <<";">> \o Optional(kids[3]) \o <<")">> \o Written(kids[4])
          [] node.kind \in {"variable", "extern"} ->
                (IF node.kind = "extern" THEN <<"extern">> ELSE <<>>)
                    \o Declared(node.name, node.type)
                    \o (IF kids[1] = NoNode THEN <<>> ELSE <<"=">> \o Shown(kids[1])) \o <<";">>
          [] node.kind = "struct" ->
                (IF node.type = NoType THEN <<>> ELSE node.type) \o <<"struct">>
                    \o (IF node.name = NoName THEN <<>> ELSE <<node.name>>)
                    \o (IF kids = <<NoNode>> THEN <<>> ELSE Braced(kids)) \o <<";">>
          [] node.kind = "function" ->
                LET params == Front(kids)
                IN  Declared(node.name, node.type) \o <<"(">>
                      \o Separated([k \in DOMAIN params |-> Declared(params[k].name, params[k].type)])
                      \o <<")">> \o (IF Last(kids) = NoNode THEN <<";">> ELSE Written(Last(kids)))

Spelled(decls) == FlattenSeq([k \in DOMAIN decls |-> Written(decls[k])])
=============================================================================
