------------------------------- MODULE Syntax -------------------------------
(***************************************************************************)
(* Tokens, the abstract syntax tree and the scopes of its names:           *)
(* frontend/lexer/token.rs, frontend/ast.rs and frontend/scope.rs.         *)
(*                                                                         *)
(* A token is the word it is spelled with; its kind is the word itself for *)
(* keywords and punctuation.  A node is a record with its id, its kind,    *)
(* the one name, operator or literal it carries, the type written in it,   *)
(* and its children in the order of the source; an optional child that is  *)
(* absent is NoNode.                                                       *)
(***************************************************************************)
EXTENDS Integers, SequencesExt

CONSTANTS Identifiers,   \* the words that are names
          Literals,      \* a function from the words that are literals to their values
          CharConstants  \* the literals written as a character

ASSUME SyntaxAssumption ==
    /\ CharConstants \subseteq DOMAIN Literals
    /\ \A word \in DOMAIN Literals : Literals[word] \in Nat

NoNode == [kind |-> "none"]

TypeWords == {"int", "long", "char", "signed", "unsigned", "void", "struct"}

Keywords == TypeWords \cup {"extern", "if", "else", "while", "for", "return",
                            "break", "continue", "sizeof"}

KindOf(word) ==
    CASE word \in Identifiers     -> "Identifier"
      [] word \in DOMAIN Literals -> "Literal"
      [] OTHER                    -> word

\* CType and Type.
CharType(sign)       == <<"char", sign>>
IntType(sign)        == <<"int", sign>>
LongType(sign)       == <<"long", sign>>
VoidType             == <<"void">>
PointerTo(t)       == <<"pointer", t>>
ArrayOf(t, length) == <<"array", t, length>>
StructType(tag)      == <<"struct", tag>>

NoType == <<"none">>
NoName == "(none)"

Node(id, kind, name, type, kids) ==
    [id |-> id, kind |-> kind, name |-> name, type |-> type, kids |-> kids]

\* How tightly an operator binds: Parser::binary_op.
Precedence ==
    [op \in {"||", "&&", "|", "^", "&", "==", "!=", "<", "<=", ">", ">=",
             "<<", ">>", "+", "-", "*", "/", "%"} |->
        CASE op = "||" -> 1
          [] op = "&&" -> 2
          [] op = "|"  -> 3
          [] op = "^"  -> 4
          [] op = "&"  -> 5
          [] op \in {"==", "!="} -> 6
          [] op \in {"<", "<=", ">", ">="} -> 7
          [] op \in {"<<", ">>"} -> 8
          [] op \in {"+", "-"} -> 9
          [] op \in {"*", "/", "%"} -> 10]

LowestPrecedence == 1

PrefixOperators ==
    [op \in {"-", "!", "~", "*", "&", "++", "--"} |->
        CASE op = "-" -> "neg" [] op = "!" -> "not" [] op = "~" -> "bitnot"
          [] op = "*" -> "deref" [] op = "&" -> "addressof"
          [] op = "++" -> "preinc" [] op = "--" -> "predec"]

PostfixOperators ==
    [op \in {"++", "--"} |-> IF op = "++" THEN "postinc" ELSE "postdec"]

\* Every node of a tree, itself included.
RECURSIVE NodesOf(_)
NodesOf(node) ==
    IF node = NoNode THEN {}
    ELSE {node} \cup UNION {NodesOf(kid) : kid \in ToSet(node.kids)}

-----------------------------------------------------------------------------
(***************************************************************************)
(* What a rule of a pass answers: "ok" with a value, "error" with what is  *)
(* reported, or "diverges"; and in each case where it leaves the pass.     *)
(***************************************************************************)
Ok(value, at)      == [is |-> "ok", value |-> value, at |-> at]
Fail(what, at)     == [is |-> "error", value |-> <<what>>, at |-> at]
Diverges(what, at) == [is |-> "diverges", value |-> <<what>>, at |-> at]

\* The `?' operator.
Then(result, Continue(_)) == IF result.is = "ok" THEN Continue(result) ELSE result

-----------------------------------------------------------------------------
(***************************************************************************)
(* The scope stack: frontend/scope.rs.  Semantic analysis keeps types in   *)
(* one, the renamer variable ids in another.  A stack is a sequence of     *)
(* functions from names, the innermost scope last.                         *)
(***************************************************************************)
NoNames == [name \in {} |-> {}]

NewScopes         == <<NoNames>>
PushScope(scopes) == Append(scopes, NoNames)
PopScope(scopes)  == Front(scopes)

LookupLocal(scopes, name) == name \in DOMAIN Last(scopes)

\* Guarded by ~LookupLocal: declare refuses a name of the innermost scope.
Declare(scopes, name, value) == Front(scopes) \o <<(name :> value) @@ Last(scopes)>>

ScopesWith(scopes, name) == {depth \in DOMAIN scopes : name \in DOMAIN scopes[depth]}

InScope(scopes, name) == ScopesWith(scopes, name) # {}
Lookup(scopes, name)  == scopes[Max(ScopesWith(scopes, name))][name]

=============================================================================
