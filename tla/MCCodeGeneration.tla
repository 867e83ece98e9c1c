---------------------------- MODULE MCCodeGeneration ----------------------------
(***************************************************************************)
(* An instance of CodeGeneration: what FrontEnd makes of small files.  A   *)
(* byte has two bits, so an int has eight and a long sixteen.              *)
(***************************************************************************)
EXTENDS CodeGeneration

CONSTANT Names \* identifiers

MCLiterals == ("0" :> 0) @@ ("1" :> 1) @@ ("2" :> 2) @@ ("3" :> 3) @@ ("200" :> 200)
MCAnswers == <<5, 0, 254, 2>>
MCAllocatable == <<"rcx", "rsi", "rbx">>

\* The front end's operators; its state machine is not used here.
F == INSTANCE FrontEnd WITH
        Identifiers <- Names, Literals <- MCLiterals, CharConstants <- {}, Programs <- {},
        Verbose <- {}, Arguments <- {}, Answers <- <<>>, Fuel <- [source |-> 0, code |-> 0],
        parser <- <<>>, decls <- <<>>, turn <- 0, phase <- "parse", next <- 0, types <- <<>>,
        vars <- <<>>, ir <- <<>>

RECURSIVE DeclsFrom(_)
DeclsFrom(p) ==
    IF F!Check(p, "Eof") THEN <<>>
    ELSE LET decl == F!Decl(p, "top") IN <<decl.value>> \o DeclsFrom(decl.at)

Widths1(types) == [k \in DOMAIN types |-> F!WidthOf(types[k])]

SignatureOf(signature) ==
    [params  |-> Widths1(signature.params),
     returns |-> IF signature.returns = F!VoidType THEN <<>> ELSE Widths1(<<signature.returns>>)]

Analyzed(decls) ==
    FoldLeft(LAMBDA a, decl : F!AnalyzeNext(decl, a), F!RegisterFunctionSignatures(decls, F!NewAnalyzer), decls)

Handed(l, signatures) ==
    [functions |-> l.functions, name |-> "f", objects |-> l.objects, variables |-> l.vars.next,
     signatures |-> [name \in DOMAIN signatures |-> SignatureOf(signatures[name])]]

Lowering(decls, context) == FoldLeft(LAMBDA l, decl : F!LowerDecl(decl, l).at, context, decls)

CompiledFrom(decls, types, vars) == Handed(Lowering(decls, F!NewContext(types, vars)), types.functions)

Resolved(decls) == CompiledFrom(decls, Analyzed(decls), F!ResolveNames(decls).at)

Compiled(tokens) == Resolved(DeclsFrom(F!At(tokens, 1, 0, {})))

\* Definitions that meet, and such that do not.
Joins ==
    { <<"int", "f", "(", "int", "a", ",", "int", "b", ")", "{", "int", "c", ";", "if", "(", "a",
            ")", "c", "=", "b", ";", "else", "c", "=", "3", ";", "return", "c", "-", "a", ";", "}">>,
      <<"int", "f", "(", "int", "a", ",", "int", "b", ")", "{", "int", "c", ";", "int", "d", ";",
            "d", "=", "b", ";", "if", "(", "a", ")", "{", "c", "=", "b", "+", "1", ";", "d", "=", "2",
            ";", "}", "if", "(", "b", "<", "2", ")", "return", "d", ";", "if", "(", "a", ")", "return",
            "c", ";", "return", "d", ";", "}">>,
      <<"int", "f", "(", "int", "a", ",", "int", "b", ")", "{", "int", "c", "=", "1", ";", "if",
            "(", "a", ")", "{", "if", "(", "b", ")", "c", "=", "2", ";", "else", "return", "a", ";",
            "}", "else", "if", "(", "b", "<", "2", ")", "c", "=", "b", ";", "return", "c", "+", "a",
            ";", "}">>,
      <<"int", "g", "(", "int", ")", ";", "int", "f", "(", "int", "a", ",", "int", "b", ")", "{",
            "return", "(", "a", "&&", "g", "(", "b", ")", "||", "!", "b", ")", "-", "(", "a", "<", "b",
            "&&", "b", "<", "3", ")", ";", "}">> }

\* Values carried around loops, in turn and crosswise, and loops that are left early.
Loops ==
    { <<"int", "f", "(", "int", "a", ",", "int", "b", ")", "{", "int", "c", "=", "0", ";", "int",
            "d", "=", "1", ";", "int", "e", ";", "while", "(", "c", "<", "3", ")", "{", "e", "=", "d",
            ";", "d", "=", "a", ";", "a", "=", "e", ";", "c", "=", "c", "+", "1", ";", "}", "return",
            "a", "-", "d", "*", "2", "+", "b", ";", "}">>,
      <<"int", "g", "(", "int", ")", ";", "int", "f", "(", "int", "a", ")", "{", "int", "b", "=",
            "0", ";", "int", "c", "=", "a", ";", "while", "(", "1", ")", "{", "int", "d", "=", "c",
            ";", "b", "=", "b", "+", "1", ";", "if", "(", "g", "(", "b", ")", ")", "continue", ";",
            "c", "=", "d", "+", "b", ";", "if", "(", "b", ">", "a", ")", "break", ";", "}", "return",
            "c", "-", "b", ";", "}">>,
      <<"int", "g", "(", "int", ")", ";", "int", "f", "(", "int", "a", ")", "{", "for", "(", "int",
            "b", "=", "0", ";", "b", "<", "2", ";", "b", "=", "b", "+", "1", ")", "for", "(", "int",
            "c", "=", "b", ";", "c", "<", "2", ";", "c", "=", "c", "+", "1", ")", "{", "if", "(", "c",
            "==", "a", ")", "break", ";", "a", "=", "a", "+", "g", "(", "a", ")", ";", "}", "return",
            "a", ";", "}">>,
      <<"int", "f", "(", "int", "a", ",", "int", "b", ")", "{", "while", "(", "a", ">", "b", ")",
            "{", "if", "(", "a", "==", "3", ")", "a", "=", "b", ";", "else", "{", "b", "=", "b", "+",
            "1", ";", "if", "(", "b", "==", "2", ")", "a", "=", "a", "-", "1", ";", "}", "}", "return",
            "a", ";", "}">>,
      <<"int", "f", "(", "int", "a", ")", "{", "int", "b", ";", "int", "c", ";", "int", "d", ";",
            "b", "=", "0", ";", "c", "=", "1", ";", "d", "=", "2", ";", "while", "(", "a", ">", "0",
            ")", "{", "int", "e", "=", "b", ";", "b", "=", "c", ";", "c", "=", "d", ";", "d", "=", "e",
            ";", "a", "=", "a", "-", "1", ";", "if", "(", "a", "==", "1", ")", "{", "e", "=", "c", ";",
            "c", "=", "b", ";", "b", "=", "e", ";", "}", "}", "return", "b", "+", "c", "*", "3", "-",
            "d", ";", "}">> }

\* Variables that have an address, and storage that is not one value.
Memory ==
    { <<"int", "f", "(", "int", "a", ",", "int", "b", ")", "{", "int", "c", ";", "int", "*", "p",
            ";", "c", "=", "a", ";", "p", "=", "&", "b", ";", "*", "p", "=", "c", "+", "1", ";", "if",
            "(", "a", ")", "{", "p", "=", "&", "a", ";", "*", "p", "=", "2", ";", "}", "return", "a",
            "-", "b", ";", "}">>,
      <<"int", "f", "(", "int", "a", ",", "int", "b", ")", "{", "int", "c", "[", "2", "]", ";",
            "long", "d", ";", "c", "[", "0", "]", "=", "a", ";", "c", "[", "1", "]", "=", "b", ";",
            "d", "=", "c", "[", "0", "]", ";", "if", "(", "b", "<", "a", ")", "{", "c", "[", "0", "]",
            "=", "c", "[", "1", "]", ";", "c", "[", "1", "]", "=", "d", ";", "}", "return", "c", "[",
            "1", "]", "-", "c", "[", "0", "]", ";", "}">>,
      <<"struct", "S", "{", "char", "c", ";", "int", "d", ";", "}", ";", "int", "f", "(", "int",
            "a", ")", "{", "struct", "S", "s", ";", "struct", "S", "b", ";", "s", ".", "c", "=", "a",
            ";", "s", ".", "d", "=", "a", "+", "1", ";", "b", "=", "s", ";", "s", ".", "d", "=", "0",
            ";", "if", "(", "b", ".", "c", ")", "b", ".", "d", "=", "b", ".", "c", ";", "return", "b",
            ".", "d", ";", "}">>,
      <<"int", "f", "(", "int", "a", ",", "int", "*", "p", ")", "{", "int", "b", ";", "if", "(",
            "a", "==", "2", ")", "{", "*", "p", "=", "*", "p", "+", "1", ";", "return", "0", ";",
            "}", "b", "=", "a", ";", "while", "(", "b", "<", "3", ")", "{", "f", "(", "2", ",", "&",
            "b", ")", ";", "b", "=", "b", "+", "1", ";", "}", "return", "b", "-", "a", ";", "}">>,
      <<"int", "f", "(", "int", "a", ",", "int", "b", ")", "{", "int", "c", "[", "3", "]", ";",
            "char", "p", "[", "3", "]", ";", "c", "[", "0", "]", "=", "a", ";", "c", "[", "1", "]",
            "=", "3", ";", "p", "[", "1", "]", "=", "0", ";", "p", "[", "b", "&", "1", "]", "=",
            "1", ";", "c", "[", "p", "[", "1", "]", "]", "=", "a", "+", "200", ";", "return", "c",
            "[", "0", "]", "-", "c", "[", "1", "]", ";", "}">>,
      <<"int", "f", "(", "int", "a", ",", "int", "b", ")", "{", "char", "p", "[", "3", "]", ";",
            "p", "[", "1", "]", "=", "a", ";", "p", "[", "2", "]", "=", "b", ";", "return", "(",
            "a", "<<", "(", "p", "[", "2", "]", "&", "3", ")", ")", "-", "p", "[", "1", "]", ";",
            "}">> }

\* Values that are narrower than a word.
Widths ==
    { <<"int", "f", "(", "int", "a", ",", "int", "b", ")", "{", "int", "c", "=", "a", "+", "1", ";",
            "int", "d", "=", "a", "-", "b", ";", "int", "e", "=", "c", "+", "d", ";", "while", "(",
            "a", "<", "3", ")", "{", "a", "=", "a", "+", "(", "c", "<<", "(", "b", "&", "3", ")",
            ")", ";", "e", "=", "e", "-", "(", "d", ">>", "c", ")", ";", "c", "=", "c", "+", "1",
            ";", "}", "return", "e", "*", "d", "-", "c", "+", "b", ";", "}">>,
      <<"long", "f", "(", "char", "a", ",", "unsigned", "int", "b", ")", "{", "unsigned", "char",
            "c", ";", "long", "d", ";", "c", "=", "a", "-", "1", ";", "d", "=", "c", ";", "while", "(",
            "d", ">", "3", ")", "{", "d", "=", "d", "-", "b", ";", "b", "=", "b", ">>", "1", ";", "c",
            "=", "c", "+", "1", ";", "if", "(", "!", "b", ")", "b", "=", "200", ";", "if", "(", "c",
            "==", "3", ")", "return", "d", ";", "}", "return", "d", "+", "c", ";", "}">>,
      <<"long", "h", "(", "char", ",", "unsigned", "int", ")", ";", "int", "f", "(", "int", "a",
            ",", "int", "b", ")", "{", "char", "c", ";", "c", "=", "b", ";", "return", "h", "(", "a",
            "+", "200", ",", "b", ")", "+", "h", "(", "c", ",", "3", ")", "-", "c", ";", "}">>,
      <<"unsigned", "int", "f", "(", "unsigned", "int", "a", ",", "int", "b", ")", "{", "if", "(",
            "b", "<", "0", ")", "b", "=", "-", "b", ";", "if", "(", "!", "b", ")", "return", "a", "<<",
            "1", ";", "return", "(", "a", "/", "b", "<<", "(", "b", "&", "3", ")", ")", "|", "(", "a",
            ">", "200", ")", "^", "~", "(", "unsigned", "int", ")", "b", ";", "}">> }

\* Many arguments, calls within arguments, recursion, and no way home by return.
Calls ==
    { <<"int", "f", "(", "int", "a", ",", "int", "b", ",", "int", "c", ",", "int", "d", ",", "int",
            "e", ",", "int", "g", ",", "long", "s", ")", "{", "if", "(", "a", ">", "2", ")",
            "return", "s", "+", "d", "-", "e", ";", "return", "f", "(", "3", ",", "c", ",", "b",
            ",", "g", ",", "e", ",", "d", ",", "b", "+", "200", ")", "-", "a", "+", "b", ";", "}">>,
      <<"int", "g", "(", "int", ")", ";", "int", "f", "(", "int", "a", ",", "int", "b", ")", "{",
            "return", "g", "(", "a", "+", "g", "(", "b", ")", ")", "-", "g", "(", "g", "(", "1", ")",
            ")", ";", "}">>,
      <<"int", "f", "(", "int", "a", ")", "{", "if", "(", "a", "<", "1", ")", "return", "1", ";",
            "if", "(", "a", ">", "3", ")", "return", "0", ";", "return", "a", "*", "f", "(", "a", "-",
            "1", ")", ";", "}">>,
      <<"int", "h", "(", "int", "a", ",", "int", "b", ",", "int", "c", ",", "int", "d", ",", "int",
            "e", ",", "int", "g", ",", "char", "p", ",", "long", "s", ")", ";", "int", "f", "(", "int",
            "a", ",", "char", "b", ")", "{", "return", "h", "(", "1", ",", "a", ",", "b", ",", "2",
            ",", "b", ",", "a", ",", "b", "-", "1", ",", "a", ")", "+", "b", ";", "}">>,
      <<"int", "setjmp", "(", "int", ")", ";", "int", "f", "(", "int", "a", ",", "int", "b", ")",
            "{", "int", "c", "=", "1", ";", "if", "(", "setjmp", "(", "a", ")", ")", "c", "=", "b",
            ";", "else", "b", "=", "c", ";", "return", "c", "-", "b", ";", "}">>,
      <<"void", "h", "(", "int", ")", ";", "void", "f", "(", "int", "a", ",", "int", "b", ")", "{",
            "if", "(", "a", "<", "b", ")", "{", "h", "(", "a", ")", ";", "return", ";", "}", "while",
            "(", "b", ")", "{", "b", "=", "b", ">>", "1", ";", "if", "(", "b", ">", "2", ")", "b", "=",
            "2", ";", "h", "(", "b", ")", ";", "}", "}">>,
      <<"int", "f", "(", "int", "a", ")", "{", "while", "(", "a", ")", "{", "a", "=", "a", "-",
            "1", ";", "if", "(", "a", "<", "0", ")", "a", "=", "3", ";", "}", "for", "(", ";", ";",
            ")", "if", "(", "a", "==", "2", ")", "return", "1", ";", "else", "a", "=", "a", "+", "1",
            ";", "}">> }

MCPrograms == {Compiled(tokens) : tokens \in UNION {Joins, Loops, Memory, Widths, Calls}}
=============================================================================
