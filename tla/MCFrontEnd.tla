----------------------------- MODULE MCFrontEnd -----------------------------
(***************************************************************************)
(* Small files for FrontEnd.  A byte has two bits, so an int has eight and *)
(* a long sixteen.                                                         *)
(***************************************************************************)
EXTENDS FrontEnd

MCLiterals ==
    ("0" :> 0) @@ ("1" :> 1) @@ ("2" :> 2) @@ ("3" :> 3) @@ ("200" :> 200) @@ ("'c'" :> 3)

MCFuel == [source |-> 12, code |-> 400]
MCAnswers == <<5, 0, 254, 2>>

Function(name, type, params, body) == type \o <<name, "(">> \o params \o <<")", "{">> \o body \o <<"}">>
AnInt == <<"int">>
Params(s, t) == s \o <<"a", ",">> \o t \o <<"b">>
Returning(e) == <<"return">> \o e \o <<";">>

\* Two operators side by side.
Operators2 == {"-", "/", "<<", "<", "==", "&", "|", "&&", "||", "="}
Mixed ==
    {Function("f", AnInt, Params(AnInt, AnInt),
              <<"int", "c", ";", "c", "=", "3", ";">> \o Returning(<<"c", op1, "a", op2, "b">>)) :
        op1 \in Operators2, op2 \in Operators2}

\* Operands of two types.
Types == {<<"char">>, <<"unsigned", "char">>, <<"int">>, <<"unsigned", "int">>, <<"long">>,
          <<"unsigned", "long">>}
Conversions ==
    {Function("f", <<"long">>, Params(s, t), Returning(<<"a", op, "b">>)) :
        s \in Types, t \in Types, op \in {"+", "/", ">>", "<"}}

\* A name means the innermost declaration before it, also in its own initializer.
Scoping ==
    { <<"int", "f", "(", "int", "a", ",", "int", "b", ")", "{", "int", "c", ";", "c", "=", "a",
            ";", "{", "int", "a", "=", "b", ";", "c", "=", "c", "-", "a", ";", "{", "long", "c", ";",
            "c", "=", "a", ";", "a", "=", "c", "+", "c", ";", "}", "c", "=", "c", "+", "a", ";", "}",
            "return", "c", "-", "a", ";", "}">>,
      <<"int", "f", "(", "int", "a", ")", "{", "int", "c", "=", "0", ";", "for", "(", "char", "a",
            "=", "0", ";", "a", "<", "3", ";", "a", "=", "a", "+", "1", ")", "c", "=", "c", "+", "a",
            ";", "return", "c", "-", "a", ";", "}">>,
      <<"int", "f", "(", "int", "a", ")", "{", "for", "(", "char", "b", "=", "0", ";", "b", "<",
            "2", ";", "b", "=", "b", "+", "1", ")", "{", "long", "b", "=", "a", ";", "a", "=", "b",
            "+", "1", ";", "}", "return", "a", ";", "}">>,
      <<"int", "f", "(", "int", "a", ")", "{", "if", "(", "a", ")", "{", "int", "a", "=", "2", ";",
            "a", "=", "3", ";", "}", "else", "{", "int", "a", ";", "}", "{", "int", "b", "=", "a", ";",
            "return", "b", ";", "}", "}">> }

\* Leaving a loop, going on with it, and loops inside one another.
Loops ==
    { <<"int", "g", "(", "int", ")", ";", "int", "f", "(", "int", "a", ")", "{", "for", "(", "int",
            "b", "=", "0", ";", "b", "<", "3", ";", "b", "=", "b", "+", "1", ")", "{", "if", "(", "b",
            "==", "a", ")", "continue", ";", "g", "(", "b", ")", ";", "}", "return", "0", ";", "}">>,
      <<"int", "g", "(", "int", ")", ";", "int", "f", "(", "int", "a", ")", "{", "int", "b", "=",
            "0", ";", "while", "(", "1", ")", "{", "b", "=", "b", "+", "1", ";", "if", "(", "b", ">",
            "a", ")", "break", ";", "if", "(", "g", "(", "b", ")", ")", "continue", ";", "for", "(",
            ";", ";", ")", "{", "if", "(", "b", "<", "2", ")", "break", ";", "return", "b", ";", "}",
            "}", "return", "b", "-", "3", ";", "}">>,
      <<"int", "g", "(", "int", ")", ";", "int", "f", "(", "int", "a", ")", "{", "int", "b", ";",
            "for", "(", "b", "=", "0", ";", "b", "<", "a", "&&", "g", "(", "b", ")", ";", "b", "=",
            "b", "+", "1", ")", ";", "return", "b", ";", "}">>,
      <<"int", "g", "(", "int", ")", ";", "void", "h", "(", "void", ")", ";", "int", "f", "(",
            "int", "a", ")", "{", "while", "(", "a", ")", "if", "(", "g", "(", "a", ")", ")", "if",
            "(", "a", ">", "1", ")", "a", "=", "1", ";", "else", "break", ";", "else", "return", "a",
            ";", "return", "g", "(", "a", ")", ";", "}">>,
      <<"int", "g", "(", "int", ")", ";", "int", "f", "(", "int", "a", ")", "{", "for", "(", "int",
            "b", "=", "a", ";", "b", ";", ")", "{", "b", "=", "b", ">>", "1", ";", "{", "if", "(", "g",
            "(", "b", ")", "<", "0", ")", "continue", ";", "}", "a", "=", "a", "+", "b", ";", "}",
            "return", "a", ";", "}">> }

\* Structs and arrays, by name and through pointers.
Objects ==
    { <<"struct", "S", "{", "char", "c", ";", "int", "d", ";", "char", "e", ";", "}", ";", "int",
            "f", "(", "int", "a", ")", "{", "struct", "S", "s", ";", "struct", "S", "b", ";", "s", ".",
            "c", "=", "a", ";", "s", ".", "d", "=", "a", "+", "1", ";", "s", ".", "e", "=", "3", ";",
            "b", "=", "s", ";", "s", ".", "d", "=", "0", ";", "return", "b", ".", "c", "+", "b", ".",
            "d", "-", "b", ".", "e", "+", "s", ".", "d", ";", "}">>,
      <<"struct", "S", "{", "char", "c", ";", "long", "d", ";", "}", ";", "struct", "T", "{",
            "char", "e", ";", "struct", "S", "s", "[", "2", "]", ";", "}", ";", "int", "f", "(", "int",
            "a", ")", "{", "struct", "T", "h", ";", "struct", "S", "b", ";", "h", ".", "s", "[", "0",
            "]", ".", "c", "=", "1", ";", "h", ".", "s", "[", "0", "]", ".", "d", "=", "2", ";", "h",
            ".", "e", "=", "3", ";", "h", ".", "s", "[", "1", "]", ".", "d", "=", "a", ";", "h", ".",
            "s", "[", "1", "]", ".", "c", "=", "2", ";", "b", "=", "h", ".", "s", "[", "1", "]", ";",
            "h", ".", "s", "[", "0", "]", "=", "b", ";", "return", "h", ".", "s", "[", "0", "]", ".",
            "d", "+", "h", ".", "e", "+", "h", ".", "s", "[", "0", "]", ".", "c", ";", "}">>,
      <<"struct", "S", "{", "char", "c", ";", "int", "d", ";", "}", ";", "struct", "T", "{",
            "char", "e", ";", "struct", "S", "s", ";", "char", "h", "[", "3", "]", ";", "}", ";",
            "int", "f", "(", "int", "a", ",", "int", "b", ")", "{", "struct", "T", "c", ";", "struct",
            "T", "d", ";", "struct", "S", "*", "p", ";", "p", "=", "&", "c", ".", "s", ";", "p", "->",
            "d", "=", "a", ";", "(", "*", "p", ")", ".", "c", "=", "b", ";", "c", ".", "h", "[", "2",
            "]", "=", "1", ";", "c", ".", "h", "[", "1", "]", "=", "2", ";", "c", ".", "h", "[", "0",
            "]", "=", "3", ";", "c", ".", "e", "=", "1", ";", "d", "=", "c", ";", "p", "->", "d", "=",
            "0", ";", "return", "d", ".", "s", ".", "d", "+", "d", ".", "s", ".", "c", "+", "d", ".",
            "h", "[", "2", "]", "+", "d", ".", "h", "[", "0", "]", "-", "d", ".", "e", "+", "c", ".",
            "s", ".", "d", ";", "}">>,
      <<"struct", "S", "{", "char", "c", ";", "int", "d", ";", "char", "e", ";", "}", ";", "int",
            "f", "(", "int", "a", ")", "{", "struct", "S", "s", "[", "2", "]", ";", "struct", "S", "b",
            ";", "s", "[", "1", "]", ".", "c", "=", "1", ";", "s", "[", "1", "]", ".", "d", "=", "a",
            ";", "b", ".", "c", "=", "2", ";", "b", ".", "d", "=", "3", ";", "b", ".", "e", "=", "a",
            ";", "s", "[", "0", "]", "=", "b", ";", "return", "s", "[", "0", "]", ".", "e", "+", "s",
            "[", "0", "]", ".", "d", "-", "s", "[", "1", "]", ".", "c", "-", "s", "[", "1", "]", ".",
            "d", ";", "}">>,
      <<"struct", "S", "{", "int", "d", ";", "struct", "S", "*", "s", ";", "}", ";", "int", "f",
            "(", "int", "a", ")", "{", "struct", "S", "b", ";", "struct", "S", "c", ";", "b", ".", "d",
            "=", "a", ";", "c", ".", "d", "=", "2", ";", "b", ".", "s", "=", "&", "c", ";", "c", ".",
            "s", "=", "&", "b", ";", "b", ".", "s", "->", "d", "=", "3", ";", "return", "c", ".", "s",
            "->", "d", "+", "b", ".", "s", "->", "s", "->", "s", "->", "d", ";", "}">>,
      <<"struct", "S", "{", "char", "c", ";", "}", ";", "int", "f", "(", "int", "a", ",", "int",
            "b", ")", "{", "struct", "S", "s", "[", "3", "]", ";", "int", "c", "=", "0", ";", "s", "[",
            "2", "]", ".", "c", "=", "1", ";", "s", "[", "1", "]", ".", "c", "=", "b", ";", "s", "[",
            "0", "]", ".", "c", "=", "2", ";", "if", "(", "a", "<", "0", ")", "return", "0", ";", "if",
            "(", "a", ">", "2", ")", "return", "1", ";", "c", "=", "s", "[", "a", "]", ".", "c", ";",
            "s", "[", "a", "]", ".", "c", "=", "3", ";", "return", "c", "+", "s", "[", "0", "]", ".",
            "c", "+", "s", "[", "1", "]", ".", "c", "+", "s", "[", "2", "]", ".", "c", ";", "}">>,
      <<"int", "f", "(", "int", "a", ",", "int", "b", ")", "{", "int", "c", "[", "3", "]", ";",
            "long", "d", "[", "2", "]", ";", "int", "*", "p", ";", "c", "[", "0", "]", "=", "a", ";",
            "c", "[", "1", "]", "=", "b", ";", "c", "[", "2", "]", "=", "3", ";", "d", "[", "c", "[",
            "2", "]", "-", "3", "]", "=", "1", ";", "d", "[", "1", "]", "=", "a", ";", "p", "=", "&",
            "c", "[", "1", "]", ";", "*", "p", "=", "*", "p", "+", "d", "[", "0", "]", ";", "p", "=",
            "&", "*", "p", ";", "return", "c", "[", "0", "]", "-", "c", "[", "1", "]", "+", "c", "[",
            "2", "]", "+", "d", "[", "1", "]", "+", "*", "p", ";", "}">>,
      <<"int", "f", "(", "int", "a", ",", "int", "b", ")", "{", "char", "c", ";", "char", "*", "p",
            ";", "int", "*", "s", "[", "2", "]", ";", "c", "=", "a", ";", "p", "=", "&", "c", ";", "*",
            "p", "=", "*", "p", "+", "1", ";", "s", "[", "0", "]", "=", "&", "a", ";", "s", "[", "1",
            "]", "=", "&", "b", ";", "*", "s", "[", "1", "]", "=", "*", "s", "[", "0", "]", "+", "c",
            ";", "return", "*", "s", "[", "1", "]", "-", "b", "+", "c", ";", "}">> }

\* Functions of the file and of its environment.
Calls ==
    { <<"int", "g", "(", "int", ")", ";", "int", "f", "(", "int", "a", ",", "int", "b", ")", "{",
            "return", "g", "(", "a", "+", "g", "(", "b", ")", ")", "-", "g", "(", "g", "(", "1", ")",
            ")", ";", "}">>,
      <<"long", "h", "(", "char", "a", ",", "unsigned", "int", "b", ")", "{", "return", "a", "-",
            "b", ";", "}", "int", "f", "(", "int", "a", ",", "int", "b", ")", "{", "return", "h", "(",
            "a", "+", "200", ",", "b", ")", "+", "h", "(", "b", ",", "3", ")", ";", "}">>,
      <<"int", "f", "(", "int", "a", ")", "{", "if", "(", "a", "<", "1", ")", "return", "1", ";",
            "if", "(", "a", ">", "3", ")", "return", "0", ";", "return", "a", "*", "f", "(", "a", "-",
            "1", ")", ";", "}">>,
      <<"int", "h", "(", "int", "*", "a", ",", "int", "b", ")", ";", "int", "f", "(", "int", "a",
            ")", "{", "int", "b", "=", "2", ";", "h", "(", "&", "b", ",", "a", ")", ";", "return", "b",
            ";", "}", "int", "h", "(", "int", "*", "a", ",", "int", "b", ")", "{", "if", "(", "b", "<",
            "1", ")", "return", "0", ";", "if", "(", "b", ">", "2", ")", "return", "0", ";", "*", "a",
            "=", "*", "a", "+", "b", ";", "return", "h", "(", "a", ",", "b", "-", "1", ")", ";", "}">>,
      <<"unsigned", "char", "g", "(", "char", ",", "unsigned", "long", ")", ";", "int", "f", "(",
            "int", "a", ")", "{", "char", "b", "=", "g", "(", "a", ",", "a", "-", "1", ")", ";",
            "return", "g", "(", "b", ",", "'c'", ")", "+", "b", ";", "}">>,
      <<"void", "h", "(", "int", "*", "p", ")", "{", "if", "(", "*", "p", ")", "{", "*", "p", "=",
            "0", ";", "return", ";", "}", "*", "p", "=", "3", ";", "}", "int", "f", "(", "int", "a",
            ")", "{", "h", "(", "&", "a", ")", ";", "return", "a", ";", "}">> }

\* Short circuits, unary operators, casts and constants.
Operators ==
    { <<"int", "g", "(", "int", ")", ";", "int", "f", "(", "int", "a", ",", "int", "b", ")", "{",
            "return", "(", "g", "(", "a", ")", "&&", "a", "<", "b", "||", "!", "g", "(", "b", ")", ")",
            "+", "(", "a", "||", "b", ")", "+", "(", "a", "&&", "g", "(", "1", ")", ")", ";", "}">>,
      <<"int", "f", "(", "int", "a", ",", "unsigned", "char", "b", ")", "{", "char", "c", ";", "c",
            "=", "'c'", ";", "return", "-", "a", "+", "~", "b", "-", "-", "c", "+", "!", "a", "-", "!",
            "!", "b", "+", "(", "char", ")", "a", "+", "(", "unsigned", "char", ")", "c", "+", "(",
            "a", ">", "200", ")", ";", "}">>,
      <<"long", "f", "(", "int", "a", ",", "char", "b", ")", "{", "unsigned", "int", "c", ";",
            "long", "d", ";", "unsigned", "char", "e", ";", "d", "=", "c", "=", "e", "=", "a", "-",
            "1", ";", "return", "(", "d", "+", "c", ")", "/", "3", "-", "(", "e", "<<", "2", ")", "+",
            "(", "b", ">>", "1", ")", "+", "~", "(", "unsigned", "long", ")", "b", "+", "0", ";", "}">>,
      <<"int", "f", "(", "int", "a", ",", "int", "b", ")", "{", "return", "a", "/", "b", "*", "b",
            "-", "2", "-", "(", "a", "-", "(", "b", "-", "1", ")", ")", "*", "3", "+", "(", "a", "|",
            "b", "&", "3", "^", "1", ")", "+", "(", "a", "==", "b", "<", "2", ")", ";", "}">>,
      <<"int", "f", "(", "int", "a", ")", "{", "unsigned", "long", "b", ";", "b", "=", "a", ";",
            "if", "(", "b", ")", "return", "(", "int", ")", "b", ";", "if", "(", "!", "a", ")", "{",
            "b", "=", "200", ";", "}", "while", "(", "a", "-", "1", "&&", "b", ">", "3", ")", "b", "=",
            "b", "-", "1", ";", "return", "b", "/", "2", ";", "}">> }

\* What a later phase stops on.
Broken ==
    { <<"int", "f", "(", "int", "a", ")", "{", "return", "a", "%", "2", ";", "}">>,
      <<"int", "f", "(", "int", "a", ")", "{", "a", "++", ";", "return", "a", ";", "}">>,
      <<"int", "f", "(", "int", "a", ")", "{", "--", "a", ";", "return", "a", ";", "}">>,
      <<"int", "a", ";", "int", "f", "(", "int", "b", ")", "{", "return", "b", ";", "}">>,
      <<"int", "f", "(", "int", ")", "{", "return", "0", ";", "}">>,
      <<"int", "g", "(", "int", "a", ",", "int", "a", ")", ";", "int", "f", "(", "int", "a", ")",
            "{", "return", "g", "(", "a", ",", "a", ")", ";", "}">>,
      <<"struct", "S", "{", "int", "d", ";", "}", ";", "int", "f", "(", "int", "a", ")", "{",
            "struct", "S", "s", ";", "struct", "S", "*", "p", ";", "p", "=", "&", "s", ";", "*", "p",
            ";", "return", "a", ";", "}">>,
      <<"struct", "S", "{", "int", "d", ";", "}", ";", "int", "f", "(", "int", "a", ")", "{",
            "struct", "S", "s", ";", "s", ".", "d", "=", "1", ";", "return", "(", "int", ")", "s", ";",
            "}">> }

\* What semantic analysis reports, and the parser.
Rejected ==
    { <<"int", "f", "(", "int", "a", ")", "{", "return", "b", ";", "}">>,
      <<"int", "f", "(", "int", "a", ")", "{", "int", "b", "[", "'c'", "]", ";", "return", "a",
            ";", "}">>,
      <<"int", "f", "(", "int", "a", ")", "{", "break", ";", "}">>,
      <<"int", "f", "(", "int", "a", ")", "{", "int", "b", ";", "int", "b", ";", "return", "0",
            ";", "}", "int", "f", "(", "int", "a", ")", "{", "return", "c", ";", "}">>,
      <<"int", "f", "(", "int", "a", ")", "{", "return", "g", "(", "a", ")", ";", "}", "int", "h",
            "(", "int", "a", ")", "{", "if", "(", "a", ")", "continue", ";", "return", "a", "=", "1",
            "+", "f", "(", "a", ",", "2", ")", ";", "}">>,
      <<"struct", "S", "{", "struct", "S", "s", ";", "}", ";", "int", "f", "(", "int", "a", ")",
            "{", "struct", "S", "s", ";", "return", "s", ".", "d", ";", "}">>,
      <<"struct", "S", "{", "int", "d", ";", "int", "d", ";", "}", ";", "struct", "T", "{", "int",
            "d", ";", "}", ";", "int", "f", "(", "int", "a", ")", "{", "struct", "T", "s", ";",
            "return", "s", ".", "e", "+", "s", ";", "}">>,
      <<"int", "f", "(", "int", "a", ",", "int", "a", ")", "{", "return", "0", ";", "}", "int",
            "g", "(", "int", "b", ")", "{", "return", "a", ";", "}">>,
      <<"int", "f", "(", "int", "a", ")", "{", "int", "*", "p", ";", "struct", "S", "*", "s", ";",
            "p", "=", "a", ";", "a", "=", "p", ";", "1", "=", "a", ";", "&", "1", ";", "*", "a", ";",
            "a", "[", "1", "]", ";", "p", ".", "d", ";", "s", "->", "d", ";", "sizeof", "(", "a", ")",
            ";", "extern", "int", "b", ";", "int", "c", "[", "]", ";", "int", "d", "[", "2", "]", "=",
            "1", ";", "void", "e", ";", "return", "p", ";", "}">>,
      <<"extern", "int", "a", ";", "int", "f", "(", "struct", "S", "s", ")", "{", "return", "0",
            ";", "}", "int", "g", "[", "2", "]", "(", "int", "a", ")", ";">>,
      <<"extern", "struct", "S", "{", "int", "d", ";", "}", ";", "struct", "{", "int", "d", ";",
            "}", ";", "struct", "T", ";", "int", "f", "(", "int", "a", ")", "{", "for", "(", "1", "=",
            "2", ";", ";", ")", ";", "while", "(", "f", ")", ";", "if", "(", "1", ")", "2", "(", "a",
            ")", ";", "return", "0", ";", "}", "int", "f", "(", "long", "a", ")", ";">>,
      <<"int", "f", "(", "{", "return", "0", ";", "}", "int", "g", "(", "int", "a", ")", "{",
            "return", "1", "+", ";", "}", "int", "h", "(", "int", "a", ")", "{", "int", "=", "1", ";",
            "return", "a", ";", "}">>,
      <<"int", "f", "(", "int", "a", ")", "{", "a", "=", "1", ";", ")", ";", "}">>,
      <<"signed", "void", "f", "(", "int", "a", ")", "{", "return", ";", "}">> }

\* Types and expressions in more words than they need.
Wordy ==
    { <<"signed", "int", "f", "(", "long", "int", "a", ",", "unsigned", "b", ")", "{", "unsigned",
            "long", "int", "c", ";", "signed", "d", ";", "c", "=", "(", "a", ")", ";", "d", "=", "(",
            "(", "b", ")", "+", "(", "long", "int", ")", "(", "c", ")", ")", ";", "return", "(", "d",
            ")", "-", "1", ";", "}">>,
      <<"int", "f", "(", "signed", "char", "a", ",", "signed", "long", "b", ")", "{", "return",
            "(", "(", "a", ")", ")", "*", "(", "(", "unsigned", "long", "int", ")", "b", "+", "1", ")",
            ";", "}">> }

MCPrograms == UNION {Mixed, Conversions, Scoping, Loops, Objects, Calls, Operators, Broken, Rejected, Wordy}
MCVerbose  == Wordy

\* Arrays of arrays.
NestedArrays ==
    { <<"int", "a", "[", "2", "]", "[", "3", "]", ";">>,
      Function("f", AnInt, <<"int", "a">>,
               <<"long", "b", "[", "2", "]", "[", "3", "]", ";">> \o Returning(<<"a">>)) }
NoPrograms == {}
=============================================================================
