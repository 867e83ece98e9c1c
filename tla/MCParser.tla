------------------------------ MODULE MCParser ------------------------------
(***************************************************************************)
(* An instance of Parser: files with syntax errors.                        *)
(***************************************************************************)
EXTENDS Parser

MCLiterals == [word \in {"0", "1"} |-> IF word = "0" THEN 0 ELSE 1]

Main(body) == <<"int", "f", "(", ")", "{">> \o body \o <<"}">>

MCPrograms ==
    { \* an error in a declaration, one in a statement, and a good declaration
      <<"int", "=", ";", "int", "f", "(", ")", ";">>,
      Main(<<"x", "=", ")", ";", "return", "1", ";">>) \o <<"int", "f", "(", ")", ";">>,
      \* one closing brace too many
      Main(<<"return", "0", ";">>) \o <<"}", "int", "f", "(", ")", ";">>,
      \* a statement that cannot begin, behind one that ended
      Main(<<"x", "=", "1", ";", ")", ";">>),
      \* a block that the file ends in
      Main(<<"x", "=", "1", ";">>) \o <<"int", "f", "(", ")", "{">> }

=============================================================================
