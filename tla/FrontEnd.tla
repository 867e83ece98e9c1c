------------------------------ MODULE FrontEnd ------------------------------
(***************************************************************************)
(* From the tokens of a file to three-address code: the phases of run in   *)
(* driver/mod.rs up to the optimiser, one step for each turn of a phase's  *)
(* loop over the declarations.                                             *)
(***************************************************************************)
EXTENDS Parser, Semantic, Renamer, Lowering, SourceMeaning

CONSTANTS Verbose,   \* the programs that say something in more words than needed
          Arguments, \* what functions are called with
          Answers,   \* what functions that are not defined in the file answer
          Fuel       \* turns of loops and calls a run may take, and instructions

ASSUME FrontEndAssumption ==
    /\ Verbose \subseteq Programs
    /\ Arguments \subseteq Nat /\ Answers \in Seq(Nat)
    /\ Fuel \in [source : Nat, code : Nat]

VARIABLES
    phase, \* what runs: a phase, or how the compiler ended
    next,  \* the declaration that is up
    types, \* the analyzer
    vars,  \* the renamer
    ir     \* the lowering context

compiler == <<phase, next, types, vars, ir>>
all == <<parser, decls, turn, compiler>>

FrontEndInit ==
    /\ ParserInit
    /\ phase = "parse" /\ next = 1
    /\ types = NewAnalyzer
    /\ vars = NewRenamer
    /\ ir = NewContext(NewAnalyzer, NewRenamer)

\* diagnostics.panic(): a phase that reported anything is the last.
EndOfFile ==
    /\ phase = "parse" /\ Finished
    /\ phase' = IF parser.errors = {} THEN "register" ELSE "rejected"
    /\ UNCHANGED <<parsing, next, types, vars, ir>>

RegisterSignatures ==
    /\ phase = "register"
    /\ types' = RegisterFunctionSignatures(decls, types)
    /\ phase' = "analyze" /\ next' = 1
    /\ UNCHANGED <<parsing, vars, ir>>

AnalyzeDeclaration ==
    /\ phase = "analyze" /\ next <= Len(decls)
    /\ types' = AnalyzeNext(decls[next], types)
    /\ next' = next + 1
    /\ UNCHANGED <<parsing, phase, vars, ir>>

EndOfAnalysis ==
    /\ phase = "analyze" /\ next > Len(decls)
    /\ phase' = IF types.errors = <<>> THEN "rename" ELSE "rejected"
    /\ UNCHANGED <<parsing, next, types, vars, ir>>

\* A program that is refused here is a bug of the compiler.
ResolveProgram ==
    /\ phase = "rename"
    /\ \E resolved \in {ResolveNames(decls)} :
          /\ vars' = resolved.at
          /\ phase' = IF resolved.is = "ok" THEN "lower" ELSE "broken"
          /\ ir' = NewContext(types, resolved.at)
    /\ next' = 1
    /\ UNCHANGED <<parsing, types>>

LowerDeclarationUp ==
    /\ phase = "lower" /\ next <= Len(decls)
    /\ \E lowered \in {LowerDecl(decls[next], ir)} :
          /\ ir' = lowered.at
          /\ phase' = IF lowered.is = "ok" THEN "lower" ELSE "broken"
    /\ next' = next + 1
    /\ UNCHANGED <<parsing, types, vars>>

EndOfLowering ==
    /\ phase = "lower" /\ next > Len(decls)
    /\ phase' = "lowered"
    /\ UNCHANGED <<parsing, next, types, vars, ir>>

\* parse_translation_unit.
ReadDeclaration == phase = "parse" /\ ParseDeclaration /\ UNCHANGED compiler
Recover         == phase = "parse" /\ RecoverAtTopLevel /\ UNCHANGED compiler
Spin            == phase = "parse" /\ SpinInBlock /\ UNCHANGED compiler

Ended == phase \in {"rejected", "broken", "lowered"} /\ UNCHANGED all

FrontEndNext ==
    \/ ReadDeclaration \/ Recover \/ Spin \/ EndOfFile \/ RegisterSignatures \/ AnalyzeDeclaration
    \/ EndOfAnalysis \/ ResolveProgram \/ LowerDeclarationUp \/ EndOfLowering \/ Ended

FrontEndSpec == FrontEndInit /\ [][FrontEndNext]_all

-----------------------------------------------------------------------------
\* Parsing: the declarations, written as C writes them, are the file again.
\* What an operator takes for its operands, which `if' an `else' belongs to
\* and what a declarator declares all show in it (parse_binary_expr's table,
\* parse_assignment, at_cast, specifier_length, parse_declarator).
TreesSpellTheFile ==
    (phase = "register" /\ parser.tokens \notin Verbose) => Spelled(decls) = parser.tokens

-----------------------------------------------------------------------------
\* Every struct that is laid out keeps its members apart, each where its type
\* may stand, also when it stands in an array (StructTable::lay_out; the
\* chunks of a copy and the offsets of member_offset rely on it).
MembersDoNotOverlap ==
    \A tag \in DOMAIN types.structs :
        LET layout == types.structs[tag]
            End(m) == m.offset + SizeOf(types.structs, m.type)
        IN  /\ layout.size % layout.align = 0
            /\ \A k \in DOMAIN layout.members :
                  LET m == layout.members[k]
                  IN  /\ m.offset % AlignOf(types.structs, m.type) = 0
                      /\ layout.align % AlignOf(types.structs, m.type) = 0
                      /\ End(m) <= layout.size
                      /\ \A j \in 1..(k - 1) : End(layout.members[j]) <= m.offset

-----------------------------------------------------------------------------
\* Semantic analysis and renaming walk the tree with scopes of their own: the
\* variable a name is bound to is one whose declared type analysis gave the
\* name, and every declaration has a variable to itself.
NamesMeanTheSame ==
    phase = "lower" =>
        /\ \A e \in DOMAIN vars.exprToVar :
              \E d \in DOMAIN vars.declToVar :
                 /\ vars.declToVar[d] = vars.exprToVar[e]
                 /\ types.decls[d] = types.exprs[e]
        /\ IsInjective(vars.declToVar)

-----------------------------------------------------------------------------
\* The constructs semantic analysis lets through and a later phase stops on.
IsDiscardedStruct(stmt) ==
    /\ stmt.kind = "expr" /\ stmt.kids[1].kind # "binary"
    /\ IsStruct(types.exprs[stmt.kids[1].id])

IsGap(node) ==
    \/ node.kind = "binary" /\ node.name = "%"
    \/ node.kind = "unary" /\ node.name \in {"preinc", "predec", "postinc", "postdec"}
    \/ node.kind = "cast" /\ IsAggregate(types.exprs[node.kids[1].id])
    \/ IsDiscardedStruct(node)

IsGapAtTheTop(decl) ==
    \/ decl.kind \in {"variable", "extern"}
    \/ /\ decl.kind = "function"
       /\ LET names == [k \in 1..(Len(decl.kids) - 1) |-> decl.kids[k].name]
          IN  \/ IsDefinition(decl) /\ Contains(names, NoName)
              \/ ~IsDefinition(decl) /\ \E j, k \in DOMAIN names : j # k /\ names[j] = names[k] /\ names[j] # NoName

\* `Unsupported syntax is rejected here rather than crashing a later phase'
\* (semantic.rs, Type): it is, but for these.
BreaksOnlyAtKnownGaps ==
    phase = "broken" =>
        \E decl \in ToSet(decls) : IsGapAtTheTop(decl) \/ \E node \in NodesOf(decl) : IsGap(node)

-----------------------------------------------------------------------------
\* The edges a block lists are the transfers in its code, and are known at
\* both ends: a missing one would hide a path from every analysis that
\* follows (CFG::add_edge, emit_return).
TargetsOf(function, label) ==
    LET code == function.blocks[label].code
        Ending == {k \in DOMAIN code : code[k].op \in {"jump", "ret"}}
        Upto   == IF Ending = {} THEN DOMAIN code ELSE 1..Min(Ending)
    IN  UNION {CASE code[k].op = "jump" -> {code[k].arg1[2]}
                 [] code[k].op \in {"branch_if", "branch_if_not"} -> {code[k].arg2[2]}
                 [] code[k].op = "ret" -> {function.exit}
                 [] OTHER -> {} : k \in Upto}

EdgesAreTheTransfers ==
    \A name \in DOMAIN ir.functions :
        LET function == ir.functions[name]
        IN  \A label \in DOMAIN function.blocks :
              /\ function.blocks[label].succs = TargetsOf(function, label)
              /\ function.blocks[label].preds =
                    {from \in DOMAIN function.blocks : label \in function.blocks[from].succs}

-----------------------------------------------------------------------------
(***************************************************************************)
(* The meaning of the code, with a frame that keeps the variables apart.   *)
(***************************************************************************)
RunCode(name, args) ==
    LET offsets == Offsets(ir.objects, vars.next)
    IN  RunMachine(Machine(ir.functions, offsets, offsets[vars.next], name, args, Answers), Fuel.code)

ArgumentsOf(name) == [1..(Len(TheFunction(decls, name).kids) - 1) -> Arguments]

SameAnswer(value, result) == IsInt(value.type) => result = <<PassedBits(value)>>

Agree(source, code) ==
    CASE source.is = "ok" ->
            /\ code.status = "returned"
            /\ code.calls = source.at.calls
            /\ SameAnswer(source.value, code.result)
      [] source.value = <<"unanswered">> ->
            code.status = "unanswered" /\ code.calls = source.at.calls
      [] OTHER -> TRUE

\* What a function of the file does is what the code for it does: it makes the
\* same calls in the same order with the same arguments, and returns the same
\* value.  Where C leaves open what happens, anything may.
SameBehaviour ==
    phase = "lowered" =>
        \A name \in DOMAIN ir.functions : \A args \in ArgumentsOf(name) :
            Agree(RunSource(decls, name, args, Answers, Fuel.source), RunCode(name, args))

=============================================================================
