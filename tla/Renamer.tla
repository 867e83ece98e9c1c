------------------------------ MODULE Renamer ------------------------------
(***************************************************************************)
(* Name resolution: frontend/renamer.rs.  It walks the tree a second time, *)
(* with scopes of its own, and gives every declared variable an id.        *)
(***************************************************************************)
EXTENDS Syntax

NoVars == [id \in {} |-> 0]

NewRenamer ==
    [ scopes    |-> NewScopes, \* name to variable
      functions |-> {},
      next      |-> 0,
      declToVar |-> NoVars,
      exprToVar |-> NoVars ]

Resolved(r) == Ok(NoNode, r)

\* Mutant: the variable declared last is the one that is meant.
DeclareVarInTheOutermost(name, id, r) ==
    IF LookupLocal(r.scopes, name) THEN Fail("RedeclarationInSameScope", r)
    ELSE Resolved([r EXCEPT !.scopes = [depth \in DOMAIN @ |-> (name :> r.next) @@ @[depth]],
                            !.next = @ + 1,
                            !.declToVar = (id :> r.next) @@ @])

\* Renamer::declare.
DeclareVar(name, id, r) ==
    IF LookupLocal(r.scopes, name) THEN Fail("RedeclarationInSameScope", r)
    ELSE Resolved([r EXCEPT !.scopes = Declare(@, name, r.next),
                            !.next = @ + 1,
                            !.declToVar = (id :> r.next) @@ @])

RECURSIVE ResolveExpr(_, _)

\* One node after the other, absent ones left out; the first error ends it.
ResolveAll(Resolve(_, _), nodes, r) ==
    FoldLeft(LAMBDA result, node : IF node = NoNode THEN result
                                   ELSE Then(result, LAMBDA so : Resolve(node, so.at)),
             Resolved(r), nodes)

\* The name of a function is left unbound.
ResolveCallee(callee, r) ==
    CASE callee.kind # "identifier" -> ResolveExpr(callee, r)
      [] callee.kind = "identifier" /\ callee.name \notin r.functions
            /\ ~InScope(r.scopes, callee.name) -> Fail("UndeclaredFunction", r)
      [] OTHER -> Resolved(r)

ResolveExpr(e, r) ==
    CASE e.kind = "identifier" ->
            IF ~InScope(r.scopes, e.name) THEN Fail("UndeclaredVariable", r)
            ELSE Resolved([r EXCEPT !.exprToVar = (e.id :> Lookup(r.scopes, e.name)) @@ @])
      [] e.kind = "call" ->
            Then(ResolveCallee(e.kids[1], r), LAMBDA callee :
                 ResolveAll(ResolveExpr, Tail(e.kids), callee.at))
      [] OTHER -> ResolveAll(ResolveExpr, e.kids, r)

ResolveVariable(decl, r) ==
    Then(DeclareVar(decl.name, decl.id, r), LAMBDA declared :
         ResolveAll(ResolveExpr, decl.kids, declared.at))

InScopeOfItsOwn(Resolve(_), r) ==
    LET result == Resolve([r EXCEPT !.scopes = PushScope(@)])
    IN  [result EXCEPT !.at.scopes = PopScope(@)]

RECURSIVE ResolveStmt(_, _)

ResolveItem(item, r) ==
    CASE item.kind \in {"variable", "extern"} -> ResolveVariable(item, r)
      [] item.kind = "struct" -> Resolved(r)
      [] OTHER -> ResolveStmt(item, r)

\* Mutant: what is declared there is gone behind it.
ResolveForInitAsABlock(init, r) == IF init = NoNode THEN Resolved(r) ELSE ResolveStmt(init, r)

ResolveForInit(init, r) ==
    CASE init = NoNode -> Resolved(r)
      [] init # NoNode /\ init.kind = "block" -> ResolveAll(ResolveItem, init.kids, r)
      [] OTHER -> ResolveStmt(init, r)

ResolveStmt(stmt, r) ==
    LET kids == stmt.kids
        Exprs(nodes, so) == ResolveAll(ResolveExpr, nodes, so)
    IN  CASE stmt.kind \in {"empty", "break", "continue"} -> Resolved(r)
          [] stmt.kind \in {"expr", "return"} -> Exprs(kids, r)
          [] stmt.kind \in {"if", "while"} ->
                Then(ResolveExpr(kids[1], r), LAMBDA condition :
                     ResolveAll(ResolveStmt, Tail(kids), condition.at))
          [] stmt.kind = "for" ->
                InScopeOfItsOwn(LAMBDA inside :
                    Then(ResolveForInit(kids[1], inside), LAMBDA init :
                    Then(Exprs(<<kids[2], kids[3]>>, init.at), LAMBDA header :
                         ResolveStmt(kids[4], header.at))), r)
          [] stmt.kind = "block" ->
                InScopeOfItsOwn(LAMBDA inside : ResolveAll(ResolveItem, kids, inside), r)

\* An unnamed parameter gets no id.
ResolveFunction(decl, r) ==
    InScopeOfItsOwn(LAMBDA inside :
        Then(ResolveAll(LAMBDA param, so : IF param.name = NoName THEN Resolved(so)
                                           ELSE DeclareVar(param.name, param.id, so),
                        Front(decl.kids), inside), LAMBDA declared :
             ResolveAll(ResolveStmt, <<Last(decl.kids)>>, declared.at)), r)

ResolveDecl(decl, r) ==
    CASE decl.kind \in {"variable", "extern"} -> ResolveVariable(decl, r)
      [] decl.kind = "function" ->
            ResolveFunction(decl, [r EXCEPT !.functions = @ \cup {decl.name}])
      [] decl.kind = "struct" -> Resolved(r)

\* Functions are collected first.
ResolveNames(decls) ==
    ResolveAll(ResolveDecl, decls,
        [NewRenamer EXCEPT !.functions = {decl.name : decl \in
                                            {d \in ToSet(decls) : d.kind = "function"}}])

=============================================================================
