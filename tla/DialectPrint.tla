----------------------------- MODULE DialectPrint -----------------------------
(***************************************************************************)
(* internal/rast/print.go: a definition, whose tree has no names, is       *)
(* printed as the text of a module of its own, with the imports that its   *)
(* edges need.  The text is the tree that the parser makes of it.          *)
(***************************************************************************)
EXTENDS Dialect

Paren(n) == N("Paren", "", 0, <<n>>)
Id(name) == N("Id", name, 0, <<>>)

\* assignNames: the side lists name binders in pre-order; a list that is too
\* short gets names made of the position.
RECURSIVE NamedFrom(_, _, _, _, _)
NamedFrom(n, vs, ts, v, t) ==
  LET name == CASE n.k = "BindId" -> IF v < Len(vs) THEN vs[v + 1] ELSE "_v" \o ToString(v)
                [] n.k = "TParam" -> IF t < Len(ts) THEN ts[t + 1] ELSE "_T" \o ToString(t)
                [] OTHER -> n.s
      here == [n |-> <<>>, v |-> IF n.k = "BindId" THEN v + 1 ELSE v, t |-> IF n.k = "TParam" THEN t + 1 ELSE t]
      all == FoldLeft(LAMBDA acc, kid : LET r == NamedFrom(kid, vs, ts, acc.v, acc.t)
                                        IN [n |-> Append(acc.n, r.n), v |-> r.v, t |-> r.t], here, n.kids)
  IN [n |-> [n EXCEPT !.s = name, !.kids = all.n], v |-> all.v, t |-> all.t]
Named(n, vs, ts) == NamedFrom(n, vs, ts, 0, 0).n

-----------------------------------------------------------------------------
\* The printer p: the binders in scope, by name, the definition's own name and
\* the names of addresses.
At(names, index, unbound) == IF index < Len(names) THEN names[Len(names) - index] ELSE unbound
\* collectBinders walks all of a pattern, its defaults too.
PushV(p, pattern) == [p EXCEPT !.vb = @ \o NamesOf(pattern, "BindId")]
PushT(p, params) == [p EXCEPT !.tb = @ \o [i \in DOMAIN params.kids |-> params.kids[i].s]]
NameAt(p, addr) == IF addr \in DOMAIN p.refs THEN p.refs[addr] ELSE "_ref"

Wrapped == {"Binary", "Unary", "Update", "Cond", "Await", "TQuery"}

RECURSIVE P(_, _)
All(ns, p) == [i \in DOMAIN ns |-> P(ns[i], p)]

\* param, pattern by pattern: each is printed outside itself, then pushed.
ParamsWith(params, p) ==
  FoldLeft(LAMBDA acc, prm :
             LET inside == PushV(acc.p, prm.kids[1])
             IN [n |-> Append(acc.n, [prm EXCEPT !.kids = <<P(prm.kids[1], acc.p)>> \o All(Tail(prm.kids), inside)]),
                 p |-> inside],
           [n |-> <<>>, p |-> p], params.kids)

\* emitFuncTail and arrow.
FuncWith(f, p) ==
  LET outer == PushT(p, f.kids[2])
      params == ParamsWith(f.kids[1], outer)
  IN [f EXCEPT !.kids = <<List(params.n), List(All(f.kids[2].kids, outer))>>
                        \o All(<<f.kids[3], f.kids[4]>>, params.p)]

FuncTypeWith(f, p) ==
  LET outer == PushT(p, f.kids[1])
      params == ParamsWith(f.kids[2], outer)
  IN [f EXCEPT !.kids = <<List(All(f.kids[1].kids, outer)), List(params.n), P(f.kids[3], params.p)>>]

-----------------------------------------------------------------------------
\* stmt: initializers are printed before the binders are pushed.
PatternsOf(decl) == List([i \in DOMAIN decl.kids[1].kids |-> decl.kids[1].kids[i].kids[1]])
Introduced(n, p) == IF n.k = "VarDecl" THEN PushV(p, PatternsOf(n)) ELSE p

StmtsWith(ns, p) ==
  FoldLeft(LAMBDA acc, n : [n |-> Append(acc.n, P(n, acc.p)), p |-> Introduced(n, acc.p)], [n |-> <<>>, p |-> p], ns).n

ForWith(n, p) ==
  LET loop == Introduced(n.kids[1], p) IN [n EXCEPT !.kids = <<P(n.kids[1], p)>> \o All(Tail(n.kids), loop)]

\* forOfStmt and tryStmt print a pattern after its binders are pushed.
ForOfWith(n, p) ==
  LET decl == n.kids[1]
      inside == PushV(p, PatternsOf(decl))
  IN [n EXCEPT !.kids = <<P(decl, inside), P(n.kids[2], p), P(n.kids[3], inside)>>]
CatchWith(n, p) ==
  LET inside == PushV(p, n.kids[1]) IN [n EXCEPT !.kids = All(n.kids, inside)]

MappedWith(n, p) ==
  [n EXCEPT !.kids = <<n.kids[1]>> \o All(Tail(n.kids), PushT(p, List(<<n.kids[1]>>)))]
AliasWith(n, p) == [n EXCEPT !.kids = LET inside == PushT(p, n.kids[1])
                                      IN <<List(All(n.kids[1].kids, inside)), P(n.kids[2], inside)>>]

\* expr: compound expressions are parenthesised.
ExprText(n, p) ==
  CASE n.k = "Local" -> Id(At(p.vb, n.u, "_unbound"))
    [] n.k = "Ref" -> Id(NameAt(p, n.u))
    [] n.k = "SelfRef" -> IF n.kids = <<>> THEN Id(p.self) ELSE N("TRef", p.self, 0, All(n.kids, p))
    [] n.k = "Name" -> Id(n.s)
    [] n.k = "Num" /\ n.u < 0 -> Paren(N("Unary", "-", 0, <<[n EXCEPT !.u = -n.u]>>))
    [] n.k \in Wrapped -> Paren([n EXCEPT !.kids = All(n.kids, p)])
    [] n.k = "Func" -> Paren(FuncWith(n, p))
    \* An element of an array pattern with a default has no key, and what is
    \* printed for the key is no syntax.
    [] n.k = "BindProp" /\ n.kids[1].k = "None" -> N("Banned", "PARSE_ERROR", 0, <<>>)
    [] OTHER -> [n EXCEPT !.kids = All(n.kids, p)]

\* typ.
TypeText(n, p) ==
  CASE n.k = "TLocal" -> N("TRef", At(p.tb, n.u, "_Unbound"), 0, All(n.kids, p))
    [] n.k = "TCatRef" -> N("TRef", NameAt(p, n.u), 0, All(n.kids, p))
    [] n.k = "TFunc" -> Paren(FuncTypeWith(n, p))
    [] n.k = "TUnion" -> Paren([n EXCEPT !.kids = All(n.kids, p)])
    [] n.k = "TArray" -> [n EXCEPT !.kids = <<Paren(P(n.kids[1], p))>>]
    [] n.k = "TMapped" -> MappedWith(n, p)
    [] n.k = "TypeAlias" -> AliasWith(n, p)

\* stmt.
StmtText(n, p) ==
  CASE n.k = "Block" -> [n EXCEPT !.kids = <<List(StmtsWith(n.kids[1].kids, p))>>]
    [] n.k = "Clause" -> [n EXCEPT !.kids = <<P(n.kids[1], p), List(StmtsWith(n.kids[2].kids, p))>>]
    [] n.k = "ExprStmt" -> [n EXCEPT !.kids = <<Paren(P(n.kids[1], p))>>]
    [] n.k = "For" -> ForWith(n, p)
    [] n.k = "ForOf" -> ForOfWith(n, p)
    [] n.k = "Catch" -> CatchWith(n, p)

P(n, p) ==
  CASE n.k \in {"TLocal", "TCatRef", "TFunc", "TUnion", "TArray", "TMapped", "TypeAlias"} -> TypeText(n, p)
    [] n.k \in {"Block", "Clause", "ExprStmt", "For", "ForOf", "Catch"} -> StmtText(n, p)
    [] OTHER -> ExprText(n, p)

\* emitDecl: a function is a declaration and has no parentheses.
DeclText(kind, body, p) == IF kind = "func" THEN FuncWith(body, p) ELSE P(body, p)

\* emitImports: one import for each edge, under the name it has in its module.
ImportsOf(d) == [name \in {e.name : e \in d.deps} |-> CHOOSE e \in d.deps : e.name = name]

\* PrintModule.
PrintModule(d) ==
  LET refs == [addr \in {e.addr : e \in d.deps} |-> (CHOOSE e \in d.deps : e.addr = addr).name]
      text == DeclText(d.kind, Named(d.body, d.names, d.tnames),
                       [vb |-> <<>>, tb |-> <<>>, self |-> d.name, refs |-> refs])
  IN [decls |-> <<[name |-> d.name, kind |-> d.kind, async |-> d.async, body |-> text]>>, imports |-> ImportsOf(d)]
=============================================================================
