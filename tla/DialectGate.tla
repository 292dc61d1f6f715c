------------------------------ MODULE DialectGate ------------------------------
(***************************************************************************)
(* The life of a module at the gate: it is lowered, its definitions are    *)
(* printed one by one as the projection shows them, and each text comes    *)
(* back through the gate (spec/architecture/ADR-02, guarantees 2 and 3).   *)
(* Addresses are given once and for all, so the table only grows.          *)
(*                                                                         *)
(* What the lowerer does is compared with the scopes of the language, which *)
(* this module defines on the source tree by renaming every binder apart.  *)
(***************************************************************************)
EXTENDS DialectPrint

CONSTANT Modules  \* the modules that are submitted

VARIABLES
  source,   \* the module at the gate
  table,    \* every encoding that has an address
  codes,    \* the diagnostics of the last lowering
  defs,     \* the definitions of the module
  text,     \* the projection of one of them
  again,    \* what the text lowers to
  step      \* "source", "lowered", "printed", "admitted"

vars == <<source, table, codes, defs, text, again, step>>
Empty == [decls |-> <<>>, imports |-> <<>>]

Init ==
  /\ source \in Modules /\ table = <<>> /\ codes = {} /\ defs = <<>>
  /\ text = Empty /\ again = <<>> /\ step = "source"

Lower ==
  LET r == LowerModule(source, table) IN
  /\ step = "source"
  /\ codes' = r.codes /\ defs' = r.defs /\ table' = r.table /\ step' = "lowered"
  /\ UNCHANGED <<source, text, again>>

Project ==
  /\ step = "lowered"
  /\ \E i \in DOMAIN defs : text' = PrintModule(defs[i])
  /\ step' = "printed"
  /\ UNCHANGED <<source, table, codes, defs, again>>

\* Edges of the text are imports, siblings too.
Readmit ==
  LET r == LowerModule(text, table) IN
  /\ step = "printed"
  /\ codes' = r.codes /\ again' = r.defs /\ table' = r.table /\ step' = "admitted"
  /\ UNCHANGED <<source, defs, text>>

Next == Lower \/ Project \/ Readmit
Spec == Init /\ [][Next]_vars

-----------------------------------------------------------------------------
\* The scopes of the language.  A scope is the binders of values and of types,
\* innermost last, each with the name it gets and whether its declaration has
\* been evaluated; base is where the innermost scope of values begins.
NewBinders(names, w, live) ==
  [i \in DOMAIN names |-> [name |-> names[i], as |-> ToString(w.born + i), live |-> live]]
Born(names, w) == [w EXCEPT !.born = @ + Len(names)]
Open(s, names, w) == [s EXCEPT !.e = @ \o NewBinders(names, w, FALSE), !.base = Len(s.e)]
OpenTypes(s, names, w) == [s EXCEPT !.te = @ \o NewBinders(names, w, TRUE)]
Woken(s, names) ==
  [s EXCEPT !.e = [i \in DOMAIN s.e |-> [s.e[i] EXCEPT !.live =
                     @ \/ (i > s.base /\ \E j \in DOMAIN names : names[j] = s.e[i].name)]]]
Resolve(e, name) == Innermost([i \in DOMAIN e |-> e[i].name], name)

DeclaredBy(ns) == FlattenSeq([i \in DOMAIN ns |-> Declared(ns[i])])
TypeNames(params) == [i \in DOMAIN params.kids |-> params.kids[i].s]

\* A use renames to what it resolves to; [early] notes a use of a binder that
\* has not been evaluated yet, which is an error in the language.
UseAt(n, e, i, w) ==
  IF i = 0 THEN R(n, w) ELSE R([n EXCEPT !.s = e[i].as], [w EXCEPT !.early = @ \/ ~ e[i].live])
Use(n, e, w) == UseAt(n, e, Resolve(e, n.s), w)
UseIn(r, e) == Use(r.n, e, r.w)
Renamed(n, e) == [n EXCEPT !.s = e[Resolve(e, n.s)].as]

RECURSIVE Ren(_, _, _)
RenAll(ns, s, w) == FoldLeft(LAMBDA acc, n : Joined(acc, Ren(n, s, acc.w)), R(<<>>, w), ns)
RenKids(n, s, w) == WithKids(n, RenAll(n.kids, s, w))

\* Parameters, declarators and statements come one after the other, and what
\* one declares is there for the next.
Followed(acc, n, r) == [n |-> Append(acc.n, r.n), w |-> r.w, s |-> Woken(acc.s, Declared(n))]
RenSeq(ns, s, w) ==
  FoldLeft(LAMBDA acc, n : Followed(acc, n, Ren(n, acc.s, acc.w)), [n |-> <<>>, w |-> w, s |-> s], ns)

\* Type parameters are all there from the start, parameters come after them,
\* and the rest of the form is inside both.
RenTypeParams(tparams, s, w) == RenAll(tparams.kids, OpenTypes(s, TypeNames(tparams), w), Born(TypeNames(tparams), w))
RenParams(params, names, s, w) == RenSeq(params.kids, Open(s, names, w), Born(names, w))
Signed(tps, ps) == [t |-> List(tps.n), p |-> List(ps.n), s |-> ps.s, w |-> ps.w]
SignedIn(s, tps, params) == Signed(tps, RenParams(params, DeclaredBy(params.kids), s, tps.w))
RenSignature(tparams, params, s, w) ==
  SignedIn(OpenTypes(s, TypeNames(tparams), w), RenTypeParams(tparams, s, w), params)
After(head, r) == R(head \o r.n, r.w)
FuncIn(f, sig) == WithKids(f, After(<<sig.p, sig.t>>, RenAll(<<f.kids[3], f.kids[4]>>, sig.s, sig.w)))
FuncTypeIn(f, sig) == WithKids(f, After(<<sig.t, sig.p>>, RenAll(<<f.kids[3]>>, sig.s, sig.w)))
AliasIn(n, sig) == WithKids(n, After(<<sig.t>>, RenAll(<<n.kids[2]>>, sig.s, sig.w)))
RenMapped(n, s, w) == RenKids(n, OpenTypes(s, <<n.kids[1].s>>, w), Born(<<n.kids[1].s>>, w))

\* Statements of one scope: every name is there from the start.
Listed(n, r) == R([n EXCEPT !.kids = <<List(r.n)>>], r.w)
RenDecls(n, s, w) == Listed(n, RenSeq(n.kids[1].kids, s, w))
RenScope(n, names, s, w) == Listed(n, RenSeq(n.kids[1].kids, Open(s, names, w), Born(names, w)))
RenBlock(n, s, w) == RenScope(n, DeclaredBy(n.kids[1].kids), s, w)

\* The clauses of a switch share a scope; a clause may be entered without the
\* declarations of the clauses before it.
ClausesIn(n, disc, names, s) ==
  WithKids(n, After(<<disc.n>>, RenAll(<<n.kids[2]>>, Open(s, names, disc.w), Born(names, disc.w))))
RenSwitch(n, s, w) ==
  ClausesIn(n, Ren(n.kids[1], s, w),
            FlattenSeq([i \in DOMAIN n.kids[2].kids |-> DeclaredBy(n.kids[2].kids[i].kids[2].kids)]), s)
ClauseIn(n, test, r) == R([n EXCEPT !.kids = <<test.n, List(r.n)>>], r.w)
ClauseAfter(n, s, test) == ClauseIn(n, test, RenSeq(n.kids[2].kids, s, test.w))
RenClause(n, s, w) == ClauseAfter(n, s, Ren(n.kids[1], s, w))

\* What a loop declares is evaluated once its header is: the initializer of a
\* for, the iterable of a for-of and the pattern of a catch come before.
RenRest(n, head, s) == WithKids(n, After(head.n, RenAll(SubSeq(n.kids, Len(head.n) + 1, Len(n.kids)), s, head.w)))
RenHeaded(n, before, names, s, w) ==
  RenRest(n, RenAll(SubSeq(n.kids, 1, before), Open(s, names, w), Born(names, w)), Woken(Open(s, names, w), names))

Ren(n, s, w) ==
  CASE n.k = "Id" -> Use(n, s.e, w)
    [] n.k = "PropShort" -> R(N("Prop", "", 0, <<N("StrPart", n.s, 0, <<>>), Use(Id(n.s), s.e, w).n>>), Use(n, s.e, w).w)
    [] n.k = "BindId" -> R(Renamed(n, s.e), w)
    [] n.k = "BindShort" -> Ren(Spelled(n), s, w)
    [] n.k = "TRef" -> UseIn(RenKids(n, s, w), s.te)
    [] n.k = "TParam" -> RenKids(Renamed(n, s.te), s, w)
    [] n.k \in {"Func", "FuncExpr"} -> FuncIn(n, RenSignature(n.kids[2], n.kids[1], s, w))
    [] n.k = "TFunc" -> FuncTypeIn(n, RenSignature(n.kids[1], n.kids[2], s, w))
    [] n.k = "TypeAlias" -> AliasIn(n, RenSignature(n.kids[1], List(<<>>), s, w))
    [] n.k = "TMapped" -> RenMapped(n, s, w)
    [] n.k = "VarDecl" -> RenDecls(n, s, w)
    [] n.k = "Block" -> RenBlock(n, s, w)
    [] n.k = "Switch" -> RenSwitch(n, s, w)
    [] n.k = "Clause" -> RenClause(n, s, w)
    [] n.k = "For" -> RenHeaded(n, 1, Declared(n.kids[1]), s, w)
    [] n.k = "ForOf" -> RenHeaded(n, 2, Declared(n.kids[1]), s, w)
    [] n.k = "Catch" -> RenHeaded(n, 1, Bound(n.kids[1]), s, w)
    [] OTHER -> RenKids(n, s, w)

RenDef(d) == Ren(d.body, [e |-> <<>>, base |-> 0, te |-> <<>>], [born |-> 0, early |-> FALSE])
RenDecl(d, r) == [d |-> [d EXCEPT !.body = r.n], early |-> r.w.early]
Apart(mod) == [i \in DOMAIN mod.decls |-> RenDecl(mod.decls[i], RenDef(mod.decls[i]))]
Early(apart) == \E i \in DOMAIN apart : apart[i].early

-----------------------------------------------------------------------------
\* Guarantees 2 and 3 of the printer (rast/print.go:42): the text of every
\* definition is admitted, gives the same address from the same edges, and
\* prints as itself.
ProjectionHolds ==
  step = "admitted" =>
    /\ codes = {} /\ Len(again) = 1
    /\ PrintModule(again[1]) = text
    /\ \E i \in DOMAIN defs : /\ defs[i].name = again[1].name /\ defs[i].addr = again[1].addr
                              /\ defs[i].deps = again[1].deps

\* ADR-02: renaming a local never changes a hash.  With every binder renamed
\* apart, the scopes of the language leave the lowerer no choice.
AddressesAgree(r) == /\ r.codes = codes
                     /\ \A i \in DOMAIN defs : r.defs[i].addr = defs[i].addr
Indifferent(apart) ==
  Early(apart) \/ AddressesAgree(LowerModule([source EXCEPT !.decls = [i \in DOMAIN apart |-> apart[i].d]], table))
RenamingKeepsAddress == step = "lowered" => Indifferent(Apart(source))

\* Rule R1 (lower/decl.go, flushCaptureDiags): a binding that is reassigned
\* anywhere, before or after, is captured by no closure that is admitted, and
\* nothing else is refused for it.  On the renamed tree, captured means used in
\* a function that does not contain the binder.
RECURSIVE Nodes(_)
Nodes(n) == {n} \cup UNION {Nodes(n.kids[i]) : i \in DOMAIN n.kids}
IdsOf(n) == {m.s : m \in {m \in Nodes(n) : m.k = "Id"}}
Bind(n) == {m.s : m \in {m \in Nodes(n) : m.k = "BindId"}}
Reassigned(n) ==
  {Unparen(m.kids[1]).s : m \in {m \in Nodes(n) : m.k = "Update" \/ (m.k = "Binary" /\ m.s \in AssignOps)}}
Consts(n) ==
  LET decls == {m \in Nodes(n) : m.k = "VarDecl" /\ m.u = 1}
  IN UNION {Bind(PatternsOf(m)) : m \in decls} \cup {m.kids[1].s : m \in {m \in Nodes(n) : m.k = "FuncDecl"}}
Captured(n) ==
  UNION {IdsOf(f) \ Bind(f) : f \in {m \in Nodes(n) : m.k \in {"Func", "FuncExpr"}}} \cap Bind(n)
CapturesWritten(n) == (Captured(n) \ Consts(n)) \cap Reassigned(n) # {}
Settled(apart) ==
  Early(apart) \/ ("CAPTURE_LET" \in codes <=> \E i \in DOMAIN apart : CapturesWritten(apart[i].d.body))
CapturesAreSettled == step = "lowered" => Settled(Apart(source))
=============================================================================
