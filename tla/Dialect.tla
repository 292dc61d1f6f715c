------------------------------- MODULE Dialect --------------------------------
(***************************************************************************)
(* internal/lower and the addressing half of internal/rast: a module, as   *)
(* the parser's tree with its names, becomes definitions whose local names *)
(* are De Bruijn indices, whose references are addresses and whose own     *)
(* names live in side lists, or the grammar gate refuses it.               *)
(*                                                                         *)
(* A node is [k, s, u, kids]: kind, text, number and children, laid out as *)
(* in the rast schema, with the elements of literals and patterns directly *)
(* below them.  A construct that the gate refuses by its kind alone is a   *)
(* node "Banned" with its code.                                            *)
(***************************************************************************)
EXTENDS Integers, Sequences, SequencesExt, FiniteSets, TLC

CONSTANTS
  Strings,   \* the strings of a run, in the order of their bytes
  Home       \* the module that is lowered

N(k, s, u, kids) == [k |-> k, s |-> s, u |-> u, kids |-> kids]
None == N("None", "", 0, <<>>)
List(ns) == N("List", "", 0, ns)

RECURSIVE Unparen(_)
Unparen(n) == IF n.k = "Paren" THEN Unparen(n.kids[1]) ELSE n
IsAsyncFunc(n) == LET f == Unparen(n) IN f.k \in {"Func", "FuncExpr"} /\ f.u % 2 = 1

-----------------------------------------------------------------------------
\* The lowerer: value and type scopes, innermost last, the depth of functions,
\* what closures capture, what is reassigned, the edges and the diagnostics.
Fresh == [sc |-> <<>>, tsc |-> <<>>, depth |-> 0, born |-> 0,
          caps |-> {}, writes |-> {}, deps |-> {}, codes |-> {}]
R(n, w) == [n |-> n, w |-> w]
Deny(w, code) == [w EXCEPT !.codes = @ \cup {code}]

\* pushBinders; popValues and popTypeParams at the end of a scope.
Push(w, binders, const) ==
  [w EXCEPT !.sc = @ \o [i \in DOMAIN binders |-> binders[i] @@
                           [const |-> const, depth |-> w.depth, id |-> w.born + i]],
            !.born = @ + Len(binders)]
Leave(w, before) == [w EXCEPT !.sc = before.sc, !.tsc = before.tsc, !.depth = before.depth]
Binder(name, async) == [name |-> name, async |-> async]
Plain(names) == [i \in DOMAIN names |-> Binder(names[i], FALSE)]

Innermost(names, name) ==
  LET at == {i \in DOMAIN names : names[i] = name}
  IN IF at = {} THEN 0 ELSE CHOOSE i \in at : \A j \in at : j <= i
Slot(w, name) == Innermost([i \in DOMAIN w.sc |-> w.sc[i].name], name)

Edge(w, module, name, addr) == [w EXCEPT !.deps = @ \cup {[module |-> module, name |-> name, addr |-> addr]}]

\* valueIdent: the innermost binder, the definition itself, a sibling (its
\* address is not known yet), an import, a banned global, a free name.
ValueIdent(name, w, cx) ==
  LET i == Slot(w, name) IN
  IF i > 0 THEN R(N("Local", "", Len(w.sc) - i, <<>>),
                  IF ~ w.sc[i].const /\ w.sc[i].depth < w.depth
                    THEN [w EXCEPT !.caps = @ \cup {w.sc[i].id}] ELSE w)
  ELSE IF name = cx.cur.name THEN R(N("SelfRef", "", 0, <<>>), w)
  ELSE IF name \in DOMAIN cx.sibs THEN R(N("Ref", name, 0, <<>>), Edge(w, Home, name, 0))
  ELSE IF name \in DOMAIN cx.imports THEN
    LET m == cx.imports[name] IN R(N("Ref", "", m.addr, <<>>), Edge(w, m.module, m.name, m.addr))
  ELSE IF name = "eval" THEN R(None, Deny(w, "BAN_WITH_EVAL"))
  ELSE R(N("Name", name, 0, <<>>), w)

\* typeRef: a type parameter, the type itself, a sibling type, an import, a
\* name of the library.
TypeIdent(name, args, w, cx) ==
  LET i == Innermost(w.tsc, name) IN
  IF i > 0 THEN R(N("TLocal", "", Len(w.tsc) - i, args), w)
  ELSE IF name = cx.cur.name /\ cx.cur.kind = "type" THEN R(N("SelfRef", "", 0, args), w)
  ELSE IF name # cx.cur.name /\ name \in DOMAIN cx.sibs /\ cx.sibs[name].kind = "type" THEN
    R(N("TCatRef", name, 0, args), Edge(w, Home, name, 0))
  ELSE IF name \in DOMAIN cx.imports THEN
    LET m == cx.imports[name] IN R(N("TCatRef", "", m.addr, args), Edge(w, m.module, m.name, m.addr))
  ELSE R(N("TRef", name, 0, args), w)

\* mutant: only a plain assignment counts as one.
MarkAssign(op, target, w) ==
  LET t == Unparen(target)
      i == Slot(w, t.s)
  IN IF op = "=" /\ t.k = "Id" /\ i > 0 THEN [w EXCEPT !.writes = @ \cup {w.sc[i].id}] ELSE w

\* markReassign.  A destructuring target is no identifier and is not marked.
MarkReassign(op, target, w) ==
  LET t == Unparen(target)
      i == Slot(w, t.s)
  IN IF t.k = "Id" /\ i > 0 THEN [w EXCEPT !.writes = @ \cup {w.sc[i].id}] ELSE w
AssignOps == {"=", "+=", "??="}

\* checkFloatingPromise: a call statement of something known to be async.
Floats(e, w, cx) ==
  LET call == Unparen(e) IN call.k = "Call" /\
  LET f == Unparen(call.kids[1])
      i == Slot(w, f.s)
  IN f.k = "Id" /\ IF i > 0 THEN w.sc[i].async
                   ELSE IF f.s = cx.cur.name THEN cx.cur.async
                   ELSE f.s \in DOMAIN cx.sibs /\ cx.sibs[f.s].async

-----------------------------------------------------------------------------
RECURSIVE Low(_, _, _), LowAll(_, _, _)

WithKids(n, r) == R([n EXCEPT !.kids = r.n], r.w)
Kept(n, w, cx) == WithKids(n, LowAll(n.kids, w, cx))

\* The names a pattern binds come back as they are written, and the caller of
\* pattern pushes them.
RECURSIVE Bound(_)
Bound(pattern) ==
  CASE pattern.k = "BindId" -> <<pattern.s>>
    [] pattern.k = "BindShort" -> <<pattern.kids[1].s>>
    [] pattern.k = "BindProp" -> Bound(pattern.kids[2])
    [] pattern.k \in {"ArrayPat", "ObjPat", "RestPat"} -> FlattenSeq([i \in DOMAIN pattern.kids |-> Bound(pattern.kids[i])])
    [] OTHER -> <<>>

\* {a} and {a = e}: the key is always written.
Spelled(n) == N("BindProp", "", 0, <<N("StrPart", n.kids[1].s, 0, <<>>)>> \o n.kids)

\* bindingElement: defaults and computed keys see the scope outside.
LowBindProp(n, w, cx) ==
  LET r == LowAll(<<n.kids[2], n.kids[3], n.kids[1]>>, w, cx)
  IN R([n EXCEPT !.kids = <<r.n[3], r.n[1], r.n[2]>>], r.w)

\* typeParams: all names first, then constraints and defaults.
LowTypeParams(n, w, cx) ==
  Kept(n, [w EXCEPT !.tsc = @ \o [i \in DOMAIN n.kids |-> n.kids[i].s]], cx)

\* lowerParam: pattern, push, type, default.
LowParam(n, w, cx) ==
  LET pat == Low(n.kids[1], w, cx)
      rest == LowAll(Tail(n.kids), Push(pat.w, Plain(Bound(n.kids[1])), FALSE), cx)
  IN R([n EXCEPT !.kids = <<pat.n>> \o rest.n], rest.w)

\* lowerFunctionLike: one form for functions, methods and arrows.
LowFunc(n, w, cx) ==
  LET tps == LowTypeParams(n.kids[2], [w EXCEPT !.depth = @ + 1], cx)
      rest == LowAll(<<n.kids[1], n.kids[3], n.kids[4]>>, tps.w, cx)
  IN R(N("Func", "", n.u, <<rest.n[1], tps.n, rest.n[2], rest.n[3]>>), Leave(rest.w, w))

\* functionType, and a type alias with its parameters.
LowGeneric(n, w, cx) ==
  LET tps == LowTypeParams(n.kids[1], w, cx)
      rest == LowAll(Tail(n.kids), tps.w, cx)
  IN R([n EXCEPT !.kids = <<tps.n>> \o rest.n], Leave(rest.w, w))

\* mappedType: the key is in scope from its own constraint on.
LowMapped(n, w, cx) ==
  LET r == LowAll(Tail(n.kids), [w EXCEPT !.tsc = Append(@, n.kids[1].s)], cx)
  IN R([n EXCEPT !.kids = <<n.kids[1]>> \o r.n], Leave(r.w, w))

-----------------------------------------------------------------------------
\* blockish: every body is a block.
Blockish(n) == IF n.k \in {"Block", "None"} THEN n ELSE N("Block", "", 0, <<List(<<n>>)>>)

\* mutant: the binders of a block stay in scope after it.
LowStmtsKeeping(ns, w, cx) ==
  LET r == LowAll(ns, w, cx) IN R(List(SelectSeq(r.n, LAMBDA n : n.k # "None")), r.w)

\* block: what lowers to nothing goes, and the scope ends.
LowStmts(ns, w, cx) ==
  LET r == LowAll(ns, w, cx) IN R(List(SelectSeq(r.n, LAMBDA n : n.k # "None")), Leave(r.w, w))
LowBlock(n, w, cx) == LET r == LowStmts(n.kids[1].kids, w, cx) IN R([n EXCEPT !.kids = <<r.n>>], r.w)

\* varDeclList: every declarator in the scope before the statement, then the
\* binders of all of them.
Declared(n) ==
  CASE n.k \in {"Declr", "Param"} -> Bound(n.kids[1])
    [] n.k = "VarDecl" -> FlattenSeq([i \in DOMAIN n.kids[1].kids |-> Bound(n.kids[1].kids[i].kids[1])])
    [] n.k = "FuncDecl" -> <<n.kids[1].s>>
    [] OTHER -> <<>>
DeclBinders(d) ==
  LET names == Bound(d.kids[1])
  IN [i \in DOMAIN names |-> Binder(names[i], Len(names) = 1 /\ IsAsyncFunc(d.kids[3]))]
VarDecl(n, w, cx) ==
  LET r == Kept(n, w, cx)
      binders == FlattenSeq([i \in DOMAIN n.kids[1].kids |-> DeclBinders(n.kids[1].kids[i])])
  IN R(r.n, Push(r.w, binders, n.u = 1))

\* nestedFuncDecl becomes const f = (...) => {...}: its body is outside its name.
FuncDecl(n, w, cx) ==
  LET f == Low(n.kids[2], w, cx)
      declr == N("Declr", "", 0, <<n.kids[1], None, f.n>>)
  IN R(N("VarDecl", "", 1, <<List(<<declr>>)>>),
       Push(f.w, <<Binder(n.kids[1].s, n.kids[2].u % 2 = 1)>>, TRUE))

LowFor(n, w, cx) ==
  LET r == Kept([n EXCEPT !.kids[4] = Blockish(@)], w, cx) IN R(r.n, Leave(r.w, w))

\* mutant: the iterable is lowered inside the scope of the loop variable.
LowForOfInside(n, w, cx) ==
  LET decl == Kept(n.kids[1], w, cx)
      rest == LowAll(<<n.kids[2], Blockish(n.kids[3])>>,
                     Push(decl.w, Plain(Declared(n.kids[1])), n.kids[1].u = 1), cx)
  IN R([n EXCEPT !.kids = <<decl.n>> \o rest.n], Leave(rest.w, w))

\* forOfStmt: pattern, iterable in the outer scope, then the binders.
LowForOf(n, w, cx) ==
  LET decl == Kept(n.kids[1], w, cx)
      iter == Low(n.kids[2], decl.w, cx)
      body == Low(Blockish(n.kids[3]), Push(iter.w, Plain(Declared(n.kids[1])), n.kids[1].u = 1), cx)
  IN R([n EXCEPT !.kids = <<decl.n, iter.n, body.n>>], Leave(body.w, w))

\* switchStmt: a scope for each clause; a clause that is not empty ends in a jump.
LowClause(n, w, cx) ==
  LET test == Low(n.kids[1], w, cx)
      body == LowStmts(n.kids[2].kids, test.w, cx)
      ends == body.n.kids = <<>> \/ Last(body.n.kids).k \in {"Break", "Continue", "Return", "Throw"}
  IN R([n EXCEPT !.kids = <<test.n, body.n>>], IF ends THEN body.w ELSE Deny(body.w, "SWITCH_FALLTHROUGH"))

LowCatch(n, w, cx) ==
  LET pat == Low(n.kids[1], w, cx)
      body == Low(Blockish(n.kids[2]), Push(pat.w, Plain(Bound(n.kids[1])), FALSE), cx)
  IN R([n EXCEPT !.kids = <<pat.n, body.n>>], Leave(body.w, w))

\* A numeral under a sign is one literal.
LowUnary(n, w, cx) ==
  LET e == Unparen(n.kids[1]) IN
  IF n.s \in {"-", "+"} /\ e.k = "Num"
    THEN R([e EXCEPT !.u = IF n.s = "-" THEN -e.u ELSE e.u], w) ELSE Kept(n, w, cx)

\* expr, typ and stmt: whatever has no rule of its own keeps its form.
LowExpr(n, w, cx) ==
  CASE n.k = "Paren" -> Low(n.kids[1], w, cx)
    [] n.k = "Id" -> ValueIdent(n.s, w, cx)
    [] n.k = "Unary" -> LowUnary(n, w, cx)
    [] n.k \in {"Func", "FuncExpr"} -> LowFunc(n, w, cx)
    [] n.k = "Param" -> LowParam(n, w, cx)
    [] n.k = "BindShort" -> Low(Spelled(n), w, cx)
    [] n.k = "BindProp" -> LowBindProp(n, w, cx)
    [] n.k = "PropShort" -> LET v == ValueIdent(n.s, w, cx)
                            IN R(N("Prop", "", 0, <<N("StrPart", n.s, 0, <<>>), v.n>>), v.w)
    [] n.k = "Method" -> Kept([n EXCEPT !.k = "Prop"], w, cx)
    [] n.k = "Update" \/ (n.k = "Binary" /\ n.s \in AssignOps) -> Kept(n, MarkReassign(n.s, n.kids[1], w), cx)
    [] OTHER -> Kept(n, w, cx)

TypeForms == {"TRef", "TFunc", "TMapped", "TypeAlias", "MethodSig"}
LowType(n, w, cx) ==
  CASE n.k = "TRef" -> LET args == LowAll(n.kids, w, cx) IN TypeIdent(n.s, args.n, args.w, cx)
    [] n.k \in {"TFunc", "TypeAlias"} -> LowGeneric(n, w, cx)
    [] n.k = "TMapped" -> LowMapped(n, w, cx)
    [] n.k = "MethodSig" -> Kept([n EXCEPT !.k = "TPropSig"], w, cx)

StmtForms == {"Empty", "ExprStmt", "VarDecl", "FuncDecl", "Block", "If", "While", "DoWhile", "For", "ForOf",
               "Clause", "Try", "Catch"}
LowStmt(n, w, cx) ==
  CASE n.k = "Empty" -> R(None, w)
    [] n.k = "ExprStmt" -> Kept(n, IF Floats(n.kids[1], w, cx) THEN Deny(w, "FLOATING_PROMISE") ELSE w, cx)
    [] n.k = "VarDecl" -> VarDecl(n, w, cx)
    [] n.k = "FuncDecl" -> FuncDecl(n, w, cx)
    [] n.k = "Block" -> LowBlock(n, w, cx)
    [] n.k = "If" -> Kept([n EXCEPT !.kids[2] = Blockish(@), !.kids[3] = Blockish(@)], w, cx)
    [] n.k = "While" -> Kept([n EXCEPT !.kids[2] = Blockish(@)], w, cx)
    [] n.k = "DoWhile" -> Kept([n EXCEPT !.kids[1] = Blockish(@)], w, cx)
    [] n.k = "For" -> LowFor(n, w, cx)
    [] n.k = "ForOf" -> LowForOf(n, w, cx)
    [] n.k = "Clause" -> LowClause(n, w, cx)
    [] n.k = "Try" -> Kept([n EXCEPT !.kids[1] = Blockish(@), !.kids[3] = Blockish(@)], w, cx)
    [] n.k = "Catch" -> LowCatch(n, w, cx)

Low(n, w, cx) ==
  CASE n.k = "Banned" -> R(None, Deny(w, n.s))
    [] n.k \in TypeForms -> LowType(n, w, cx)
    [] n.k \in StmtForms -> LowStmt(n, w, cx)
    [] OTHER -> LowExpr(n, w, cx)

Joined(acc, r) == R(Append(acc.n, r.n), r.w)
LowAll(ns, w, cx) == FoldLeft(LAMBDA acc, n : Joined(acc, Low(n, acc.w, cx)), R(<<>>, w), ns)

-----------------------------------------------------------------------------
\* canonEncode over the fields that the schema gives each kind.  Names of
\* binders and of type parameters are in none.
WithStr == {"Str", "StrPart", "Name", "Member", "TKeyword", "TRef", "TPropSig", "Binary", "Unary", "Update"}
WithU == {"Num", "Local", "Ref", "Prop", "Call", "Member", "Func", "Param", "BindProp", "VarDecl",
          "ForOf", "Clause", "Catch", "TLocal", "TCatRef", "TPropSig", "TMapped", "Update"}
Kinds == <<
  "None", "List", "Num", "Str", "StrPart", "Local", "Ref", "SelfRef", "Name", "Array", "Object", "Prop", "Spread",
  "Call", "Member", "Binary", "Unary", "Update", "Cond", "Await", "Func", "Param", "BindId", "ArrayPat",
  "ObjPat", "BindProp", "RestPat", "Block", "VarDecl", "Declr", "ExprStmt", "If", "For", "ForOf", "While",
  "DoWhile", "Switch", "Clause", "Break", "Continue", "Return", "Throw", "Try", "Catch", "TypeAlias", "TKeyword",
  "TRef", "TLocal", "TCatRef", "TArray", "TUnion", "TObject", "TPropSig", "TFunc", "TQuery", "TMapped", "TParam">>
Place(x, seq) == CHOOSE i \in DOMAIN seq : seq[i] = x

RECURSIVE Encode(_)
Encode(n) ==
  <<Place(n.k, Kinds)>>
  \o (IF n.k \in WithStr THEN <<Place(n.s, Strings)>> ELSE <<>>)
  \o (IF n.k \in WithU THEN <<n.u>> ELSE <<>>)
  \o <<Len(n.kids)>> \o FlattenSeq([i \in DOMAIN n.kids |-> Encode(n.kids[i])])

Before(a, b) ==
  \E i \in 1 .. Len(a) + 1 : /\ \A j \in 1 .. i - 1 : j \in DOMAIN b /\ a[j] = b[j]
                             /\ i \in DOMAIN b /\ (i \in DOMAIN a => a[i] < b[i])

\* Normalize: members of unions and of object types in the order of their
\* encoding; values keep theirs.
RECURSIVE Normalize(_)
Normalize(n) ==
  LET kids == [i \in DOMAIN n.kids |-> Normalize(n.kids[i])]
  IN [n EXCEPT !.kids = IF n.k \in {"TUnion", "TObject"}
                          THEN SortSeq(kids, LAMBDA a, b : Before(Encode(a), Encode(b))) ELSE kids]

\* finalizeSidecars, over the normalized tree: the names leave it in pre-order.
RECURSIVE NamesOf(_, _), Strip(_)
NamesOf(n, kind) == (IF n.k = kind THEN <<n.s>> ELSE <<>>)
                    \o FlattenSeq([i \in DOMAIN n.kids |-> NamesOf(n.kids[i], kind)])
Strip(n) == [n EXCEPT !.s = IF n.k \in {"BindId", "TParam"} THEN "" ELSE @,
                      !.kids = [i \in DOMAIN n.kids |-> Strip(n.kids[i])]]

\* patchSiblings: the Merkle substitution.
RECURSIVE Patch(_, _)
Patch(n, addrs) ==
  LET kids == [i \in DOMAIN n.kids |-> Patch(n.kids[i], addrs)]
  IN IF n.k \in {"Ref", "TCatRef"} /\ n.s \in DOMAIN addrs
       THEN [n EXCEPT !.s = "", !.u = addrs[n.s], !.kids = kids] ELSE [n EXCEPT !.kids = kids]

-----------------------------------------------------------------------------
\* Address: encodings are numbered in the order in which they are first seen.
AddressIn(table, enc) == IF \E i \in DOMAIN table : table[i] = enc THEN Place(enc, table) ELSE Len(table) + 1
Entered(table, enc) == IF AddressIn(table, enc) > Len(table) THEN Append(table, enc) ELSE table

\* flushCaptureDiags: R1, a closure captures no let that is reassigned.
Flushed(d, r) ==
  LET captured == IF r.w.caps \cap r.w.writes # {} THEN {"CAPTURE_LET"} ELSE {}
  IN [d |-> d, body |-> r.n[1], deps |-> r.w.deps, codes |-> r.w.codes \cup captured]
LowerDecl(d, mod) ==
  LET cx == [cur |-> d, imports |-> mod.imports,
             sibs |-> [name \in {mod.decls[i].name : i \in DOMAIN mod.decls} |->
                         mod.decls[CHOOSE i \in DOMAIN mod.decls : mod.decls[i].name = name]]]
  IN Flushed(d, LowAll(<<d.body>>, Fresh, cx))

Definition(l, addrs, table) ==
  LET body == Normalize(Patch(l.body, addrs))
  IN [name |-> l.d.name, kind |-> l.d.kind, async |-> l.d.async, body |-> Strip(body),
      addr |-> AddressIn(table, Encode(body)),
      names |-> NamesOf(body, "BindId"), tnames |-> NamesOf(body, "TParam"),
      deps |-> {IF e.addr = 0 /\ e.name \in DOMAIN addrs THEN [e EXCEPT !.addr = addrs[e.name]] ELSE e
                : e \in l.deps}]

\* topoOrder and the hashing loop: a declaration is addressed when its siblings
\* are; when none is left that can be, the rest is a cycle.
RECURSIVE Settle(_, _, _, _)
Settle(todo, addrs, table, defs) ==
  LET sibs(l) == {e.name : e \in {e \in l.deps : e.addr = 0}}
      ready == {i \in DOMAIN todo : sibs(todo[i]) \subseteq DOMAIN addrs}
      i == CHOOSE i \in ready : \A j \in ready : i <= j
      def == Definition(todo[i], addrs, table)
      enc == Encode(Normalize(Patch(todo[i].body, addrs)))
  IN IF todo = <<>> THEN [codes |-> {}, defs |-> defs, table |-> table]
     ELSE IF ready = {} THEN [codes |-> {"DEP_CYCLE"}, defs |-> <<>>, table |-> table]
     ELSE Settle(RemoveAt(todo, i), (def.name :> def.addr) @@ addrs, Entered(table, enc), Append(defs, def))

\* lowerModule: any diagnostic, and there are no definitions.
Gated(settled, denied, table) ==
  IF settled.codes \cup denied = {} THEN settled
  ELSE [codes |-> settled.codes \cup denied, defs |-> <<>>, table |-> table]
AllGated(all, table) == Gated(Settle(all, <<>>, table, <<>>), UNION {all[i].codes : i \in DOMAIN all}, table)
LowerModule(mod, table) == AllGated([i \in DOMAIN mod.decls |-> LowerDecl(mod.decls[i], mod)], table)
=============================================================================
