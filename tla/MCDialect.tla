------------------------------- MODULE MCDialect -------------------------------
\* Modules of a function f(x, y) whose body is two or three statements out of a
\* list, next to a function g and under an import, and modules of types.
EXTENDS DialectGate

CONSTANT Shapes  \* which families are submitted

MCStrings == <<"", "!", "+", "++", "+=", "-", "1", "2", "3", "4", "5", "6", "7", "8", "9", "<", "=", "S", "T", "_ref",
               "_Unbound", "_unbound", "a", "at", "b", "f", "g", "h", "m", "number", "send", "string",
               "u", "v", "w", "x", "y", "z">>

Num(i) == N("Num", "", i, <<>>)
X == Id("x")
Y == Id("y")
Z == Id("z")
U == Id("u")
B(name) == N("BindId", name, 0, <<>>)
Call(f, args) == N("Call", "", 0, <<f, List(args), None>>)
Op(op, a, b) == N("Binary", op, 0, <<a, b>>)
Set(a, b) == Op("=", a, b)
Incr(a) == N("Update", "++", 0, <<a>>)
Do(e) == N("ExprStmt", "", 0, <<e>>)
Ret(e) == N("Return", "", 0, <<e>>)
Block(ns) == N("Block", "", 0, <<List(ns)>>)
Declare(pat, e) == N("Declr", "", 0, <<pat, None, e>>)
Let(name, e) == N("VarDecl", "", 0, <<List(<<Declare(B(name), e)>>)>>)
Const(name, e) == N("VarDecl", "", 1, <<List(<<Declare(B(name), e)>>)>>)
ConstPat(pat, e) == N("VarDecl", "", 1, <<List(<<Declare(pat, e)>>)>>)
Par(pat, type, def) == N("Param", "", 0, <<pat, type, def>>)
Pars(names) == List([i \in DOMAIN names |-> Par(B(names[i]), None, None)])
Fn(u, params, body) == N("Func", "", u, <<params, List(<<>>), None, body>>)
Arrow(names, e) == Fn(2, Pars(names), e)
Key(name) == N("StrPart", name, 0, <<>>)
Prop(name, pat, def) == N("BindProp", "", 0, <<Key(name), pat, def>>)
Clause(test, ns) == N("Clause", "", IF test = None THEN 1 ELSE 0, <<test, List(ns)>>)
Stop == N("Break", "", 0, <<>>)
G(e) == Do(Call(Id("g"), <<e>>))
H == Id("h")
Keyword(s) == N("TKeyword", s, 0, <<>>)
Type(name) == N("TRef", name, 0, <<List(<<>>)>>)
TParam(name, bound) == N("TParam", name, 0, <<bound, None>>)

Stmts == <<
  Let("u", X),
  Const("u", Op("+", X, Y)),
  N("VarDecl", "", 0, <<List(<<Declare(B("u"), X), Declare(B("v"), Y)>>)>>),
  Const("u", Arrow(<<>>, X)),
  Const("v", Arrow(<<"y">>, Op("+", U, Y))),
  Do(Set(U, Num(-3))),
  Do(Op("+=", X, Num(1))),
  Do(Incr(N("Paren", "", 0, <<Y>>))),
  Block(<<Const("x", Y), G(X), Block(<<Const("y", X), G(Y)>>), G(Y)>>),
  Block(<<Let("x", U), Const("w", Arrow(<<>>, X)), Do(Op("+=", X, Num(1))), G(Id("w"))>>),
  Block(<<Let("x", Num(1)), Const("w", Arrow(<<"x">>, X)), Do(Set(X, Num(2)))>>),
  N("If", "", 0, <<X, Block(<<Const("y", X), G(Y)>>), G(Y)>>),
  N("For", "", 0, <<Let("x", Num(0)), Op("<", X, Y), Incr(X), Block(<<Const("y", X), G(Y)>>)>>),
  N("For", "", 0, <<Let("v", Num(0)), Op("<", Id("v"), Y), Incr(Id("v")), G(Arrow(<<>>, Id("v")))>>),
  N("ForOf", "", 0, <<Const("x", None), Y, G(X)>>),
  N("ForOf", "", 0, <<ConstPat(N("ArrayPat", "", 0, <<B("y"), None, B("x")>>), None), Z, Block(<<G(Arrow(<<"z">>, Op("+", X, Y)))>>)>>),
  N("While", "", 0, <<X, Block(<<Let("y", X), Do(Set(Y, U))>>)>>),
  N("DoWhile", "", 0, <<Block(<<Const("y", X), G(Y)>>), Y>>),
  N("Switch", "", 0, <<X, List(<<Clause(Num(1), <<Const("y", X), G(Y), Stop>>), Clause(Num(2), <<G(Y), Stop>>),
                                 Clause(None, <<>>)>>)>>),
  N("Switch", "", 0, <<X, List(<<Clause(Num(1), <<G(X)>>), Clause(None, <<Stop>>)>>)>>),
  N("Try", "", 0, <<Block(<<Const("x", Y), G(X)>>),
                    N("Catch", "", 1, <<B("y"), Block(<<G(Y), Do(Set(Y, X))>>)>>), Block(<<G(Y)>>)>>),
  N("Try", "", 0, <<Block(<<G(X)>>), N("Catch", "", 1, <<N("ObjPat", "", 0, <<Prop("x", B("y"), None)>>), Block(<<G(Arrow(<<>>, Y))>>)>>), None>>),
  ConstPat(N("ObjPat", "", 0, <<Prop("x", B("u"), X), N("BindShort", "", 0, <<B("v"), Y>>)>>), Y),
  ConstPat(N("ArrayPat", "", 0, <<B("u"), N("RestPat", "", 0, <<B("v")>>)>>), X),
  N("FuncDecl", "", 0, <<B("h"), Fn(0, Pars(<<"y">>), Block(<<Ret(Op("+", X, Y))>>))>>),
  N("FuncDecl", "", 0, <<B("h"), Fn(1, Pars(<<>>), Block(<<Do(N("Await", "", 0, <<Call(Id("send"), <<X>>)>>))>>))>>),
  Const("h", Fn(3, Pars(<<"x">>), Y)),
  Do(Call(H, <<X>>)),
  Do(Call(Id("f"), <<Y, X>>)),
  Do(Call(Id("send"), <<N("Object", "", 0, <<N("PropShort", "x", 0, <<>>), N("Spread", "", 0, <<Y>>),
                          N("Method", "", 0, <<Key("m"), Fn(0, Pars(<<"x">>), Block(<<Ret(X)>>))>>)>>)>>)),
  Ret(N("FuncExpr", "", 2, <<List(<<Par(B("y"), Type("T"), None),
                                    Par(B("x"), N("TQuery", "", 0, <<Y>>), Y)>>),
                             List(<<TParam("T", Keyword("number"))>>), Type("T"), X>>)),
  Ret(Arrow(<<"u">>, Arrow(<<"x">>, N("Cond", "", 0, <<X, U, Y>>)))),
  N("Empty", "", 0, <<>>),
  N("Banned", "BAN_DEBUGGER", 0, <<>>),
  Do(Id("eval")),
  Do(N("Member", "at", 0, <<N("Array", "", 0, <<X, Num(-1), N("Unary", "!", 0, <<Y>>)>>)>>))>>

Func(name, params, ns) == [name |-> name, kind |-> "func", async |-> FALSE, body |-> Fn(0, Pars(params), Block(ns))]
Value(name, e) == [name |-> name, kind |-> "value", async |-> IsAsyncFunc(e), body |-> e]
Alias(name, params, t) == [name |-> name, kind |-> "type", async |-> FALSE, body |-> N("TypeAlias", "", 0, <<List(params), t>>)]
Send == "send" :> [module |-> "std/msg", name |-> "send", addr |-> 1000]

G1 == Func("g", <<"x">>, <<Ret(X)>>)
Body(ns) == [decls |-> <<Func("f", <<"x", "y">>, ns), G1>>, imports |-> Send]
\* A scope declares a name once.
OnceEach(names) == \A a, b \in DOMAIN names : names[a] = names[b] => a = b
BodiesAfter(head) ==
  {Body(ns) : ns \in {ns \in {head \o <<Stmts[i], Stmts[j]>> : i, j \in DOMAIN Stmts} : OnceEach(DeclaredBy(ns))}}

TFn(tparams, params, ret) == N("TFunc", "", 0, <<List(tparams), List(params), ret>>)
Union(ns) == N("TUnion", "", 0, ns)
Sig(name, t) == N("TPropSig", name, 0, <<t>>)
Types == <<
  Alias("T", <<TParam("a", None), TParam("b", Type("a"))>>, Union(<<Type("b"), Type("a"), Type("x")>>)),
  Alias("T", <<TParam("a", None)>>, N("TObject", "", 0, <<Sig("y", Type("a")), Sig("x", N("TRef", "T", 0, <<List(<<Type("a")>>)>>))>>)),
  Alias("T", <<TParam("a", None)>>, TFn(<<TParam("b", Type("a")), TParam("a", None)>>,
                                        <<Par(B("x"), Type("a"), None), Par(B("y"), N("TQuery", "", 0, <<X>>), None)>>, Type("b"))),
  Alias("T", <<>>, Union(<<TFn(<<>>, <<Par(B("y"), Keyword("string"), None)>>, N("TQuery", "", 0, <<Y>>)),
                           TFn(<<>>, <<Par(B("x"), Keyword("number"), None)>>, N("TQuery", "", 0, <<X>>))>>)),
  Alias("T", <<TParam("a", None)>>, N("TMapped", "", 0, <<TParam("b", None), Type("a"), None, Union(<<Type("b"), Type("a")>>)>>)),
  Alias("T", <<>>, Union(<<Type("S"), N("TArray", "", 0, <<Type("S")>>), Keyword("number")>>)),
  Alias("S", <<>>, Union(<<Keyword("string"), Keyword("number")>>)),
  Alias("S", <<>>, Union(<<Keyword("number"), Keyword("string")>>)),
  Alias("S", <<TParam("T", None)>>, N("TObject", "", 0, <<N("MethodSig", "m", 0, <<TFn(<<>>, <<Par(B("x"), Type("T"), None)>>, Keyword("number"))>>)>>)),
  Alias("S", <<>>, N("TArray", "", 0, <<Type("T")>>)),
  Func("f", <<"x">>, <<Ret(Call(Id("g"), <<X>>))>>),
  Func("g", <<"y">>, <<Ret(Call(Id("f"), <<Y>>))>>),
  Func("g", <<"y">>, <<Ret(Call(Id("g"), <<Id("v")>>))>>),
  Value("v", Num(-1)),
  Value("v", Fn(3, Pars(<<"x">>), X)),
  Func("f", <<"g">>, <<Do(Call(Id("v"), <<Id("g")>>)), Ret(Id("g"))>>)>>
TypeModules ==
  {[decls |-> ds, imports |-> Send] :
    ds \in {ds \in {<<Types[i], Types[j], Types[k]>> : i, j, k \in DOMAIN Types} :
              OnceEach([a \in 1 .. 3 |-> ds[a].name])}}

MCModules ==
  UNION {CASE shape = "bodies" -> BodiesAfter(<<>>) \cup BodiesAfter(<<Let("u", X)>>)
           [] shape = "types" -> TypeModules
           [] shape = "siblings" -> {Body(<<N("VarDecl", "", 1, <<List(<<Declare(B("u"), X), Declare(B("v"), U)>>)>>), Ret(Id("v"))>>)}
         : shape \in Shapes}
=============================================================================
