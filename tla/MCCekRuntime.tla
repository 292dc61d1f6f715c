---------------------------- MODULE MCCekRuntime -----------------------------
(***************************************************************************)
(* Small programs for CekRuntime, each with the outcome and the effects    *)
(* that its text says.  Between them they go through every kind of frame.  *)
(***************************************************************************)
EXTENDS CekRuntime

N(k, u, flag, kids) == [k |-> k, u |-> u, flag |-> flag, kids |-> kids]
Node(k, kids) == N(k, 0, FALSE, kids)
List(kids) == Node("List", kids)
NoNode == Node("None", <<>>)
Lit(n) == N("Num", Num(n), FALSE, <<>>)
Text(s) == N("Str", Str(s), FALSE, <<>>)
Truth(b) == N("Bool", Bool(b), FALSE, <<>>)
NullNode == N("Null", Null, FALSE, <<>>)
Local(i) == N("Local", i, FALSE, <<>>)
Ref(d) == N("Ref", d, FALSE, <<>>)
Op(op, a, b) == N("Binary", op, FALSE, <<a, b>>)
Un(op, a) == N("Unary", op, FALSE, <<a>>)
Inc(target) == N("Update", "+", FALSE, <<target>>)
Call(f, args) == Node("Call", <<f, List(args), NoNode>>)
Std(name, args) == Call(Ref(name), args)
Do(e) == Node("ExprStmt", <<e>>)
Dot(o, key) == N("Member", key, FALSE, <<o>>)
At(o, i) == Node("Index", <<o, i>>)
Arr(es) == Node("Array", <<List(es)>>)
Prop(key, v) == Node("Prop", <<N("Name", key, FALSE, <<>>), v>>)
Obj(ps) == Node("Object", <<List(ps)>>)
Spread(e) == Node("Spread", <<e>>)
Id == Node("BindId", <<>>)
ArrPat(ps) == Node("ArrayPat", <<List(ps)>>)
ObjPat(ps) == Node("ObjPat", <<List(ps)>>)
BindProp(key, pat, init) == Node("BindProp", <<N("Name", key, FALSE, <<>>), pat, init>>)
Rest(p) == Node("RestPat", <<p>>)
Declr(pat, init) == Node("Declr", <<pat, NoNode, init>>)
Let(init) == Node("VarDecl", <<List(<<Declr(Id, init)>>)>>)
LetPat(pat, init) == Node("VarDecl", <<List(<<Declr(pat, init)>>)>>)
Block(ss) == Node("Block", <<List(ss)>>)
If(c, a, b) == Node("If", <<c, a, b>>)
For(i, c, s, b) == Node("For", <<i, c, s, b>>)
Each(pat, e, b) == Node("ForOf", <<LetPat(pat, NoNode), e, b>>)
While(c, b) == Node("While", <<c, b>>)
DoWhile(b, c) == Node("DoWhile", <<b, c>>)
Clause(c, ss) == Node("Clause", <<c, List(ss)>>)
Default(ss) == N("Clause", 0, TRUE, <<NoNode, List(ss)>>)
Switch(d, cs) == Node("Switch", <<d, List(cs)>>)
Ret(e) == Node("Return", <<e>>)
Throw(e) == Node("Throw", <<e>>)
CatchAs(b) == N("Catch", 0, TRUE, <<Id, b>>)
CatchAll(b) == Node("Catch", <<NoNode, b>>)
Try(b, c, f) == Node("Try", <<b, c, f>>)
Break == Node("Break", <<>>)
Continue == Node("Continue", <<>>)
Param(p) == Node("Param", <<p, NoNode, NoNode>>)
ParamOr(p, init) == Node("Param", <<p, NoNode, init>>)
RestParam(p) == N("Param", 0, TRUE, <<p, NoNode, NoNode>>)
Func(ps, b) == Node("Func", <<List(ps), List(<<>>), NoNode, b>>)
Main(ss) == Func(<<>>, Block(ss))

Sleep == Do(Std("wf.sleep", <<Lit(1)>>))
Mail(e) == Do(Std("mail.send", <<e>>))
Set(i, e) == Do(Op("=", Local(i), e))
Add(i, e) == Do(Op("+=", Local(i), e))

Natives == {"mail.send", "contract.pre", "wf.sleep", "wf.receive", "wf.send", "wf.all",
            "taak.onChange", "taak.signal"}

Programs ==
  LET natives == [n \in Natives |-> N("Native", n, FALSE, <<>>)] IN natives
  \* let s = 0; for (let i = 0; i < 3; i++) { if (i === 1) { continue } s += i + 1 }
  \* while (true) { if (s > 5) { break } s++; sleep }  return s
@@ "loops" :> Main(<<
    Let(Lit(0)),
    For(Let(Lit(0)), Op("<", Local(0), Lit(3)), Inc(Local(0)),
        Block(<<If(Op("===", Local(0), Lit(1)), Block(<<Continue>>), NoNode),
                Add(1, Op("+", Local(0), Lit(1)))>>)),
    While(Truth(TRUE), Block(<<If(Op(">", Local(0), Lit(5)), Block(<<Break>>), NoNode),
                               Do(Inc(Local(0))), Sleep>>)),
    Ret(Local(0))>>)
  \* const a = [1, 2]; const r = {x: a, y: 1}; sleep; r.x[0] += 6; a[2] = r.y++;
  \* return [a[0], a.length, r.x === a, r.y]
@@ "alias" :> Main(<<
    Let(Arr(<<Lit(1), Lit(2)>>)),
    Let(Obj(<<Prop("x", Local(0)), Prop("y", Lit(1))>>)),
    Sleep,
    Do(Op("+=", At(Dot(Local(0), "x"), Lit(0)), Lit(6))),
    Do(Op("=", At(Local(1), Lit(2)), Inc(Dot(Local(0), "y")))),
    Ret(Arr(<<At(Local(1), Lit(0)), Dot(Local(1), "length"),
              Op("===", Dot(Local(0), "x"), Local(1)), Dot(Local(0), "y")>>))>>)
  \* const mk = (n, d = 10) => () => { sleep; return n + d }; const f = mk(2);
  \* return f() + twice(...[3])
@@ "calls" :> Main(<<
    Let(Func(<<Param(Id), ParamOr(Id, Lit(10))>>,
             Block(<<Ret(Func(<<>>, Block(<<Sleep, Ret(Op("+", Local(1), Local(0)))>>)))>>))),
    Let(Call(Local(0), <<Lit(2)>>)),
    Ret(Op("+", Call(Local(0), <<>>), Call(Ref("twice"), <<Spread(Arr(<<Lit(3)>>))>>)))>>)
  \* (...xs) => { mail(xs.length); sleep; return 2 * xs[0] }
@@ "twice" :> Func(<<RestParam(Id)>>,
    Block(<<Mail(Dot(Local(0), "length")), Sleep, Ret(Op("*", Lit(2), At(Local(0), Lit(0))))>>))
  \* let n = receive("c"); return n < 1 ? 1 : n * fact(n - 1), through self
@@ "fact" :> Func(<<ParamOr(Id, Lit(3))>>, Block(<<
    Sleep,
    Ret(Node("Cond", <<Op("<", Local(0), Lit(2)), Lit(1),
                       Op("*", Local(0), Call(Node("SelfRef", <<>>), <<Op("-", Local(0), Lit(1))>>))>>))>>))
  \* let s = 0; try { for (const x of [1, 2]) { try { sleep; if (x === 2) { throw x } s += 1 }
  \* finally { sleep; s += 10; mail(s) } } } catch (e) { return s + e }
@@ "finally" :> Main(<<
    Let(Lit(0)),
    Try(Block(<<Each(Id, Arr(<<Lit(1), Lit(2)>>), Block(<<
          Try(Block(<<Sleep, If(Op("===", Local(0), Lit(2)), Throw(Local(0)), NoNode), Add(1, Lit(1))>>),
              NoNode,
              Block(<<Sleep, Add(1, Lit(10)), Mail(Local(1))>>))>>))>>),
        CatchAs(Block(<<Ret(Op("+", Local(1), Local(0)))>>)),
        NoNode)>>)
  \* try { try { throw 1 } catch { throw 2 } finally { mail(1) } } catch (e) { s = e } finally { sleep }
  \* return s; a break and a return that cross finally blocks
@@ "crossing" :> Main(<<
    Let(Lit(0)),
    Try(Block(<<Try(Block(<<Throw(Lit(1))>>), CatchAll(Block(<<Throw(Lit(2))>>)), Block(<<Mail(Lit(1))>>))>>),
        CatchAs(Block(<<Set(1, Local(0))>>)),
        Block(<<Sleep>>)),
    While(Truth(TRUE), Try(Block(<<Break>>), NoNode, Block(<<Let(Lit(7)), Add(1, Local(0))>>))),
    Try(Block(<<Ret(Local(0))>>), NoNode, Block(<<Sleep, Add(0, Lit(100)), Mail(Local(0))>>))>>)
  \* let {a, b = 4, ...r} = {...{a: 1}, ...[7], c: 2}; let [x, ...ys] = [a, b, ...[5]];
  \* return [`n${x}`, ys.length, r.c, typeof x, "0" in r, null?.q ?? !x, b && (b ||= 1)]
@@ "shapes" :> Main(<<
    LetPat(ObjPat(<<BindProp("a", Id, NoNode), BindProp("b", Id, Lit(4)), Rest(Id)>>),
           Obj(<<Spread(Obj(<<Prop("a", Lit(1))>>)), Spread(Arr(<<Lit(7)>>)), Prop("c", Lit(2))>>)),
    LetPat(ArrPat(<<Id, Rest(Id)>>), Arr(<<Local(2), Local(1), Spread(Arr(<<Lit(5)>>))>>)),
    Sleep,
    Ret(Arr(<<Node("Template", <<List(<<N("StrPart", "n", FALSE, <<>>), Local(1)>>)>>),
              Dot(Local(0), "length"), Dot(Local(2), "c"), Node("Typeof", <<Local(1)>>),
              Op("in", Text("0"), Local(2)),
              Op("??", N("Member", "q", TRUE, <<NullNode>>), Un("!", Local(1))),
              Op("&&", Local(3), Op("||=", Local(3), Lit(1)))>>))>>)
  \* const m = await receive("c"); switch (m) { case 1: mail(0); break; default: mail(m); break }
  \* const c = signal("stop"); switch (c.restart) { case "go": send("d", [m]); return c.restart }
@@ "talks" :> Main(<<
    Let(Node("Await", <<Std("wf.receive", <<Text("c")>>)>>)),
    Switch(Local(0), <<Clause(Lit(1), <<Mail(Lit(0)), Break>>), Default(<<Mail(Local(0)), Break>>)>>),
    Let(Std("taak.signal", <<Text("stop")>>)),
    Switch(Dot(Local(0), "restart"),
           <<Clause(Text("go"), <<Do(Std("wf.send", <<Text("d"), Arr(<<Local(1)>>)>>)),
                                  Ret(Dot(Local(0), "restart"))>>)>>)>>)
  \* pre(1 < 2); onChange("r"); const js = all([() => 1]); throw js
@@ "throws" :> Main(<<
    Do(Std("contract.pre", <<Op("<", Lit(1), Lit(2))>>)),
    Do(Std("taak.onChange", <<Text("r")>>)),
    Let(Std("wf.all", <<Arr(<<Func(<<>>, Block(<<Ret(Lit(1))>>))>>)>>)),
    Throw(Local(0))>>)
  \* let n = 0; do { n++; if (n === 2) { continue } } while (n < 3); return n
@@ "again" :> Main(<<
    Let(Lit(0)),
    DoWhile(Block(<<Do(Inc(Local(0))), If(Op("===", Local(0), Lit(2)), Block(<<Continue>>), NoNode)>>),
            Op("<", Local(0), Lit(3))),
    Ret(Local(0))>>)
  \* let n = 0; do { sleep; n += 1 } while (n < 0); return n
@@ "drifts" :> Main(<<
    Let(Lit(0)),
    DoWhile(Block(<<Sleep, Add(0, Lit(1))>>), Op("<", Local(0), Lit(0))),
    Ret(Local(0))>>)
  \* const x = 1; try { throw 5 } catch (e) { } return x
@@ "leaks" :> Main(<<
    Let(Lit(1)),
    Try(Block(<<Throw(Lit(5))>>), CatchAs(Block(<<>>)), NoNode),
    Ret(Local(0))>>)

JobOf(entry, tier, fuel, inbox, says, tells) ==
  [entry |-> entry, tier |-> tier, fuel |-> fuel, inbox |-> inbox, says |-> says, tells |-> tells]
Mailed(n) == <<"mail", Num(n)>>
Array(vs) == <<"arr", vs>>

Budgets == {1, 300}
Asleep(n) == [i \in 1 .. n |-> Undef]
Tiers == {"sandbox", "trusted"}
In(tier, entry, inbox, says, tells) ==
  JobOf(entry, tier, IF tier = "sandbox" THEN Budgets ELSE {300}, inbox, says, tells)

Jobs ==
  UNION {{
    In(t, "loops", Asleep(3), <<"done", Num(6)>>, <<>>),
    In(t, "alias", Asleep(1), <<"done", Array(<<Num(7), Num(3), Bool(TRUE), Num(2)>>)>>, <<>>),
    In(t, "calls", Asleep(2), <<"done", Num(18)>>, <<Mailed(1)>>),
    In(t, "fact", Asleep(3), <<"done", Num(6)>>, <<>>),
    In(t, "finally", Asleep(4), <<"done", Num(23)>>, <<Mailed(11), Mailed(21)>>),
    In(t, "crossing", Asleep(2), <<"done", Num(9)>>, <<Mailed(1), Mailed(109)>>),
    In(t, "shapes", Asleep(1),
       <<"done", Array(<<Str("n1"), Num(2), Num(2), Str("number"), Bool(TRUE), Bool(FALSE), Num(4)>>)>>, <<>>),
    In(t, "talks", <<Num(3)>>, <<"done", Str("go")>>, <<Mailed(3), <<"send", Array(<<Num(3)>>)>>>>),
    In(t, "throws", <<Undef, Num(1)>>, <<"faulted", Num(1)>>, <<>>)} : t \in Tiers}
  \cup {JobOf("again", "sandbox", {300}, <<>>, <<"done", Num(3)>>, <<>>)}

DriftJobs == {JobOf("drifts", "sandbox", {300}, Asleep(1), <<"done", Num(1)>>, <<>>)}
LeakJobs == {JobOf("leaks", "sandbox", {300}, <<>>, <<"done", Num(1)>>, <<>>)}
=============================================================================
