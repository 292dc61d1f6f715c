----------------------------- MODULE CekMachine ------------------------------
(***************************************************************************)
(* One transition of the CEK machine of internal/cek: Step(m), from        *)
(* machine.go, eval.go, apply.go, control.go, loops.go, assign.go and      *)
(* unwind.go, with the natives of native.go.                               *)
(*                                                                         *)
(* A machine is a record of the registers of the Go struct.  `at` stands   *)
(* for the live node pointer, as the place <<definition, path>> where the  *)
(* node really is; `path` is the register the code computes beside it,     *)
(* the only one of the two that a park writes down.  Frames hold both in   *)
(* the same way.  Frames that only collect operands (calls, literals,      *)
(* operators, targets) keep what they have collected in vals, in place of  *)
(* the code's Vals, Obj, Key and IdxVal.                                   *)
(***************************************************************************)
EXTENDS CekValues

CONSTANT Granted    \* the capability names the principal holds

NoSignal == [kind |-> "none", val |-> Undef]
Signal(kind, v) == [kind |-> kind, val |-> v]

Here(m) == Navigate(m.at[1], m.at[2])
NodeOf(f) == Navigate(f.at[1], f.at[2])
Top(m) == Last(m.kont)

NewFrame(m, kind) ==
  [kind |-> kind, at |-> m.at, path |-> m.path, idx |-> 0, aux |-> 0, phase |-> "", vals |-> <<>>,
   env |-> m.env, outer |-> m.env, obj |-> Undef, pend |-> NoSignal,
   retDef |-> "", retPath |-> <<>>, retEnv |-> 0]
RetFrame(m, path) ==
  [NewFrame(m, "Ret") EXCEPT !.path = <<>>, !.at = <<"", <<>>>>, !.env = 0, !.outer = 0,
                             !.retDef = m.def, !.retPath = path, !.retEnv = m.env]

Push(m, f) == [m EXCEPT !.kont = Append(@, f)]
Pop(m) == [m EXCEPT !.kont = Front(@)]
WithTop(m, f) == [m EXCEPT !.kont = Append(Front(@), f)]

\* Evaluate the node at a path below frame f's node.
Goto(m, f, down) ==
  [m EXCEPT !.mode = "eval", !.at = <<f.at[1], f.at[2] \o down>>, !.path = f.path \o down]
Give(m, v) == [m EXCEPT !.mode = "apply", !.val = v]
Raise(m, sig) == [m EXCEPT !.mode = "unwind", !.sig = sig]
Halt(m, out, v) == [m EXCEPT !.out = out, !.val = v]
Fault(m) == [m EXCEPT !.out = "error"]    \* fail closed
GiveIf(m, v) == IF v = <<>> THEN Fault(m) ELSE Give(m, v)
PushEnv(m, parent, slots) ==
  LET e == New(m.heap, EnvObj(parent, slots)) IN [m EXCEPT !.heap = e.heap, !.env = e.id]

\* mutant: a scope is left without its environment.
LeaveInside(m, f) == Pop(m)

\* A scope is left: its frame is popped and the environment outside it restored.
Leave(m, f) == [Pop(m) EXCEPT !.env = f.outer]

-----------------------------------------------------------------------------
\* Natives: what a call records, gives or parks on.

Effect(name, v) == [name |-> name, val |-> v]
Asks(class) == [park |-> "signal", eff |-> <<>>, val |-> Undef, on |-> class]
Waits(wake) == [park |-> "wake", eff |-> <<>>, val |-> Undef, on |-> wake]
Returns(eff, v) == [park |-> "no", eff |-> eff, val |-> v, on |-> ""]

\* The first argument has tag t.
First(args, t) == Len(args) > 0 /\ args[1][1] = t

Native(name, heap, args) ==
  CASE name = "mail.send" /\ "mail.send" \notin Granted -> Asks("capability.revoked")
    [] name = "mail.send" ->
         Returns(<<Effect("mail", IF Len(args) > 0 THEN args[1] ELSE Str(""))>>, Str("intent"))
    [] name \in {"contract.pre", "contract.post"} ->
         IF Len(args) > 0 /\ Truthy(args[1]) THEN Returns(<<>>, Undef) ELSE Asks("contract.violated")
    [] name = "wf.sleep" -> IF First(args, "num") THEN Waits("timer") ELSE Asks("wf.arg")
    [] name = "wf.receive" -> IF First(args, "str") THEN Waits("message") ELSE Asks("wf.arg")
    [] name = "taak.onChange" -> IF First(args, "str") THEN Waits("event") ELSE Asks("taak.arg")
    [] name = "taak.signal" -> Asks(IF First(args, "str") THEN args[1][2] ELSE "taak.arg")
    [] name = "wf.send" ->
         IF First(args, "str") /\ Len(args) > 1
           THEN Returns(<<Effect("send", args[2])>>, Undef) ELSE Asks("wf.arg")
    [] name \in {"wf.all", "wf.race"} ->
         IF ~ First(args, "arr") THEN Asks("wf.arg")
         ELSE IF \E i \in DOMAIN heap[args[1][2]].vals : heap[args[1][2]].vals[i][1] # "clo"
           THEN Asks("wf.thunk") ELSE Waits("join")

\* A parked call re-enters in Apply mode: its frame is popped before the snapshot.
PerformNative(m, f, name) ==
  LET r == Native(name, m.heap, Tail(f.vals))
      told == [Pop(m) EXCEPT !.eff = @ \o r.eff]
  IN IF r.park = "no" THEN Give(told, r.val)
     ELSE [Give(told, Undef) EXCEPT !.path = f.path, !.out = r.park, !.on = r.on]

EnterCall(m, f, callee, act) ==
  LET body == callee[3] \o <<4>>
  IN [Push(Pop(m), RetFrame(m, f.path)) EXCEPT
        !.def = callee[2], !.heap = act.heap, !.env = act.id,
        !.at = <<callee[2], body>>, !.path = body, !.mode = "eval"]
PerformCall(m, f) ==
  LET callee == f.vals[1]
      fn == Navigate(callee[2], callee[3])
  IN IF callee[1] # "clo" THEN Fault(m)
     ELSE IF fn.k = "Native" THEN PerformNative(m, f, fn.u)
     ELSE IF fn.k # "Func" THEN Fault(m)
     ELSE EnterCall(m, f, callee, BindParams(m.heap, fn, Tail(f.vals), callee[4]))

-----------------------------------------------------------------------------
\* Expressions: collect the operands in order, then finish.

Logical == {"&&", "||", "??"}
BaseOf == [o \in {"=", "&&=", "||=", "??="} |-> "none"] @@ ("+=" :> "+") @@ ("-=" :> "-") @@ ("*=" :> "*")
IsAssign(n) == n.k = "Binary" /\ n.u \in DOMAIN BaseOf

\* The place an assignment or an update writes to: paths below the node.
TargetPaths(target) == CASE target.k = "Local" -> <<>>
                         [] target.k = "Member" -> <<<<1, 1>>>>
                         [] target.k = "Index" -> <<<<1, 1>>, <<1, 2>>>>

Operands(f) ==
  LET n == NodeOf(f)
      list(i) == n.kids[i].kids
      each(i) == [j \in DOMAIN list(i) |->
                    IF list(i)[j].k = "Spread" THEN <<i, j, 1>>
                    ELSE IF f.kind = "Object" THEN <<i, j, 2>> ELSE <<i, j>>]
  IN CASE f.kind = "Call" -> <<<<1>>>> \o each(2)
       [] f.kind \in {"Array", "Object"} -> each(1)
       [] f.kind = "Template" -> SelectSeq(each(1), LAMBDA p : n.kids[1].kids[p[2]].k # "StrPart")
       [] f.kind = "Assign" -> TargetPaths(n.kids[1]) \o <<<<2>>>>
       [] f.kind = "Update" -> TargetPaths(n.kids[1])
       [] f.kind \in {"Binary", "Index"} -> <<<<1>>, <<2>>>>
       [] OTHER -> <<<<1>>>>

\* What the target of an assignment holds, and the heap after v is written to it.
Target(m, n, vals) ==
  LET t == n.kids[1] IN CASE t.k = "Local" -> Lookup(m.heap, m.env, t.u)
                          [] t.k = "Member" -> GetMember(m.heap, vals[1], t.u)
                          [] t.k = "Index" -> GetIndex(m.heap, vals[1], vals[2])
WriteTarget(m, n, vals, v) ==
  LET t == n.kids[1] IN CASE t.k = "Local" -> Assign(m.heap, m.env, t.u, v)
                          [] t.k = "Member" -> SetMember(m.heap, vals[1], t.u, v)
                          [] t.k = "Index" -> SetIndex(m.heap, vals[1], vals[2], v)

FinishAssign(m, f, n) ==
  LET rhs == Last(f.vals)
      v == IF BaseOf[n.u] = "none" THEN rhs ELSE BinOp(BaseOf[n.u], f.obj, rhs)
  IN IF v = <<>> THEN Fault(m)
     ELSE Give([Pop(m) EXCEPT !.heap = WriteTarget(m, n, f.vals, v)], v)

\* updateValue: both are numbers whatever the old value is.  flag: prefix, the new value;
\* otherwise the old one.
FinishUpdate(m, f, n) ==
  LET old == ToNum(Target(m, n, f.vals))
      new == Num(IF n.u = "+" THEN old + 1 ELSE old - 1)
  IN Give([Pop(m) EXCEPT !.heap = WriteTarget(m, n, f.vals, new)], IF n.flag THEN new ELSE Num(old))

FinishTemplate(n, vals) ==
  LET part(acc, p) == IF p.k = "StrPart" THEN [acc EXCEPT !.text = @ \o p.u]
                      ELSE [text |-> acc.text \o ToStr(vals[acc.i]), i |-> acc.i + 1]
  IN Str(FoldLeft(part, [text |-> "", i |-> 1], n.kids[1].kids).text)

Finish(m, f) ==
  LET n == NodeOf(f)
      v == f.vals
      arr == New(m.heap, ArrObj(v))
  IN CASE f.kind = "Call" -> PerformCall(m, f)
       [] f.kind = "Array" -> Give([Pop(m) EXCEPT !.heap = arr.heap], <<"arr", arr.id>>)
       [] f.kind = "Object" -> Give(Pop(m), f.obj)
       [] f.kind = "Template" -> Give(Pop(m), FinishTemplate(n, v))
       [] f.kind = "Update" -> FinishUpdate(m, f, n)
       [] f.kind = "Assign" -> FinishAssign(m, f, n)
       [] f.kind = "Binary" /\ n.u = "in" -> Give(Pop(m), Bool(HasOwn(m.heap, ToStr(v[1]), v[2])))
       [] f.kind = "Binary" -> GiveIf(Pop(m), BinOp(n.u, v[1], v[2]))
       [] f.kind = "Unary" -> GiveIf(Pop(m), UnaryOp(n.u, v[1]))
       [] f.kind = "Typeof" -> Give(Pop(m), Str(TypeOf(v[1])))
       [] f.kind = "Await" -> Give(Pop(m), v[1])
       [] f.kind = "Member" -> Give(Pop(m), GetMember(m.heap, v[1], n.u))
       [] f.kind = "Index" -> Give(Pop(m), GetIndex(m.heap, v[1], v[2]))
       [] f.kind = "ExprStmt" -> Give(Pop(m), Undef)
       [] f.kind = "Return" -> Raise(Pop(m), Signal("return", v[1]))
       [] f.kind = "Throw" -> Raise(Pop(m), Signal("throw", v[1]))

\* f, which becomes the top frame, has f.idx operands.
Advance(m, f) ==
  LET ps == Operands(f)
  IN IF f.idx < Len(ps) THEN Goto(WithTop(m, f), f, ps[f.idx + 1]) ELSE Finish(WithTop(m, f), f)

\* An operand has its value: it joins the others, spread into them or into the
\* object under construction.  A compound assignment reads its target as soon
\* as the target is known, before the right-hand side runs.
Gather(m, f) ==
  LET n == NodeOf(f)
      p == Operands(f)[f.idx + 1]
      part == IF Len(p) > 1 THEN n.kids[p[1]].kids[p[2]] ELSE n
      next == [f EXCEPT !.idx = @ + 1]
      more == Append(f.vals, m.val)
      elems == IF m.val[1] = "arr" THEN m.heap[m.val[2]].vals ELSE <<>>
  IN IF f.kind \in {"Member", "Index", "Call"} /\ n.flag /\ f.idx = 0 /\ Nullish(m.val)
       THEN Give(Pop(m), Undef)
     ELSE IF f.kind = "Object"
       THEN Advance([m EXCEPT !.heap = IF part.k = "Spread" THEN MergeInto(@, f.obj, m.val)
                                       ELSE SetMember(@, f.obj, part.kids[1].u, m.val)], next)
     ELSE IF f.kind \in {"Array", "Call"} /\ part.k = "Spread"
       THEN Advance(m, [next EXCEPT !.vals = @ \o elems])
     ELSE IF f.kind = "Assign" /\ BaseOf[n.u] # "none" /\ next.idx = Len(TargetPaths(n.kids[1]))
       THEN Advance(m, [next EXCEPT !.vals = more, !.obj = Target(m, n, more)])
     ELSE Advance(m, [next EXCEPT !.vals = more])

LogicalTarget == ("&&=" :> "&&") @@ ("||=" :> "||") @@ ("??=" :> "??")
Short(op, v) == CASE op = "&&" -> ~ Truthy(v)  [] op = "||" -> Truthy(v)  [] op = "??" -> ~ Nullish(v)

EvalAssign(m, n) ==
  LET f == NewFrame(m, "Assign")
      cur == Lookup(m.heap, m.env, n.kids[1].u)
      local == n.kids[1].k = "Local"
  IN IF n.u \in DOMAIN LogicalTarget
       THEN IF ~ local THEN Fault(m)
            ELSE IF Short(LogicalTarget[n.u], cur) THEN Give(m, cur) ELSE Advance(Push(m, f), f)
       ELSE LET g == IF local /\ BaseOf[n.u] # "none" THEN [f EXCEPT !.obj = cur] ELSE f
            IN Advance(Push(m, g), g)

EvalObject(m) ==
  LET r == New(m.heap, RecObj(<<>>, <<>>))
      f == [NewFrame(m, "Object") EXCEPT !.obj = <<"rec", r.id>>]
  IN Advance(Push([m EXCEPT !.heap = r.heap], f), f)

ResumeLogic(m, f) ==
  LET n == NodeOf(f)
  IN IF f.idx = 1 \/ Short(n.u, m.val) THEN Give(Pop(m), m.val)
     ELSE Goto(WithTop(m, [f EXCEPT !.idx = 1]), f, <<2>>)

\* if, and the conditional expression
ResumeBranch(m, f) ==
  LET n == NodeOf(f)
  IN IF Truthy(m.val) THEN Goto(Pop(m), f, <<2>>)
     ELSE IF Absent(n.kids[3]) THEN Give(Pop(m), Undef) ELSE Goto(Pop(m), f, <<3>>)

-----------------------------------------------------------------------------
\* Statements.

BlockAdvance(m, f) ==
  IF f.idx < Len(NodeOf(f).kids[1].kids)
    THEN Goto(WithTop(m, f), f, <<1, f.idx + 1>>)
    ELSE Give(Leave(m, f), Undef)

\* Every initialiser runs in the environment before the declaration.
RECURSIVE VarDeclAdvance(_, _)
VarDeclAdvance(m, f) ==
  LET decls == NodeOf(f).kids[1].kids
      d == decls[f.idx + 1]
      b == BindPattern([heap |-> m.heap, slots |-> f.vals], d.kids[1], Undef)
  IN IF f.idx = Len(decls) THEN Give(PushEnv(Pop(m), m.env, f.vals), Undef)
     ELSE IF Absent(d.kids[3])
       THEN VarDeclAdvance([m EXCEPT !.heap = b.heap], [f EXCEPT !.vals = b.slots, !.idx = @ + 1])
     ELSE Goto(WithTop(m, f), f, <<1, f.idx + 1, 3>>)
ResumeVarDecl(m, f) ==
  LET d == NodeOf(f).kids[1].kids[f.idx + 1]
      b == BindPattern([heap |-> m.heap, slots |-> f.vals], d.kids[1], m.val)
  IN VarDeclAdvance([m EXCEPT !.heap = b.heap], [f EXCEPT !.vals = b.slots, !.idx = @ + 1])

\* Go to phase `phase` of a loop, in environment env.
Phase(m, f, phase, env, down) ==
  Goto([WithTop(m, [f EXCEPT !.phase = phase]) EXCEPT !.env = env], f, down)

ForBody(m, f) == Phase(m, f, "body", f.env, <<4>>)
ForCond(m, f) == IF Absent(NodeOf(f).kids[2]) THEN ForBody(m, f) ELSE Phase(m, f, "cond", f.env, <<2>>)
ForIncr(m, f) == IF Absent(NodeOf(f).kids[3]) THEN ForCond(m, f) ELSE Phase(m, f, "incr", f.env, <<3>>)
EvalFor(m) ==
  LET f == [NewFrame(m, "For") EXCEPT !.phase = "init"]
  IN IF Absent(NodeOf(f).kids[1]) THEN ForCond(Push(m, f), f) ELSE Goto(Push(m, f), f, <<1>>)
ResumeFor(m, f) ==
  CASE f.phase = "init" -> ForCond(m, [f EXCEPT !.env = m.env])
    [] f.phase = "cond" -> IF Truthy(m.val) THEN ForBody(m, f) ELSE Give(Leave(m, f), Undef)
    [] f.phase = "body" -> ForIncr(m, f)
    [] f.phase = "incr" -> ForCond(m, f)

WhileCond(m, f) == Phase(m, f, "cond", f.outer, <<1>>)
ResumeWhile(m, f) ==
  CASE f.phase = "body" -> WhileCond(m, f)
    [] Truthy(m.val) -> Phase(m, f, "body", f.outer, <<2>>)
    [] OTHER -> Give(Leave(m, f), Undef)

\* The first pass is entered through setChildControl, which moves the node and
\* not the path register.
EvalDoWhile(m) ==
  LET f == [NewFrame(m, "DoWhile") EXCEPT !.phase = "body"]
  IN [Goto(Push(m, f), f, <<1>>) EXCEPT !.path = m.path]
DoWhileCond(m, f) == Phase(m, f, "cond", f.outer, <<2>>)
ResumeDoWhile(m, f) ==
  CASE f.phase = "body" -> DoWhileCond(m, f)
    [] Truthy(m.val) -> Phase(m, f, "body", f.outer, <<1>>)
    [] OTHER -> Give(Leave(m, f), Undef)

\* A fresh binding for every element; f.idx counts the elements taken.
ForOfStep(m, f) ==
  LET elems == IF f.obj[1] = "arr" THEN m.heap[f.obj[2]].vals ELSE <<>>
      pat == NodeOf(f).kids[1].kids[1].kids[1].kids[1]
      b == Bind(m.heap, pat, elems[f.idx + 1])
  IN IF f.idx >= Len(elems) THEN Give(Leave(m, f), Undef)
     ELSE Goto(PushEnv([WithTop(m, f) EXCEPT !.heap = b.heap], f.outer, b.slots), f, <<3>>)
ForOfNext(m, f) == ForOfStep(m, [f EXCEPT !.idx = @ + 1])
EvalForOf(m) ==
  LET f == [NewFrame(m, "ForOf") EXCEPT !.phase = "iter"] IN Goto(Push(m, f), f, <<2>>)
ResumeForOf(m, f) ==
  IF f.phase = "iter" THEN ForOfStep(m, [f EXCEPT !.phase = "body", !.obj = m.val])
  ELSE ForOfNext(m, f)

\* The clause whose constant equals the discriminant, else the default.  An
\* empty clause ends the switch: nothing falls through.
SwitchRun(m, f) ==
  IF f.idx < Len(NodeOf(f).kids[2].kids[f.aux].kids[2].kids)
    THEN Goto(WithTop(m, f), f, <<2, f.aux, 2, f.idx + 1>>)
    ELSE Give(Leave(m, f), Undef)
SwitchMatch(m, f) ==
  LET clauses == NodeOf(f).kids[2].kids
      hits == {i \in DOMAIN clauses : ~ clauses[i].flag /\ EvalConst(clauses[i].kids[1]) = m.val}
      defaults == {i \in DOMAIN clauses : clauses[i].flag}
      pick(S) == CHOOSE i \in S : \A j \in S : i <= j
      run(i) == SwitchRun(m, [f EXCEPT !.phase = "run", !.aux = i])
  IN IF hits # {} THEN run(pick(hits))
     ELSE IF defaults # {} THEN run(pick(defaults)) ELSE Give(Leave(m, f), Undef)
ResumeSwitch(m, f) ==
  IF f.phase = "disc" THEN SwitchMatch(m, f) ELSE SwitchRun(m, [f EXCEPT !.idx = @ + 1])
EvalSwitch(m) ==
  LET f == [NewFrame(m, "Switch") EXCEPT !.phase = "disc"] IN Goto(Push(m, f), f, <<1>>)

EvalTry(m) ==
  LET n == Here(m)
      f == NewFrame(m, "Try")
      catch == IF Absent(n.kids[2]) THEN <<>> ELSE <<[f EXCEPT !.kind = "Catch"]>>
      finally == IF Absent(n.kids[3]) THEN <<>> ELSE <<[f EXCEPT !.kind = "Finally"]>>
  IN Goto([m EXCEPT !.kont = @ \o finally \o catch], f, <<1>>)

\* mutant: the finally frame is left under the block it runs.
TriggerFinallyTwice(m, f, pend) ==
  LET run == [f EXCEPT !.kind = "FinallyRun", !.env = 0, !.pend = pend]
  IN Goto([Push(m, run) EXCEPT !.env = f.outer], f, <<3>>)

\* The finally block runs with the signal that waits for it on its frame.
TriggerFinally(m, f, pend) ==
  LET run == [f EXCEPT !.kind = "FinallyRun", !.env = 0, !.pend = pend]
  IN Goto([WithTop(m, run) EXCEPT !.env = f.outer], f, <<3>>)
ResumeFinallyRun(m, f) ==
  IF f.pend.kind = "none" THEN Give(Pop(m), Undef) ELSE Raise(Pop(m), f.pend)

RestoreCaller(m, f) == [m EXCEPT !.def = f.retDef, !.env = f.retEnv, !.path = f.retPath]
Return(m, f, v) == IF Len(m.kont) = 1 THEN Halt(m, "done", v) ELSE Give(RestoreCaller(Pop(m), f), v)

-----------------------------------------------------------------------------
\* The three modes.

Plain == {"Array", "Call", "Member", "Index", "Unary", "Update", "Typeof", "Await", "Template",
          "ExprStmt", "Throw", "Return", "Binary"}

EvalPlain(m, n) ==
  LET f == NewFrame(m, n.k)
  IN IF IsAssign(n) THEN EvalAssign(m, n)
     ELSE IF n.k = "Binary" /\ n.u \in Logical THEN Goto(Push(m, [f EXCEPT !.kind = "Logic"]), f, <<1>>)
     ELSE IF n.k = "Return" /\ Absent(n.kids[1]) THEN Raise(m, Signal("return", Undef))
     ELSE Advance(Push(m, f), f)

EvalStep(m) ==
  LET n == Here(m)
      f == NewFrame(m, n.k)
  IN CASE n.k \in Literal -> Give(m, n.u)
       [] n.k = "Local" -> IF Bound(m.heap, m.env, n.u) THEN Give(m, Lookup(m.heap, m.env, n.u)) ELSE Fault(m)
       [] n.k = "Ref" -> Give(m, Closure(n.u, <<>>, 0))
       [] n.k = "SelfRef" -> Give(m, Closure(m.def, <<>>, 0))
       [] n.k = "Func" -> Give(m, Closure(m.def, m.path, m.env))
       [] n.k \in {"AsConst", "Satisfy"} -> Goto(m, m, <<1>>)
       [] n.k \in Plain -> EvalPlain(m, n)
       [] n.k = "Object" -> EvalObject(m)
       [] n.k \in {"If", "Cond"} -> Goto(Push(m, f), f, <<1>>)
       [] n.k = "Block" -> BlockAdvance(Push(m, f), f)
       [] n.k = "VarDecl" -> VarDeclAdvance(Push(m, f), f)
       [] n.k = "For" -> EvalFor(m)
       [] n.k = "ForOf" -> EvalForOf(m)
       [] n.k = "While" -> WhileCond(Push(m, f), f)
       [] n.k = "DoWhile" -> EvalDoWhile(m)
       [] n.k = "Switch" -> EvalSwitch(m)
       [] n.k = "Try" -> EvalTry(m)
       [] n.k = "Break" -> Raise(m, Signal("break", Undef))
       [] n.k = "Continue" -> Raise(m, Signal("continue", Undef))
       [] OTHER -> Fault(m)

ApplyStep(m) ==
  LET f == Top(m)
  IN CASE f.kind = "Ret" -> Return(m, f, m.val)
       [] f.kind = "Block" -> BlockAdvance(m, [f EXCEPT !.idx = @ + 1])
       [] f.kind = "VarDecl" -> ResumeVarDecl(m, f)
       [] f.kind \in {"If", "Cond"} -> ResumeBranch(m, f)
       [] f.kind = "Logic" -> ResumeLogic(m, f)
       [] f.kind = "For" -> ResumeFor(m, f)
       [] f.kind = "ForOf" -> ResumeForOf(m, f)
       [] f.kind = "While" -> ResumeWhile(m, f)
       [] f.kind = "DoWhile" -> ResumeDoWhile(m, f)
       [] f.kind = "Switch" -> ResumeSwitch(m, f)
       [] f.kind = "Catch" -> Give(Pop(m), m.val)
       [] f.kind = "Finally" -> TriggerFinally(m, f, NoSignal)
       [] f.kind = "FinallyRun" -> ResumeFinallyRun(m, f)
       [] OTHER -> Gather(m, f)

Uncaught(m) == CASE m.sig.kind = "throw" -> Halt(m, "faulted", m.sig.val)
                 [] m.sig.kind = "return" -> Halt(m, "done", m.sig.val)
                 [] OTHER -> Fault(m)

Crossing(m, f) == IF Len(m.kont) = 1 THEN Uncaught(m) ELSE RestoreCaller(Pop(m), f)

Catch(m, f) ==
  LET c == NodeOf(f).kids[2]
      b == Bind(m.heap, c.kids[1], m.sig.val)
      env == IF c.flag THEN PushEnv([Pop(m) EXCEPT !.heap = b.heap], f.outer, b.slots)
             ELSE [Pop(m) EXCEPT !.env = f.outer]
  IN IF m.sig.kind = "throw" THEN Goto(env, f, <<2, 2>>) ELSE Pop(m)

\* A loop takes break and continue and lets the rest pass.
LoopUnwind(m, f, continued) ==
  CASE m.sig.kind = "break" -> Give(Leave(m, f), Undef)
    [] m.sig.kind = "continue" -> continued
    [] OTHER -> Leave(m, f)

UnwindStep(m) ==
  LET f == Top(m)
  IN CASE f.kind = "Ret" -> IF m.sig.kind = "return" THEN Return(m, f, m.sig.val) ELSE Crossing(m, f)
       [] f.kind = "Catch" -> Catch(m, f)
       [] f.kind = "Finally" -> TriggerFinally(m, f, m.sig)
       [] f.kind = "For" -> LoopUnwind(m, f, ForIncr(m, f))
       [] f.kind = "While" -> LoopUnwind(m, f, WhileCond(m, f))
       [] f.kind = "DoWhile" -> LoopUnwind(m, f, DoWhileCond(m, f))
       [] f.kind = "ForOf" -> LoopUnwind(m, f, ForOfNext(m, f))
       [] f.kind = "Switch" -> IF m.sig.kind = "break" THEN Give(Leave(m, f), Undef) ELSE Leave(m, f)
       [] OTHER -> Pop(m)

Step(m) == CASE m.mode = "eval" -> EvalStep(m)
             [] m.mode = "apply" -> ApplyStep(m)
             [] m.mode = "unwind" -> UnwindStep(m)
=============================================================================
