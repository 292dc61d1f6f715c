----------------------------- MODULE CekRuntime ------------------------------
(***************************************************************************)
(* A workflow from its first step to its end: the machine of CekMachine    *)
(* under its meter (meter.go, machine.go), parked as a CFR blob            *)
(* (cfr/codec.go, decode.go) and resumed (resume.go) when its wake fires   *)
(* or an operator picks a restart, with crashes that lose the running      *)
(* machine and keep the blob.                                              *)
(*                                                                         *)
(* The row is one continuation of the store, whose protocol is modelled in *)
(* ContinuationStore: here a park and its effects are committed at once.   *)
(***************************************************************************)
EXTENDS CekMachine

CONSTANTS
  Job,        \* a definition to run: [entry, tier, fuel, inbox, says, tells]
  Grant,      \* fuel an operator grants, of any amount
  DefaultFuel, \* DefaultFuelSteps
  GovEvery,   \* the governor looks every so many transitions (4096)
  GovCeiling, \* and stops a run past this many
  MaxCrashes  \* bound

ASSUME RuntimeAssumption ==
  /\ {GovEvery, GovCeiling, DefaultFuel} \subseteq Nat \ {0} /\ GovEvery > 1
  /\ Grant \subseteq Int /\ MaxCrashes \in Nat

VARIABLES
  job,     \* the job that runs
  m,       \* the machine in memory
  ticks,   \* sandbox: transitions left; trusted: transitions counted
  row,     \* the continuation row
  ledger,  \* effects of the committed steps, each with what became of it
  crashes

vars == <<job, m, ticks, row, ledger, crashes>>

Idle == [out |-> "idle"]
Sandbox == job.tier = "sandbox"

-----------------------------------------------------------------------------
\* The codec.  Objects are interned in the order of a depth-first walk from
\* the registers and the frames, once each, and referred to by index, so that
\* aliases and cycles survive; a node pointer is not written.

ObjOf(v) == IF v[1] \in {"arr", "rec"} THEN v[2] ELSE IF v[1] = "clo" THEN v[4] ELSE 0

RECURSIVE Intern(_, _, _)
Intern(heap, seen, id) ==
  IF id = 0 \/ id \in ToSet(seen) THEN seen
  ELSE FoldLeft(LAMBDA s, i : Intern(heap, s, i), Append(seen, id),
                <<heap[id].parent>> \o [i \in DOMAIN heap[id].vals |-> ObjOf(heap[id].vals[i])])

FrameRoots(f) ==
  <<f.env, f.outer, f.retEnv>> \o [i \in DOMAIN f.vals |-> ObjOf(f.vals[i])]
    \o <<ObjOf(f.obj), ObjOf(f.pend.val)>>
Roots(s) ==
  <<ObjOf(s.val), ObjOf(s.sig.val), s.env>> \o FlattenSeq([i \in DOMAIN s.kont |-> FrameRoots(s.kont[i])])

Encode(s) ==
  LET order == FoldLeft(LAMBDA seen, id : Intern(s.heap, seen, id), <<>>, Roots(s))
      ref(id) == IF id \in ToSet(order) THEN CHOOSE i \in DOMAIN order : order[i] = id ELSE 0
      val(v) == CASE v[1] \in {"arr", "rec"} -> <<v[1], ref(v[2])>>
                  [] v[1] = "clo" -> Closure(v[2], v[3], ref(v[4]))
                  [] OTHER -> v
      sig(g) == [g EXCEPT !.val = val(@)]
      vals(vs) == [i \in DOMAIN vs |-> val(vs[i])]
      obj(o) == [o EXCEPT !.parent = ref(@), !.vals = vals(@)]
      frame(f) == [f EXCEPT !.at = <<"", <<>>>>, !.vals = vals(@), !.obj = val(@), !.pend = sig(@),
                            !.env = ref(@), !.outer = ref(@), !.retEnv = ref(@)]
  IN [def |-> s.def, path |-> s.path, mode |-> s.mode, val |-> val(s.val), sig |-> sig(s.sig),
      env |-> ref(s.env), kont |-> [i \in DOMAIN s.kont |-> frame(s.kont[i])],
      heap |-> [i \in DOMAIN order |-> obj(s.heap[order[i]])]]
\* mutant: every frame is rebound in the definition that is running.
DefBelowFlat(blob, i) == blob.def

\* The definition whose code frame i runs in: the one its activation was
\* called into, or the one that is running when no call is above it.
DefBelow(blob, i) ==
  LET rets == {j \in i + 1 .. Len(blob.kont) : blob.kont[j].kind = "Ret"}
  IN IF rets = {} THEN blob.def ELSE blob.kont[CHOOSE j \in rets : \A k \in rets : j <= k].retDef

\* rebindNodes: a frame's node is found again from its path.
Rebind(blob) ==
  [i \in DOMAIN blob.kont |->
     LET f == blob.kont[i]
     IN IF f.kind = "Ret" THEN f ELSE [f EXCEPT !.at = <<DefBelow(blob, i), f.path>>]]
CanRebind(blob) ==
  \A i \in DOMAIN blob.kont :
    blob.kont[i].kind = "Ret" \/ Navigate(DefBelow(blob, i), blob.kont[i].path).k # "Nowhere"

Machine(blob) ==
  [def |-> blob.def, at |-> <<blob.def, blob.path>>, path |-> blob.path, env |-> blob.env,
   kont |-> Rebind(blob), mode |-> blob.mode, val |-> blob.val, sig |-> blob.sig,
   heap |-> blob.heap, eff |-> <<>>, out |-> "run", on |-> ""]

-----------------------------------------------------------------------------
\* A row.

\* The first snapshot of a workflow: its parameters bound, nothing run.
InitialState(entry) ==
  LET root == Defs[entry]
      act == BindParams(<<>>, root, <<>>, 0)
      fresh == [def |-> "", env |-> 0, path |-> <<>>, at |-> <<"", <<>>>>]
  IN Encode([def |-> entry, path |-> <<4>>, mode |-> "eval", val |-> Undef, sig |-> NoSignal,
             env |-> act.id, heap |-> act.heap, kont |-> <<RetFrame(fresh, <<>>)>>])

NewRow(entry, fuel) ==
  [status |-> "ready", park |-> "fresh", blob |-> InitialState(entry), fuel |-> fuel,
   due |-> Undef, woken |-> 0, on |-> "", end |-> <<>>]

Init ==
  /\ job \in Job
  /\ \E fuel \in job.fuel : row = NewRow(job.entry, fuel)
  /\ m = Idle /\ ticks = 0 /\ ledger = <<>> /\ crashes = 0

\* The restart a signal returns is a record that names it.
Delivered(s) ==
  CASE row.park = "wake" -> Give(s, row.due)
    [] row.park = "signal" ->
         LET r == New(s.heap, RecObj(<<"restart">>, <<row.due>>))
         IN Give([s EXCEPT !.heap = r.heap], <<"rec", r.id>>)
    [] OTHER -> s

\* A kernel takes the ready row: decode, rebind, deliver.  Every resume has a
\* meter of its own, and a trace of effects of its own.
Resume ==
  /\ m = Idle /\ row.status = "ready"
  /\ m' = LET s == Machine(row.blob) IN IF CanRebind(row.blob) THEN Delivered(s) ELSE Fault(s)
  /\ ticks' = IF Sandbox THEN row.fuel ELSE 0
  /\ UNCHANGED <<job, row, ledger, crashes>>

Running == m.out = "run"

\* The governor looks only at every GovEvery-th tick; whether its wall clock
\* has run out by then is anyone's guess.
Looks == (ticks + 1) % GovEvery = 0
WithinMeter == IF Sandbox THEN ticks > 0 ELSE Looks => ticks < GovCeiling
\* mutant: the last unit of fuel cannot be spent.
MayBreachEarly == IF Sandbox THEN ticks <= 1 ELSE Looks

MayBreach == IF Sandbox THEN ticks <= 0 ELSE Looks

Transition ==
  /\ Running /\ WithinMeter
  /\ m' = Step(m)
  /\ ticks' = IF Sandbox THEN ticks - 1 ELSE ticks + 1
  /\ UNCHANGED <<job, row, ledger, crashes>>

ParkMeter ==
  /\ Running /\ MayBreach
  /\ m' = [m EXCEPT !.out = "meter", !.on = IF Sandbox THEN "fuel.exhausted" ELSE "runaway"]
  /\ UNCHANGED <<job, ticks, row, ledger, crashes>>

\* The step ends: what it leaves is committed, and the machine is gone.  A
\* condition park drops the step's effects (park_outcome.go, parkCondition).
Fates(fate) == ledger \o [i \in DOMAIN m.eff |->
                            [name |-> m.eff[i].name, val |-> Render(m.heap, m.eff[i].val), fate |-> fate]]
CommitPark ==
  /\ m.out \in {"meter", "signal", "wake"}
  /\ row' = [row EXCEPT !.status = "asleep", !.park = m.out, !.on = m.on, !.blob = Encode(m)]
  /\ ledger' = Fates(IF m.out = "wake" THEN "told" ELSE "dropped")
  /\ m' = Idle
  /\ UNCHANGED <<job, ticks, crashes>>
CommitEnd ==
  /\ m.out \in {"done", "faulted", "error"}
  /\ row' = [row EXCEPT !.status = "over",
                        !.end = <<m.out, IF m.out = "error" THEN Undef ELSE Render(m.heap, m.val)>>]
  /\ ledger' = Fates(IF m.out = "done" THEN "told" ELSE "dropped")
  /\ m' = Idle
  /\ UNCHANGED <<job, ticks, crashes>>

\* The kernel dies before the commit: the row is as it was.
Crash ==
  /\ m # Idle /\ crashes < MaxCrashes
  /\ m' = Idle /\ crashes' = crashes + 1
  /\ UNCHANGED <<job, ticks, row, ledger>>

\* A timer, a message, an event or the children of a join: the row is ready
\* with the value its call returns.
Wake ==
  /\ row.status = "asleep" /\ row.park = "wake"
  /\ row' = [row EXCEPT !.status = "ready", !.woken = @ + 1,
                        !.due = IF row.on \in {"timer", "event"} THEN Undef ELSE job.inbox[row.woken + 1]]
  /\ UNCHANGED <<job, m, ticks, ledger, crashes>>

\* A restart: grant-fuel with an amount or without one (the row's own budget, or the
\* default if it has none left), grant-time, or the choice of a signal; every resume of
\* a sandbox row keeps the last budget it was given.
PickRestart ==
  /\ row.status = "asleep" /\ row.park # "wake"
  /\ \E fuel \in Grant \cup {IF row.fuel > 0 THEN row.fuel ELSE DefaultFuel} :
       row' = [row EXCEPT !.status = "ready", !.due = Str("go"),
                          !.fuel = IF row.park = "meter" /\ Sandbox THEN fuel ELSE @]
  /\ UNCHANGED <<job, m, ticks, ledger, crashes>>

\* The abort restart ends the row where it stands: no finally block runs.
Abort ==
  /\ row.status = "asleep" /\ row.park # "wake"
  /\ row' = [row EXCEPT !.status = "over", !.end = <<"aborted", Undef>>]
  /\ UNCHANGED <<job, m, ticks, ledger, crashes>>

Over == row.status = "over" /\ UNCHANGED vars

Next == Resume \/ Transition \/ ParkMeter \/ CommitPark \/ CommitEnd \/ Crash \/ Wake \/ PickRestart
          \/ Abort \/ Over

Spec == Init /\ [][Next]_vars

-----------------------------------------------------------------------------
\* The scope a node is in, as the lowerer numbers it: one flat stack of binders.

RECURSIVE Binders(_)
Binders(pat) ==
  LET sum(ns, part(_)) == FoldLeft(LAMBDA acc, x : acc + Binders(part(x)), 0, ns)
  IN CASE pat.k = "BindId" -> 1
       [] pat.k = "RestPat" -> Binders(pat.kids[1])
       [] pat.k = "ArrayPat" -> sum(pat.kids[1].kids, LAMBDA x : x)
       [] pat.k = "ObjPat" -> sum(pat.kids[1].kids, LAMBDA x : IF x.k = "RestPat" THEN x ELSE x.kids[2])
       [] pat.k = "VarDecl" -> sum(pat.kids[1].kids, LAMBDA x : x.kids[1])
       [] OTHER -> 0
BindersOf(nodes) == FoldLeft(LAMBDA acc, n : acc + Binders(n), 0, nodes)

\* The binders that node n puts in scope for what lies at path below it.
Introduced(n, path) ==
  CASE n.k = "Func" /\ path[1] = 4 -> FoldLeft(LAMBDA acc, p : acc + Binders(p.kids[1]), 0, n.kids[1].kids)
    [] n.k = "Block" /\ Len(path) > 1 -> BindersOf(SubSeq(n.kids[1].kids, 1, path[2] - 1))
    [] n.k = "Clause" /\ Len(path) > 1 -> BindersOf(SubSeq(n.kids[2].kids, 1, path[2] - 1))
    [] n.k = "For" /\ path[1] > 1 -> Binders(n.kids[1])
    [] n.k = "ForOf" /\ path[1] = 3 -> Binders(n.kids[1])
    [] n.k = "Catch" -> Binders(n.kids[1])
    [] OTHER -> 0
RECURSIVE Scope(_, _)
Scope(n, path) ==
  IF path = <<>> THEN 0 ELSE Introduced(n, path) + Scope(n.kids[path[1]], Tail(path))

RECURSIVE Depth(_, _)
Depth(heap, env) == IF env = 0 THEN 0 ELSE Len(heap[env].vals) + Depth(heap, heap[env].parent)

-----------------------------------------------------------------------------
\* Whatever the fuel, wherever the meters stop it, however often a kernel dies
\* and the machine is decoded again, a workflow that is not aborted ends with
\* the outcome that its program text says.  (pausing is "stop stepping and
\* write C/E/K down")
RunsAsWritten == row.status = "over" => row.end = job.says \/ row.end[1] = "aborted"

\* The committed steps record each effect of the program once and in the order
\* of the program, and a workflow that is done has recorded all of them: no
\* resume, replay or re-entry performs an effect twice or skips it.
EffectsInOrder ==
  LET recorded == [i \in DOMAIN ledger |-> <<ledger[i].name, ledger[i].val>>]
  IN /\ IsPrefix(recorded, job.tells)
     /\ row.status = "over" /\ row.end[1] = "done" => recorded = job.tells

\* The environment holds one slot for every binder in scope, so that a De
\* Bruijn index means at run time what the lowerer meant by it.
ScopeAgrees ==
  Running /\ m.mode = "eval" => Depth(m.heap, m.env) = Scope(Defs[m.at[1]], m.at[2])

\* Every resume that ends in a park has moved the machine: however small the
\* grant, and wherever the governor looks, the row that comes back is further;
\* unless the grant was of nothing, which is accepted too.
EveryGrantMoves ==
  [][row'.status = "asleep" /\ row.status = "ready" /\ row.fuel > 0 => row'.blob # row.blob]_row
=============================================================================
