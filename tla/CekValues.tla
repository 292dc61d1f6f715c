------------------------------ MODULE CekValues ------------------------------
(***************************************************************************)
(* The values, the environment and the binding patterns of internal/cek    *)
(* (value.go, env.go, props.go, ops.go, bind.go), over an explicit heap: a *)
(* Go pointer is the index of an object in the machine's heap, so that     *)
(* aliasing is visible.  A closure is a value (its pointer identity is not *)
(* modelled: no program here compares closures).  Numbers are the integers *)
(* that a float64 holds exactly; NaN, bigints, the bit operators and the   *)
(* parsing of text as a number are left out.                               *)
(*                                                                         *)
(* An AST node is [k, u, flag, kids]: its kind, its payload, bit 0 of its  *)
(* flags and its children in the order of rast/node.go, numbered from 1.   *)
(***************************************************************************)
EXTENDS Integers, Sequences, SequencesExt, FiniteSets, TLC

CONSTANT Defs    \* address -> root node of the definition

Undef == <<"undef">>
Null == <<"null">>
Num(n) == <<"num", n>>
Str(s) == <<"str", s>>
Bool(b) == <<"bool", b>>
Closure(def, path, env) == <<"clo", def, path, env>>

Nullish(v) == v[1] \in {"undef", "null"}
Truthy(v) == /\ ~ Nullish(v) /\ v # Bool(FALSE) /\ v # Num(0) /\ v # Str("")

TypeOf(v) == CASE v[1] = "undef" -> "undefined"  [] v[1] = "bool" -> "boolean"
               [] v[1] = "num" -> "number"       [] v[1] = "str" -> "string"
               [] v[1] = "clo" -> "function"     [] OTHER -> "object"

-----------------------------------------------------------------------------
\* Nodes and paths.

Absent(n) == n.k = "None"
Nowhere == [k |-> "Nowhere", u |-> 0, flag |-> FALSE, kids |-> <<>>]
Below(n, path) ==
  FoldLeft(LAMBDA at, i : IF i \in DOMAIN at.kids THEN at.kids[i] ELSE Nowhere, n, path)
Navigate(def, path) == IF def \in DOMAIN Defs THEN Below(Defs[def], path) ELSE Nowhere

-----------------------------------------------------------------------------
\* The heap: environments, arrays, and records in the order of their keys.

New(heap, obj) == [heap |-> Append(heap, obj), id |-> Len(heap) + 1]
EnvObj(parent, slots) == [tag |-> "env", parent |-> parent, vals |-> slots, keys |-> <<>>]
ArrObj(elems) == [tag |-> "arr", parent |-> 0, vals |-> elems, keys |-> <<>>]
RecObj(keys, vals) == [tag |-> "rec", parent |-> 0, vals |-> vals, keys |-> keys]

\* Where De Bruijn index i lands: <<record, slot>>, or <<0, 0>> when unbound.
RECURSIVE Slot(_, _, _)
Slot(heap, env, i) ==
  IF env = 0 THEN <<0, 0>>
  ELSE LET n == Len(heap[env].vals)
       IN IF i < n THEN <<env, n - i>> ELSE Slot(heap, heap[env].parent, i - n)

Bound(heap, env, i) == Slot(heap, env, i)[1] # 0
Lookup(heap, env, i) ==
  LET s == Slot(heap, env, i) IN IF s[1] = 0 THEN Undef ELSE heap[s[1]].vals[s[2]]
Assign(heap, env, i, v) ==
  LET s == Slot(heap, env, i)
  IN IF s[1] = 0 THEN heap ELSE [heap EXCEPT ![s[1]].vals[s[2]] = v]

SetKey(rec, key, v) ==
  IF key \in ToSet(rec.keys)
    THEN [rec EXCEPT !.vals = [i \in DOMAIN @ |-> IF rec.keys[i] = key THEN v ELSE @[i]]]
    ELSE RecObj(Append(rec.keys, key), Append(rec.vals, v))

GetMember(heap, obj, key) ==
  IF obj[1] = "rec"
    THEN LET r == heap[obj[2]]
         IN IF key \in ToSet(r.keys) THEN r.vals[CHOOSE i \in DOMAIN r.keys : r.keys[i] = key]
            ELSE Undef
  ELSE IF obj[1] = "arr" /\ key = "length" THEN Num(Len(heap[obj[2]].vals))
  ELSE IF obj[1] = "str" /\ key = "length" THEN Num(Len(obj[2]))
  ELSE Undef

SetMember(heap, obj, key, v) ==
  IF obj[1] = "rec" THEN [heap EXCEPT ![obj[2]] = SetKey(@, key, v)] ELSE heap

\* (of an array, which joins its elements, only that it is some text)
ToStr(v) == CASE v[1] = "str" -> v[2]
              [] v[1] \in {"num", "bool"} -> ToString(v[2])
              [] Nullish(v) -> IF v = Null THEN "null" ELSE "undefined"
              [] OTHER -> "[object Object]"

GetIndex(heap, obj, idx) ==
  IF obj[1] = "arr" /\ idx[1] = "num"
    THEN LET elems == heap[obj[2]].vals
         IN IF idx[2] + 1 \in DOMAIN elems THEN elems[idx[2] + 1] ELSE Undef
    ELSE GetMember(heap, obj, ToStr(idx))

\* A write past the end fills the array with undefined; a negative index is ignored.
GrowSet(elems, i, v) ==
  IF i < 0 THEN elems
  ELSE [j \in 1 .. (IF i < Len(elems) THEN Len(elems) ELSE i + 1) |->
          IF j = i + 1 THEN v ELSE IF j \in DOMAIN elems THEN elems[j] ELSE Undef]

SetIndex(heap, obj, idx, v) ==
  IF obj[1] = "arr" /\ idx[1] = "num"
    THEN [heap EXCEPT ![obj[2]].vals = GrowSet(@, idx[2], v)]
    ELSE SetMember(heap, obj, ToStr(idx), v)

HasOwn(heap, key, obj) ==
  IF obj[1] = "rec" THEN key \in ToSet(heap[obj[2]].keys) ELSE obj[1] = "arr" /\ key = "length"

\* Spread into a record: own keys or indices, in order, over what is there already.
MergeInto(heap, dst, src) ==
  LET s == heap[src[2]]
      key(i) == IF src[1] = "rec" THEN s.keys[i] ELSE ToString(i - 1)
  IN IF src[1] \notin {"rec", "arr"} THEN heap
     ELSE [heap EXCEPT ![dst[2]] =
             FoldLeft(LAMBDA r, i : SetKey(r, key(i), s.vals[i]), @, [i \in DOMAIN s.vals |-> i])]

-----------------------------------------------------------------------------
\* Operators.  A result <<>> is the code's ok=false: the machine fails closed.

ToNum(v) == CASE v[1] = "num" -> v[2]
              [] v[1] = "bool" -> IF v[2] THEN 1 ELSE 0
              [] OTHER -> 0
Numeric(v) == v[1] \in {"num", "bool", "null"}

BinOp(op, a, b) ==
  LET x == ToNum(a)
      y == ToNum(b)
  IN CASE op = "===" -> Bool(a = b)
       [] op = "!==" -> Bool(a # b)
       [] op = "+" /\ "str" \in {a[1], b[1]} -> Str(ToStr(a) \o ToStr(b))
       [] ~ (Numeric(a) /\ Numeric(b)) -> <<>>
       [] op = "+" -> Num(x + y)   [] op = "-" -> Num(x - y)   [] op = "*" -> Num(x * y)
       [] op = "<" -> Bool(x < y)  [] op = ">" -> Bool(x > y)
       [] op = "<=" -> Bool(x <= y) [] op = ">=" -> Bool(x >= y)
       [] OTHER -> <<>>

UnaryOp(op, v) == CASE op = "!" -> Bool(~ Truthy(v))
                    [] ~ Numeric(v) -> <<>>
                    [] op = "-" -> Num(- ToNum(v))
                    [] op = "+" -> Num(ToNum(v))

-----------------------------------------------------------------------------
\* Binding patterns.  The slots come out in binder pre-order, the order the
\* lowerer numbers De Bruijn indexes in.  A rest pattern allocates an array.

Literal == {"Num", "Str", "Bool", "Null", "Undefined"}

\* evalConst: defaults and case labels are constants.
RECURSIVE EvalConst(_)
EvalConst(n) ==
  CASE n.k \in Literal -> n.u
    [] n.k = "Unary" -> LET v == EvalConst(n.kids[1]) IN IF v = <<>> THEN v ELSE UnaryOp(n.u, v)
    [] n.k = "Binary" -> LET a == EvalConst(n.kids[1])
                             b == EvalConst(n.kids[2])
                         IN IF <<>> \in {a, b} THEN <<>> ELSE BinOp(n.u, a, b)
    [] OTHER -> <<>>

Given(v, default) == IF v = Undef /\ default # <<>> THEN default ELSE v
OrDefault(v, init) == Given(v, EvalConst(init))

\* b is [heap, slots]: what is bound so far.
RECURSIVE BindPattern(_, _, _)
BindPattern(b, pat, v) ==
  LET parts == pat.kids[1].kids
      elems == IF v[1] = "arr" THEN b.heap[v[2]].vals ELSE <<>>
      Element(c, i) ==
        LET el == parts[i]
            rest == New(c.heap, ArrObj(SubSeq(elems, i, Len(elems))))
        IN CASE Absent(el) -> c
             [] el.k = "RestPat" -> BindPattern([c EXCEPT !.heap = rest.heap], el.kids[1], <<"arr", rest.id>>)
             [] OTHER -> BindPattern(c, el, IF i \in DOMAIN elems THEN elems[i] ELSE Undef)
      Property(c, prop) ==
        IF prop.k = "RestPat" THEN BindPattern(c, prop.kids[1], v)
        ELSE LET got == IF v[1] = "rec" THEN GetMember(c.heap, v, prop.kids[1].u) ELSE Undef
             IN BindPattern(c, prop.kids[2], OrDefault(got, prop.kids[3]))
  IN CASE pat.k = "BindId" -> [b EXCEPT !.slots = Append(@, v)]
       [] pat.k = "ArrayPat" -> FoldLeft(Element, b, [i \in 1 .. Len(parts) |-> i])
       [] pat.k = "ObjPat" -> FoldLeft(Property, b, parts)
       [] pat.k = "RestPat" -> BindPattern(b, pat.kids[1], v)

Bind(heap, pat, v) == BindPattern([heap |-> heap, slots |-> <<>>], pat, v)

Activation(env, b) == New(b.heap, EnvObj(env, b.slots))

\* The activation record of a call: every parameter's binders in one record.
BindParams(heap, fn, args, env) ==
  LET params == fn.kids[1].kids
      One(b, i) ==
        LET p == params[i]
            rest == New(b.heap, ArrObj(SubSeq(args, i, Len(args))))
            arg == IF i \in DOMAIN args THEN args[i] ELSE Undef
        IN BindPattern(IF p.flag THEN [b EXCEPT !.heap = rest.heap] ELSE b, p.kids[1],
                       IF p.flag THEN <<"arr", rest.id>> ELSE OrDefault(arg, p.kids[3]))
  IN Activation(env, FoldLeft(One, [heap |-> heap, slots |-> <<>>], [i \in 1 .. Len(params) |-> i]))

-----------------------------------------------------------------------------
\* What a value says, with its structure and without its pointers.
RECURSIVE Render(_, _)
Render(heap, v) ==
  IF v[1] = "arr" THEN <<"arr", [i \in DOMAIN heap[v[2]].vals |-> Render(heap, heap[v[2]].vals[i])]>>
  ELSE IF v[1] = "rec"
    THEN <<"rec", [k \in ToSet(heap[v[2]].keys) |-> Render(heap, GetMember(heap, v, k))]>>
  ELSE IF v[1] = "clo" THEN <<"clo">> ELSE v
=============================================================================
