--------------------------- MODULE AdmissionProofs ---------------------------
(***************************************************************************)
(* The admission pipeline, for any number of clients, names, patches and   *)
(* retries.  A request changes its own client's state only (RequestIs), so *)
(* each property has an invariant of its own, proved action by action: what*)
(* the history says of the heads (HistoryInv), how a snapshot relates to   *)
(* the states since it was taken (LinearInv), what a client has been told  *)
(* (OutcomeInv), who an approval has been used by (ApprovalInv), and what  *)
(* a unit of fuel (FuelInv) and a permit (PermitInv) are held for.         *)
(***************************************************************************)
EXTENDS AdmissionGate, TLAPS, FiniteSetTheorems

\* A sequence, whatever it holds.
IsSequence(q) == q \in Seq({q[i] : i \in DOMAIN q})

LEMMA AppendSequence ==
    ASSUME NEW q, IsSequence(q), NEW e
    PROVE  /\ IsSequence(Append(q, e))
           /\ Len(q) \in Nat /\ DOMAIN q = 1..Len(q)
           /\ Len(Append(q, e)) = Len(q) + 1
           /\ DOMAIN Append(q, e) = 1..(Len(q) + 1)
           /\ \A i \in 1..Len(q) : Append(q, e)[i] = q[i]
           /\ Append(q, e)[Len(q) + 1] = e
  <1> DEFINE S == {q[i] : i \in DOMAIN q} \cup {e}
             r == Append(q, e)
  <1>1. q \in Seq(S)
    BY DEF IsSequence
  <1> HIDE DEF S
  <1>2. e \in S
    BY DEF S
  <1>3. /\ r \in Seq(S)
        /\ Len(r) = Len(q) + 1
        /\ Len(q) \in Nat /\ DOMAIN q = 1..Len(q)
        /\ DOMAIN r = 1..(Len(q) + 1)
        /\ \A i \in 1..Len(q) : r[i] = q[i]
        /\ r[Len(q) + 1] = e
    BY <1>1, <1>2
  <1>4. r \in Seq({r[i] : i \in DOMAIN r})
    BY <1>3
  <1> QED
    BY <1>3, <1>4 DEF IsSequence

\* The head of a slot after k publications does not change when one more is appended.
LEMMA HeadAtPrefix ==
    ASSUME NEW l, IsSequence(l), NEW e, NEW k \in 0..Len(l), NEW s
    PROVE  Ledger!HeadAt(Append(l, e), k, s) = Ledger!HeadAt(l, k, s)
  <1> DEFINE r == Append(l, e)
             moves == {i \in 1..k : s \in DOMAIN l[i]}
             last  == {i \in moves : \A j \in moves : j <= i}
             movesr == {i \in 1..k : s \in DOMAIN r[i]}
             lastr  == {i \in movesr : \A j \in movesr : j <= i}
  <1>1. Len(l) \in Nat /\ \A i \in 1..k : r[i] = l[i]
    BY AppendSequence
  <1>2. movesr = moves
    BY <1>1
  <1>3. lastr = last
    BY <1>2
  <1>4. last # {} => (CHOOSE i \in last : TRUE) \in 1..k
    OBVIOUS
  <1>5. Ledger!HeadAt(l, k, s) = IF last = {} THEN None ELSE l[CHOOSE i \in last : TRUE][s]
    BY DEF Ledger!HeadAt
  <1>6. Ledger!HeadAt(r, k, s) = IF lastr = {} THEN None ELSE r[CHOOSE i \in lastr : TRUE][s]
    BY DEF Ledger!HeadAt
  <1> HIDE DEF last, lastr
  <1> QED
    BY <1>1, <1>3, <1>4, <1>5, <1>6

\* After one more publication a slot it moves has what it gives, another one what it had.
LEMMA HeadAtAppend ==
    ASSUME NEW l, IsSequence(l), NEW e, NEW s
    PROVE  Ledger!HeadAt(Append(l, e), Len(l) + 1, s)
              = IF s \in DOMAIN e THEN e[s] ELSE Ledger!HeadAt(l, Len(l), s)
  <1> DEFINE r == Append(l, e)
             n == Len(l)
             moves == {i \in 1..n : s \in DOMAIN l[i]}
             last  == {i \in moves : \A j \in moves : j <= i}
             movesr == {i \in 1..n+1 : s \in DOMAIN r[i]}
             lastr  == {i \in movesr : \A j \in movesr : j <= i}
  <1>1. /\ n \in Nat /\ r[n + 1] = e
        /\ \A i \in 1..n : r[i] = l[i]
    BY AppendSequence
  <1>2. Ledger!HeadAt(l, n, s) = IF last = {} THEN None ELSE l[CHOOSE i \in last : TRUE][s]
    BY DEF Ledger!HeadAt
  <1>3. Ledger!HeadAt(r, n + 1, s) = IF lastr = {} THEN None ELSE r[CHOOSE i \in lastr : TRUE][s]
    BY DEF Ledger!HeadAt
  <1>4. CASE s \in DOMAIN e
    <2>1. n + 1 \in movesr /\ \A j \in movesr : j <= n + 1
      BY <1>1, <1>4
    <2>2. lastr = {n + 1}
      BY <2>1, <1>1
    <2> QED
      BY <2>2, <1>1, <1>3, <1>4
  <1>5. CASE s \notin DOMAIN e
    <2>1. movesr = moves
      BY <1>1, <1>5
    <2>2. lastr = last
      BY <2>1
    <2>3. last # {} => (CHOOSE i \in last : TRUE) \in 1..n
      OBVIOUS
    <2> HIDE DEF last, lastr
    <2> QED
      BY <2>2, <2>3, <1>1, <1>2, <1>3, <1>5
  <1> QED
    BY <1>4, <1>5
----------------------------------------------------------------------------
(* The shape of the state that the arguments below stand on *)

Under(c) == pc[c] # "idle"

RequestOK(c) ==
  /\ req[c] = [patch |-> req[c].patch, base |-> req[c].base,
               token |-> req[c].token, tries |-> req[c].tries]
  /\ req[c].patch \in Patch[c]

Shape ==
  /\ pc \in [Client -> {"idle", "gate", "txn", "refuse", "charge"}]
  /\ DOMAIN req = Client /\ DOMAIN snap = Client /\ DOMAIN verdict = Client
  /\ count \in [Client -> Nat]
  /\ IsSequence(admissions)
  /\ heads = [s \in Slot |-> heads[s]] /\ DOMAIN history = Slot
  /\ \A c \in Client : Under(c) => RequestOK(c)
  /\ \A c \in Client : pc[c] = "txn" => snap[c].at \in 0..Len(admissions)

\* A step of client c leaves what belongs to the others.
Alone(c) ==
  /\ DOMAIN req' = Client /\ DOMAIN snap' = Client /\ DOMAIN verdict' = Client
  /\ pc' = [pc EXCEPT ![c] = pc'[c]] /\ count' \in [Client -> Nat]
  /\ \A d \in Client \ {c} : /\ pc'[d] = pc[d] /\ req'[d] = req[d] /\ snap'[d] = snap[d]
                             /\ verdict'[d] = verdict[d] /\ count'[d] = count[d]

LEMMA PatchType ==
  ASSUME NEW c \in Client, NEW p \in Patch[c]
  PROVE  /\ p.scope \in Scope /\ p.commit \in BOOLEAN
         /\ DOMAIN p.mods \subseteq Name /\ DOMAIN p.mods # {}
BY GateAssumption

LEMMA CountIs ==
  ASSUME Shape, NEW c \in Client, count' = [count EXCEPT ![c] = @ + 1]
  PROVE  count' \in [Client -> Nat] /\ \A d \in Client \ {c} : count'[d] = count[d]
BY DEF Shape

LEMMA OverIs ==
  ASSUME Shape, NEW c \in Client, Over(c), UNCHANGED count
  PROVE  Alone(c) /\ pc'[c] = "idle"
BY DEF Over, Shape, Alone

LEMMA DecideIs ==
  ASSUME Shape, NEW c \in Client, NEW next, Decide(c, next), UNCHANGED count
  PROVE  Alone(c) /\ pc'[c] = next /\ req' = req /\ snap' = snap /\ verdict'[c] = Verdict(c)
BY DEF Decide, Shape, Alone

LEMMA CommittedIs ==
  ASSUME Shape, NEW c \in Client, Committed(c), UNCHANGED count
  PROVE  /\ Alone(c) /\ pc'[c] \in {"idle", "charge"}
         /\ pc'[c] = "charge" => req' = req /\ verdict'[c] = Verdict(c)
<1>1. CASE Decide(c, "charge")
  BY <1>1, DecideIs
<1>2. CASE Over(c)
  BY <1>2, OverIs
<1> QED
  BY <1>1, <1>2 DEF Committed

\* What a request may do to its client's place, and what it carries then.
LEMMA RequestIs ==
  ASSUME Shape, NEW c \in Client, Request(c)
  PROVE  /\ Alone(c) /\ pc'[c] \in {"idle", "gate", "txn", "refuse", "charge"}
         /\ pc'[c] # "idle" => RequestOK(c)'
         /\ pc'[c] = "txn" => /\ snap'[c].at = Len(admissions) /\ snap'[c].heads = heads
                              /\ snap'[c].approvals = approvals
                              /\ UNCHANGED <<catalog, approvals>>
<1>1. CASE Submit(c)
  <2>1. PICK p \in Patch[c], t \in DOMAIN approvals \cup {None} :
           req' = [req EXCEPT ![c] = [patch |-> p, base |-> heads, token |-> t, tries |-> 0]]
    BY <1>1 DEF Submit
  <2>2. RequestOK(c)' /\ DOMAIN req' = Client /\ \A d \in Client \ {c} : req'[d] = req[d]
    BY <2>1 DEF RequestOK, Shape
  <2>3. count' \in [Client -> Nat] /\ \A d \in Client \ {c} : count'[d] = count[d]
    BY <1>1, CountIs DEF Submit
  <2>4. CASE pc' = [pc EXCEPT ![c] = "refuse"] /\ verdict' = [verdict EXCEPT ![c] = <<"budget-exhausted", "none">>]
    BY <1>1, <2>2, <2>3, <2>4 DEF Submit, Shape, Alone
  <2>5. CASE pc' = [pc EXCEPT ![c] = "gate"] /\ UNCHANGED verdict
    BY <1>1, <2>2, <2>3, <2>5 DEF Submit, Shape, Alone
  <2> QED
    BY <1>1, <2>4, <2>5 DEF Submit
<1>2. CASE EnterGate(c)
  BY <1>2 DEF EnterGate, Begin, Shape, Alone, RequestOK, Under, catalog
<1>3. CASE Admit(c)
  BY <1>3, CommittedIs DEF Admit, RequestOK, Shape, Under
<1>4. CASE AdmitNoop(c)
  BY <1>4, CommittedIs DEF AdmitNoop, RequestOK, Shape, Under
<1>5. CASE Rehearse(c)
  BY <1>5, DecideIs DEF Rehearse, RequestOK, Shape, Under
<1>6. CASE Reject(c)
  BY <1>6, DecideIs DEF Reject, RequestOK, Shape, Under
<1>7. CASE Retry(c)
  <2>1. pc[c] = "txn" /\ RequestOK(c)
    BY <1>7 DEF Retry, Shape, Under
  <2>2. RequestOK(c)' /\ DOMAIN req' = Client /\ \A d \in Client \ {c} : req'[d] = req[d]
    BY <1>7, <2>1 DEF Retry, RequestOK, Shape
  <2> QED
    BY <1>7, <2>1, <2>2 DEF Retry, Begin, Shape, Alone, catalog
<1>8. CASE Fail(c)
  BY <1>8, OverIs DEF Fail
<1>9. CASE WriteRefusal(c)
  <2>1. CASE Over(c)
    BY <1>9, <2>1, OverIs DEF WriteRefusal
  <2>2. CASE pc' = [pc EXCEPT ![c] = "charge"] /\ UNCHANGED request
    BY <1>9, <2>2 DEF WriteRefusal, request, Shape, Alone, RequestOK, Under
  <2> QED
    BY <1>9, <2>1, <2>2 DEF WriteRefusal
<1>10. CASE Charge(c)
  BY <1>10, OverIs DEF Charge
<1> QED
  BY <1>1, <1>2, <1>3, <1>4, <1>5, <1>6, <1>7, <1>8, <1>9, <1>10 DEF Request

\* Only the commit of an admission writes the catalog.
LEMMA CatalogIs ==
  ASSUME NEW c \in Client, Request(c), ~Admit(c), ~AdmitNoop(c)
  PROVE  UNCHANGED catalog
BY DEF Request, Submit, EnterGate, Rehearse, Reject, Retry, Fail, WriteRefusal, Charge, catalog

\* The steps that are not a client's leave the requests and the catalog alone.
LEMMA OtherIs ==
  ASSUME NEW q, NEW t, Refill(q) \/ Mint(t) \/ Expire(t)
  PROVE  UNCHANGED <<catalog, refusals, pc, request, count, begun, faults>>
BY DEF Refill, Mint, Expire, books

LEMMA LoweredIs ==
  ASSUME NEW c \in Client, NEW p \in Patch[c], NEW view
  PROVE  /\ DOMAIN Lowered(p, view) = {<<p.scope, n>> : n \in DOMAIN p.mods}
         /\ DOMAIN Lowered(p, view) \subseteq Slot /\ DOMAIN Lowered(p, view) # {}
         /\ \A s \in DOMAIN Lowered(p, view) : s[1] = p.scope
<1> DEFINE D == {<<p.scope, n>> : n \in DOMAIN p.mods}
<1>1. DOMAIN Lowered(p, view) = D
  BY DEF Lowered
<1>2. p.scope \in Scope /\ DOMAIN p.mods \subseteq Name /\ DOMAIN p.mods # {}
  BY PatchType
<1>3. D \subseteq Slot
  BY <1>2 DEF Slot
<1>4. PICK n \in DOMAIN p.mods : TRUE
  BY <1>2
<1>5. <<p.scope, n>> \in D
  BY <1>4
<1>6. \A s \in D : s[1] = p.scope
  OBVIOUS
<1> QED
  BY <1>1, <1>3, <1>5, <1>6

\* The row that the commit of a request adds, and what it carries.
LEMMA AdmitIs ==
  ASSUME Shape, NEW c \in Client, Admit(c)
  PROVE  LET new == Lowered(req[c].patch, snap[c].heads) IN
         /\ pc[c] = "txn" /\ req[c].patch \in Patch[c]
         /\ admissions' = Append(admissions, [who |-> c, nth |-> count[c], moves |-> new])
         /\ DOMAIN new \subseteq Slot /\ DOMAIN new # {}
         /\ \A s \in DOMAIN new : s[1] = req[c].patch.scope
<1>1. pc[c] = "txn" /\ req[c].patch \in Patch[c]
  BY DEF Admit, Shape, RequestOK, Under
<1>2. admissions' = Append(admissions, [who |-> c, nth |-> count[c],
                                        moves |-> Lowered(req[c].patch, snap[c].heads)])
  BY DEF Admit
<1> QED
  BY <1>1, <1>2, LoweredIs

LEMMA ShapeInit == Init => Shape
BY DEF Init, Shape, IsSequence, Under

LEMMA ShapeInv == ASSUME Shape, [Next]_vars PROVE Shape'
<1>1. ASSUME NEW c \in Client, Request(c) PROVE Shape'
  <2>1. IsSequence(admissions)' /\ Len(admissions) \in Nat /\ Len(admissions') \in Nat
        /\ Len(admissions') >= Len(admissions)
    <3>1. CASE Admit(c)
      BY <3>1, AppendSequence DEF Admit, Shape
    <3>2. CASE AdmitNoop(c)
      BY <3>2, AppendSequence DEF AdmitNoop, Shape
    <3>3. CASE ~Admit(c) /\ ~AdmitNoop(c)
      BY <1>1, <3>3, CatalogIs, AppendSequence DEF Shape, catalog
    <3> QED
      BY <3>1, <3>2, <3>3
  <2>2. heads' = [s \in Slot |-> heads'[s]] /\ DOMAIN history' = Slot
    <3>1. CASE Admit(c)
      <4>1. PICK new : heads' = [s \in Slot |-> IF s \in DOMAIN new THEN new[s] ELSE heads[s]]
        BY <3>1 DEF Admit, MovePointers
      <4>2. DOMAIN history' = Slot
        BY <3>1 DEF Admit, MovePointers
      <4> QED
        BY <4>1, <4>2
    <3>2. CASE AdmitNoop(c)
      BY <3>2 DEF AdmitNoop, Shape
    <3>3. CASE ~Admit(c) /\ ~AdmitNoop(c)
      BY <1>1, <3>3, CatalogIs DEF Shape, catalog
    <3> QED
      BY <3>1, <3>2, <3>3
  <2>3. ASSUME NEW d \in Client PROVE /\ Under(d)' => RequestOK(d)'
                                      /\ pc'[d] = "txn" => snap'[d].at \in 0..Len(admissions')
    <3>1. CASE d = c
      BY <1>1, <2>1, <3>1, RequestIs DEF Under, catalog
    <3>2. CASE d # c
      <4>1. pc'[d] = pc[d] /\ req'[d] = req[d] /\ snap'[d] = snap[d]
        BY <1>1, <3>2, RequestIs DEF Alone
      <4>2. Under(d) => RequestOK(d)
        BY DEF Shape
      <4>3. pc[d] = "txn" => snap[d].at \in 0..Len(admissions)
        BY DEF Shape
      <4> QED
        BY <2>1, <4>1, <4>2, <4>3 DEF Under, RequestOK
    <3> QED
      BY <3>1, <3>2
  <2>4. Alone(c) /\ pc'[c] \in {"idle", "gate", "txn", "refuse", "charge"}
    BY <1>1, RequestIs
  <2>5. pc' \in [Client -> {"idle", "gate", "txn", "refuse", "charge"}]
    BY <2>4 DEF Alone, Shape
  <2> QED
    BY <2>1, <2>2, <2>3, <2>4, <2>5 DEF Shape, Alone
<1>2. ASSUME UNCHANGED <<catalog, pc, request, count>> PROVE Shape'
  BY <1>2 DEF Shape, catalog, request, Under, RequestOK
<1>3. ASSUME NEW q \in Metered, Refill(q) PROVE Shape'
  BY <1>2, <1>3, OtherIs
<1>4. ASSUME NEW t \in Token, Mint(t) \/ Expire(t) PROVE Shape'
  BY <1>2, <1>4, OtherIs
<1>5. CASE UNCHANGED vars
  BY <1>2, <1>5 DEF vars
<1> QED
  BY <1>1, <1>3, <1>4, <1>5 DEF Next

----------------------------------------------------------------------------
(* The history of a name is exact *)

IsWindow(w) == w = [hash |-> w.hash, from |-> w.from, to |-> w.to]

HistoryInv ==
  /\ Shape /\ HistoryIsExact
  /\ \A s \in Slot : /\ IsSequence(history[s])
                     /\ \A i \in 1..Len(history[s]) : IsWindow(history[s][i])

LEMMA WriteHistoryIs ==
  ASSUME NEW w, IsSequence(w), \A i \in 1..Len(w) : IsWindow(w[i]), NEW hash, NEW id
  PROVE  LET v == WriteHistory(w, hash, id) IN
         /\ IsSequence(v) /\ Len(v) = Len(w) + 1 /\ Len(w) \in Nat
         /\ v[Len(w) + 1] = [hash |-> hash, from |-> id, to |-> None]
         /\ \A i \in 1..Len(w) : /\ v[i].hash = w[i].hash /\ v[i].from = w[i].from
                                 /\ v[i].to = IF w[i].to = None THEN id ELSE w[i].to
         /\ \A i \in 1..Len(v) : IsWindow(v[i])
<1> DEFINE u == [i \in DOMAIN w |-> IF w[i].to = None THEN [w[i] EXCEPT !.to = id] ELSE w[i]]
           e == [hash |-> hash, from |-> id, to |-> None]
           v == WriteHistory(w, hash, id)
<1>1. v = Append(u, e)
  BY DEF WriteHistory
<1>2. Len(w) \in Nat /\ DOMAIN w = 1..Len(w)
  BY AppendSequence
<1>3. u = [i \in 1..Len(w) |-> u[i]] /\ DOMAIN u = 1..Len(w)
  BY <1>2
<1>4. IsSequence(u) /\ Len(u) = Len(w)
  BY <1>2, <1>3 DEF IsSequence
<1>5. \A i \in 1..Len(w) :
        u[i] = [hash |-> w[i].hash, from |-> w[i].from,
                to |-> IF w[i].to = None THEN id ELSE w[i].to]
  BY <1>2 DEF IsWindow
<1> HIDE DEF u, e
<1>6. /\ IsSequence(v) /\ Len(v) = Len(w) + 1 /\ v[Len(w) + 1] = e
      /\ \A i \in 1..Len(w) : v[i] = u[i]
  <2>1. /\ IsSequence(Append(u, e)) /\ Len(Append(u, e)) = Len(u) + 1
        /\ Append(u, e)[Len(u) + 1] = e /\ \A i \in 1..Len(u) : Append(u, e)[i] = u[i]
    BY <1>4, AppendSequence
  <2> QED
    BY <1>1, <1>4, <2>1
<1>7. IsWindow(e)
  BY DEF IsWindow, e
<1>8. \A i \in 1..Len(w) : IsWindow(v[i])
  BY <1>5, <1>6 DEF IsWindow
<1>9. \A i \in 1..Len(v) : i \in 1..Len(w) \/ i = Len(w) + 1
  BY <1>2, <1>6
<1>10. \A i \in 1..Len(v) : IsWindow(v[i])
  BY <1>6, <1>7, <1>8, <1>9
<1>11. \A i \in 1..Len(w) : /\ v[i].hash = w[i].hash /\ v[i].from = w[i].from
                            /\ v[i].to = IF w[i].to = None THEN id ELSE w[i].to
  <2> TAKE i \in 1..Len(w)
  <2>1. v[i] = [hash |-> w[i].hash, from |-> w[i].from, to |-> IF w[i].to = None THEN id ELSE w[i].to]
    BY <1>5, <1>6
  <2> QED
    BY <2>1
<1> QED
  BY <1>2, <1>6, <1>10, <1>11 DEF e

LEMMA HistoryInit == Init => HistoryInv
<1> SUFFICES ASSUME Init PROVE HistoryInv
  OBVIOUS
<1>1. Shape
  BY ShapeInit
<1>2. \A s \in Slot : history[s] = <<>> /\ heads[s] = None
  BY DEF Init
<1>3. admissions = <<>>
  BY DEF Init
<1>4. IsSequence(<<>>)
  BY DEF IsSequence
<1> QED
  BY <1>1, <1>2, <1>3, <1>4 DEF HistoryInv, HistoryIsExact

\* Another admission row does not disturb the history of a slot that it does not move.
LEMMA UnmovedHistory ==
  ASSUME HistoryInv, NEW s \in Slot, NEW row, s \notin DOMAIN row.moves,
         admissions' = Append(admissions, row), heads'[s] = heads[s], history'[s] = history[s]
  PROVE  LET w == history'[s]  n == Len(history'[s]) IN
         /\ heads'[s] = IF n = 0 THEN None ELSE w[n].hash
         /\ n > 0 => w[n].to = None
         /\ \A i \in 1..n-1 : w[i].to = w[i+1].from /\ w[i].from < w[i].to
         /\ {w[i].from : i \in 1..n} = {k \in DOMAIN admissions' : s \in DOMAIN admissions'[k].moves}
         /\ \A i \in 1..n : admissions'[w[i].from].moves[s] = w[i].hash
<1> DEFINE w == history[s]  n == Len(history[s])
<1>1. /\ heads[s] = IF n = 0 THEN None ELSE w[n].hash
      /\ n > 0 => w[n].to = None
      /\ \A i \in 1..n-1 : w[i].to = w[i+1].from /\ w[i].from < w[i].to
      /\ {w[i].from : i \in 1..n} = {k \in DOMAIN admissions : s \in DOMAIN admissions[k].moves}
      /\ \A i \in 1..n : admissions[w[i].from].moves[s] = w[i].hash
  BY DEF HistoryInv, HistoryIsExact
<1>2. /\ Len(admissions) \in Nat /\ DOMAIN admissions = 1..Len(admissions)
      /\ DOMAIN admissions' = 1..(Len(admissions) + 1)
      /\ \A i \in 1..Len(admissions) : admissions'[i] = admissions[i]
      /\ admissions'[Len(admissions) + 1] = row
  BY AppendSequence DEF HistoryInv, Shape
<1>3. \A k : /\ k \in DOMAIN admissions' /\ s \in DOMAIN admissions'[k].moves
             <=> k \in DOMAIN admissions /\ s \in DOMAIN admissions[k].moves
  BY <1>2
<1>4. {k \in DOMAIN admissions' : s \in DOMAIN admissions'[k].moves}
        = {k \in DOMAIN admissions : s \in DOMAIN admissions[k].moves}
  BY <1>3
<1>5. \A i \in 1..n : w[i].from \in DOMAIN admissions
  BY <1>1
<1>6. \A i \in 1..n : admissions'[w[i].from].moves[s] = w[i].hash
  BY SMTT(60), <1>1, <1>2, <1>5
<1> QED
  BY <1>1, <1>4, <1>6

\* An admission that moves a slot closes its open window and opens the next.
LEMMA MovedHistory ==
  ASSUME HistoryInv, NEW s \in Slot, NEW row, s \in DOMAIN row.moves,
         admissions' = Append(admissions, row), heads'[s] = row.moves[s],
         history'[s] = WriteHistory(history[s], row.moves[s], Len(admissions) + 1)
  PROVE  LET w == history'[s]  n == Len(history'[s]) IN
         /\ heads'[s] = IF n = 0 THEN None ELSE w[n].hash
         /\ n > 0 => w[n].to = None
         /\ \A i \in 1..n-1 : w[i].to = w[i+1].from /\ w[i].from < w[i].to
         /\ {w[i].from : i \in 1..n} = {k \in DOMAIN admissions' : s \in DOMAIN admissions'[k].moves}
         /\ \A i \in 1..n : admissions'[w[i].from].moves[s] = w[i].hash
<1> DEFINE w == history[s]  n == Len(history[s])  id == Len(admissions) + 1  v == history'[s]
           rows == {k \in DOMAIN admissions : s \in DOMAIN admissions[k].moves}
           rowsv == {k \in DOMAIN admissions' : s \in DOMAIN admissions'[k].moves}
<1>1. /\ n > 0 => w[n].to = None
      /\ \A i \in 1..n-1 : w[i].to = w[i+1].from /\ w[i].from < w[i].to
      /\ {w[i].from : i \in 1..n} = rows
      /\ \A i \in 1..n : admissions[w[i].from].moves[s] = w[i].hash
  BY DEF HistoryInv, HistoryIsExact
<1>2. /\ Len(admissions) \in Nat /\ DOMAIN admissions = 1..Len(admissions)
      /\ DOMAIN admissions' = 1..id
      /\ \A i \in 1..Len(admissions) : admissions'[i] = admissions[i]
      /\ admissions'[id] = row
  BY AppendSequence DEF HistoryInv, Shape
<1>3. /\ Len(v) = n + 1 /\ n \in Nat
      /\ v[n + 1] = [hash |-> row.moves[s], from |-> id, to |-> None]
      /\ \A i \in 1..n : /\ v[i].hash = w[i].hash /\ v[i].from = w[i].from
                         /\ v[i].to = IF w[i].to = None THEN id ELSE w[i].to
  BY WriteHistoryIs DEF HistoryInv
<1>4. v[n + 1].hash = row.moves[s] /\ v[n + 1].from = id /\ v[n + 1].to = None
  BY <1>3
<1> HIDE DEF v
<1>5. rowsv = rows \cup {id}
  BY <1>2
<1>6. \A i \in 1..n : w[i].from \in 1..Len(admissions)
  BY <1>1, <1>2
<1>7. \A i \in 1..n : v[i].to = v[i+1].from /\ v[i].from < v[i].to
  <2> TAKE i \in 1..n
  <2>1. CASE i = n
    <3>1. w[i].to = None /\ v[i].to = id /\ v[i].from = w[i].from
      BY <2>1, <1>1, <1>3
    <3>2. v[i+1].from = id /\ w[i].from < id
      BY <2>1, <1>2, <1>4, <1>6
    <3> QED
      BY <3>1, <3>2
  <2>2. CASE i # n
    <3>1. i \in 1..n-1 /\ i + 1 \in 1..n
      BY <2>2, <1>3
    <3>2. None \notin Nat
      BY GateAssumption
    <3>3. w[i].to = w[i+1].from /\ w[i].from < w[i].to
      BY <3>1, <1>1
    <3>4. w[i+1].from \in Nat
      BY <3>1, <1>2, <1>6
    <3>5. v[i].to = w[i].to /\ v[i].from = w[i].from /\ v[i+1].from = w[i+1].from
      BY <3>1, <3>2, <3>3, <3>4, <1>3
    <3> QED
      BY <3>3, <3>5
  <2> QED
    BY <2>1, <2>2
<1>8. {v[i].from : i \in 1..n+1} = rows \cup {id}
  <2>1. \A i \in 1..n+1 : i \in 1..n \/ i = n + 1
    BY <1>3
  <2>2. \A i \in 1..n+1 : v[i].from \in rows \cup {id}
    BY <2>1, <1>1, <1>3, <1>4
  <2>3. \A k \in rows : \E i \in 1..n+1 : v[i].from = k
    <3> TAKE k \in rows
    <3>1. PICK i \in 1..n : w[i].from = k
      BY <1>1
    <3> QED
      BY SMTT(60), <3>1, <1>3
  <2>4. \E i \in 1..n+1 : v[i].from = id
    BY <1>3, <1>4
  <2> QED
    BY ZenonT(90), <2>2, <2>3, <2>4
<1>9. \A i \in 1..n+1 : admissions'[v[i].from].moves[s] = v[i].hash
  <2> TAKE i \in 1..n+1
  <2>1. CASE i = n + 1
    BY <2>1, <1>2, <1>4
  <2>2. CASE i # n + 1
    BY SMTT(60), <2>2, <1>1, <1>2, <1>3, <1>6
  <2> QED
    BY <2>1, <2>2
<1>10. heads'[s] = v[n + 1].hash
  BY <1>4
<1>11. n + 1 # 0 /\ (n + 1) - 1 = n
  BY <1>3
<1> HIDE DEF rowsv
<1>12. LET k == Len(v) IN
       /\ heads'[s] = IF k = 0 THEN None ELSE v[k].hash
       /\ k > 0 => v[k].to = None
       /\ \A i \in 1..k-1 : v[i].to = v[i+1].from /\ v[i].from < v[i].to
       /\ {v[i].from : i \in 1..k} = rowsv
       /\ \A i \in 1..k : admissions'[v[i].from].moves[s] = v[i].hash
  BY <1>3, <1>4, <1>5, <1>7, <1>8, <1>9, <1>10, <1>11
<1> QED
  BY <1>12 DEF v, rowsv

LEMMA HistoryStep == ASSUME HistoryInv, [Next]_vars PROVE HistoryInv'
<1>1. Shape'
  BY ShapeInv DEF HistoryInv
<1>2. ASSUME UNCHANGED catalog PROVE HistoryInv'
  BY <1>1, <1>2 DEF HistoryInv, HistoryIsExact, catalog
<1>3. ASSUME NEW c \in Client, Admit(c) PROVE HistoryInv'
  <2> DEFINE new == Lowered(req[c].patch, snap[c].heads)
             row == [who |-> c, nth |-> count[c], moves |-> new]
  <2>1. admissions' = Append(admissions, row) /\ row.moves = new
    BY <1>3, AdmitIs DEF HistoryInv
  <2>2. /\ heads' = [s \in Slot |-> IF s \in DOMAIN new THEN new[s] ELSE heads[s]]
        /\ history' = [s \in Slot |-> IF s \in DOMAIN new
                                      THEN WriteHistory(history[s], new[s], Len(admissions) + 1)
                                      ELSE history[s]]
    BY <1>3 DEF Admit, MovePointers
  <2> HIDE DEF new, row
  <2>3. HistoryIsExact'
    <3> SUFFICES ASSUME NEW s \in Slot
                 PROVE  LET w == history'[s]  n == Len(history'[s]) IN
                        /\ heads'[s] = IF n = 0 THEN None ELSE w[n].hash
                        /\ n > 0 => w[n].to = None
                        /\ \A i \in 1..n-1 : w[i].to = w[i+1].from /\ w[i].from < w[i].to
                        /\ {w[i].from : i \in 1..n}
                             = {k \in DOMAIN admissions' : s \in DOMAIN admissions'[k].moves}
                        /\ \A i \in 1..n : admissions'[w[i].from].moves[s] = w[i].hash
      BY DEF HistoryIsExact
    <3>1. CASE s \in DOMAIN new
      <4>1. heads'[s] = row.moves[s]
            /\ history'[s] = WriteHistory(history[s], row.moves[s], Len(admissions) + 1)
        BY <2>1, <2>2, <3>1
      <4> QED
        BY <2>1, <3>1, <4>1, MovedHistory
    <3>2. CASE s \notin DOMAIN new
      <4>1. heads'[s] = heads[s] /\ history'[s] = history[s]
        BY <2>2, <3>2
      <4> QED
        BY <2>1, <3>2, <4>1, UnmovedHistory
    <3> QED
      BY <3>1, <3>2
  <2>4. ASSUME NEW s \in Slot
        PROVE  IsSequence(history'[s]) /\ \A i \in 1..Len(history'[s]) : IsWindow(history'[s][i])
    <3>1. IsSequence(history[s]) /\ \A i \in 1..Len(history[s]) : IsWindow(history[s][i])
      BY DEF HistoryInv
    <3> QED
      BY <2>2, <3>1, WriteHistoryIs
  <2> QED
    BY <1>1, <2>3, <2>4 DEF HistoryInv
<1>4. ASSUME NEW c \in Client, AdmitNoop(c) PROVE HistoryInv'
  <2>1. /\ admissions' = Append(admissions, [who |-> c, nth |-> count[c], moves |-> <<>>])
        /\ UNCHANGED <<heads, history>>
    BY <1>4 DEF AdmitNoop
  <2>2. ASSUME NEW s \in Slot
        PROVE  s \notin DOMAIN [who |-> c, nth |-> count[c], moves |-> <<>>].moves
    OBVIOUS
  <2>3. HistoryIsExact'
    BY <2>1, <2>2, UnmovedHistory DEF HistoryIsExact
  <2> QED
    BY <1>1, <2>1, <2>3 DEF HistoryInv
<1>5. ASSUME NEW c \in Client, Request(c) PROVE HistoryInv'
  BY <1>2, <1>3, <1>4, <1>5, CatalogIs
<1>6. ASSUME NEW q \in Metered, Refill(q) PROVE HistoryInv'
  BY <1>2, <1>6, OtherIs
<1>7. ASSUME NEW t \in Token, Mint(t) \/ Expire(t) PROVE HistoryInv'
  BY <1>2, <1>7, OtherIs
<1>8. CASE UNCHANGED vars
  BY <1>2, <1>8 DEF vars
<1> QED
  BY <1>5, <1>6, <1>7, <1>8 DEF Next

\* Every reachable catalog keeps, for each name, exactly the admissions that moved it as
\* consecutive windows whose last, open one is the head (name_pointer_history_writer).
THEOREM HistoryExact == Spec => []HistoryIsExact
<1>1. HistoryInv => HistoryIsExact
  BY DEF HistoryInv
<1> QED
  BY HistoryInit, HistoryStep, <1>1, PTL DEF Spec

----------------------------------------------------------------------------
(* The catalog is a ledger *)

\* The heads are what the log of publications makes them, those of a snapshot what it had
\* made them when the transaction began.
LinearInv ==
  /\ Shape
  /\ heads = Ledger!View(Publications, Len(admissions))
  /\ \A c \in Client : pc[c] = "txn" => snap[c].heads = Ledger!View(Publications, snap[c].at)

LEMMA PublicationsIs ==
  ASSUME IsSequence(admissions)
  PROVE  /\ IsSequence(Publications) /\ Len(Publications) = Len(admissions)
         /\ Len(admissions) \in Nat
<1>1. Len(admissions) \in Nat /\ DOMAIN admissions = 1..Len(admissions)
  BY AppendSequence
<1>2. Publications = [i \in 1..Len(admissions) |-> admissions[i].moves]
  BY <1>1 DEF Publications
<1>3. Publications \in Seq({Publications[i] : i \in DOMAIN Publications})
  BY <1>1, <1>2
<1> QED
  BY <1>1, <1>2, <1>3 DEF IsSequence

LEMMA PublicationsAppend ==
  ASSUME IsSequence(admissions), NEW row, admissions' = Append(admissions, row)
  PROVE  Publications' = Append(Publications, row.moves)
<1> DEFINE n == Len(admissions)  P == Publications  m == row.moves
<1>1. /\ n \in Nat /\ DOMAIN admissions' = 1..(n + 1)
      /\ \A i \in 1..n : admissions'[i] = admissions[i]
      /\ admissions'[n + 1] = row /\ DOMAIN admissions = 1..n
  BY AppendSequence
<1>2. Publications' = [i \in 1..(n + 1) |-> admissions'[i].moves]
  BY <1>1 DEF Publications
<1>3. Publications = [i \in 1..n |-> admissions[i].moves]
  BY <1>1 DEF Publications
<1>4. IsSequence(P) /\ Len(P) = n
  BY PublicationsIs
<1>5. /\ DOMAIN Append(P, m) = 1..(n + 1) /\ Append(P, m)[n + 1] = m
      /\ \A i \in 1..n : Append(P, m)[i] = P[i]
  BY <1>4, AppendSequence
<1>6. Append(P, m) = [i \in DOMAIN Append(P, m) |-> Append(P, m)[i]]
  BY <1>4 DEF IsSequence
<1>7. \A i \in 1..(n + 1) : Append(P, m)[i] = admissions'[i].moves
  <2> TAKE i \in 1..(n + 1)
  <2>1. CASE i = n + 1
    BY <2>1, <1>1, <1>5
  <2>2. CASE i # n + 1
    <3>1. i \in 1..n
      BY <2>2, <1>1
    <3> QED
      BY <3>1, <1>1, <1>3, <1>5
  <2> QED
    BY <2>1, <2>2
<1> QED
  BY <1>2, <1>5, <1>6, <1>7

LEMMA ViewAppend ==
  ASSUME NEW l, IsSequence(l), NEW e
  PROVE  /\ \A k \in 0..Len(l) : Ledger!View(Append(l, e), k) = Ledger!View(l, k)
         /\ Ledger!View(Append(l, e), Len(l) + 1)
              = [s \in Slot |-> IF s \in DOMAIN e THEN e[s] ELSE Ledger!View(l, Len(l))[s]]
<1>1. \A k \in 0..Len(l) : \A s \in Slot : Ledger!HeadAt(Append(l, e), k, s) = Ledger!HeadAt(l, k, s)
  BY HeadAtPrefix
<1>2. \A s \in Slot : Ledger!HeadAt(Append(l, e), Len(l) + 1, s)
                        = IF s \in DOMAIN e THEN e[s] ELSE Ledger!HeadAt(l, Len(l), s)
  BY HeadAtAppend
<1>3. \A k \in 0..Len(l) : Ledger!View(Append(l, e), k) = Ledger!View(l, k)
  BY <1>1 DEF Ledger!View
<1>4. \A s \in Slot : Ledger!View(l, Len(l))[s] = Ledger!HeadAt(l, Len(l), s)
  BY DEF Ledger!View
<1>5. Ledger!View(Append(l, e), Len(l) + 1) = [s \in Slot |-> Ledger!HeadAt(Append(l, e), Len(l) + 1, s)]
  BY DEF Ledger!View
<1> QED
  BY <1>2, <1>3, <1>4, <1>5

LEMMA LinearInit == Init => LinearInv
<1> SUFFICES ASSUME Init PROVE LinearInv
  OBVIOUS
<1>1. Shape
  BY ShapeInit
<1>2. admissions = <<>> /\ heads = [s \in Slot |-> None]
  BY DEF Init
<1>3. Len(admissions) = 0
  BY <1>2
<1>4. \A l, s : Ledger!HeadAt(l, 0, s) = None
  BY DEF Ledger!HeadAt
<1>5. heads = Ledger!View(Publications, Len(admissions))
  BY <1>2, <1>3, <1>4 DEF Ledger!View
<1>6. \A c \in Client : pc[c] # "txn"
  BY DEF Init
<1> QED
  BY <1>1, <1>5, <1>6 DEF LinearInv

\* A row appended to the log leaves the views of the transactions under way.
LEMMA LinearAppend ==
  ASSUME LinearInv, Shape', NEW row, admissions' = Append(admissions, row),
         heads' = [s \in Slot |-> IF s \in DOMAIN row.moves THEN row.moves[s] ELSE heads[s]],
         NEW c \in Client, pc'[c] # "txn",
         \A d \in Client \ {c} : pc'[d] = pc[d] /\ snap'[d] = snap[d]
  PROVE  LinearInv'
<1> DEFINE P == Publications  e == row.moves
<1>1. IsSequence(P) /\ Len(P) = Len(admissions) /\ Len(admissions') = Len(P) + 1
  BY PublicationsIs, AppendSequence DEF LinearInv, Shape
<1>2. Publications' = Append(P, e)
  BY PublicationsAppend DEF LinearInv, Shape
<1>3. heads = Ledger!View(P, Len(P))
  BY <1>1 DEF LinearInv
<1>4. heads' = Ledger!View(Append(P, e), Len(P) + 1)
  BY <1>1, <1>3, ViewAppend
<1>5. ASSUME NEW d \in Client, pc'[d] = "txn"
      PROVE  snap'[d].heads = Ledger!View(Append(P, e), snap'[d].at)
  <2>1. pc[d] = "txn" /\ snap'[d] = snap[d]
    BY <1>5
  <2>2. snap[d].heads = Ledger!View(P, snap[d].at) /\ snap[d].at \in 0..Len(P)
    BY <2>1, <1>1 DEF LinearInv, Shape
  <2>3. Ledger!View(Append(P, e), snap[d].at) = Ledger!View(P, snap[d].at)
    <3>1. IsSequence(P)
      BY <1>1
    <3>2. \A k \in 0..Len(P) : Ledger!View(Append(P, e), k) = Ledger!View(P, k)
      BY ONLY <3>1, ViewAppend
    <3> QED
      BY <2>2, <3>2
  <2> QED
    BY <2>1, <2>2, <2>3
<1>6. heads' = Ledger!View(Publications', Len(admissions'))
  BY <1>1, <1>2, <1>4
<1>7. \A d \in Client : pc'[d] = "txn" => snap'[d].heads = Ledger!View(Publications', snap'[d].at)
  BY <1>2, <1>5
<1> QED
  BY <1>6, <1>7 DEF LinearInv

LEMMA LinearStep == ASSUME LinearInv, [Next]_vars PROVE LinearInv'
<1>1. Shape /\ Shape'
  BY ShapeInv DEF LinearInv
<1>2. ASSUME UNCHANGED <<catalog, pc, request>> PROVE LinearInv'
  BY <1>1, <1>2 DEF LinearInv, catalog, request, Publications
<1>3. ASSUME NEW c \in Client, Admit(c) PROVE LinearInv'
  <2> DEFINE new == Lowered(req[c].patch, snap[c].heads)
             row == [who |-> c, nth |-> count[c], moves |-> new]
  <2>1. admissions' = Append(admissions, row) /\ row.moves = new
    BY <1>1, <1>3, AdmitIs
  <2>2. heads' = [s \in Slot |-> IF s \in DOMAIN new THEN new[s] ELSE heads[s]]
    BY <1>3 DEF Admit, MovePointers
  <2>3. pc'[c] # "txn" /\ \A d \in Client \ {c} : pc'[d] = pc[d] /\ snap'[d] = snap[d]
    BY <1>1, <1>3, CommittedIs DEF Admit, Alone
  <2> HIDE DEF new, row
  <2> QED
    BY <1>1, <2>1, <2>2, <2>3, LinearAppend
<1>4. ASSUME NEW c \in Client, AdmitNoop(c) PROVE LinearInv'
  <2> DEFINE row == [who |-> c, nth |-> count[c], moves |-> <<>>]
  <2>1. admissions' = Append(admissions, row)
    BY <1>4 DEF AdmitNoop
  <2>2. heads' = [s \in Slot |-> IF s \in DOMAIN row.moves THEN row.moves[s] ELSE heads[s]]
    <3>1. heads' = heads /\ heads = [s \in Slot |-> heads[s]]
      BY <1>1, <1>4 DEF AdmitNoop, Shape
    <3>2. \A s \in Slot : s \notin DOMAIN row.moves
      OBVIOUS
    <3> QED
      BY <3>1, <3>2
  <2>3. pc'[c] # "txn" /\ \A d \in Client \ {c} : pc'[d] = pc[d] /\ snap'[d] = snap[d]
    BY <1>1, <1>4, CommittedIs DEF AdmitNoop, Alone
  <2> HIDE DEF row
  <2> QED
    BY <1>1, <2>1, <2>2, <2>3, LinearAppend
<1>5. ASSUME NEW c \in Client, Request(c), ~Admit(c), ~AdmitNoop(c) PROVE LinearInv'
  <2>1. UNCHANGED catalog
    BY <1>5, CatalogIs
  <2>2. heads' = Ledger!View(Publications', Len(admissions'))
    BY <2>1 DEF LinearInv, catalog, Publications
  <2>3. Publications' = Publications
    BY <2>1 DEF catalog, Publications
  <2>4. ASSUME NEW d \in Client, pc'[d] = "txn"
        PROVE  snap'[d].heads = Ledger!View(Publications, snap'[d].at)
    <3>1. CASE d = c
      BY <1>1, <1>5, <2>4, <3>1, RequestIs DEF LinearInv
    <3>2. CASE d # c
      <4>1. pc'[d] = pc[d] /\ snap'[d] = snap[d]
        BY <1>1, <1>5, <3>2, RequestIs DEF Alone
      <4> QED
        BY <2>4, <4>1 DEF LinearInv
    <3> QED
      BY <3>1, <3>2
  <2>5. \A d \in Client : pc'[d] = "txn" => snap'[d].heads = Ledger!View(Publications', snap'[d].at)
    BY <2>3, <2>4
  <2> QED
    BY <1>1, <2>2, <2>5 DEF LinearInv
<1>6. ASSUME NEW q \in Metered, Refill(q) PROVE LinearInv'
  BY <1>2, <1>6, OtherIs
<1>7. ASSUME NEW t \in Token, Mint(t) \/ Expire(t) PROVE LinearInv'
  BY <1>2, <1>7, OtherIs
<1>8. CASE UNCHANGED vars
  BY <1>2, <1>8 DEF vars
<1> QED
  BY <1>3, <1>4, <1>5, <1>6, <1>7, <1>8 DEF Next

\* What client c asks of the ledger changes only by a step of its own.
LEMMA AskedIs ==
  ASSUME Shape, NEW c \in Client, Alone(c)
  PROVE  /\ Asked' = [Asked EXCEPT ![c] = Asked'[c]]
         /\ pc'[c] \in {"idle", "charge"} => Asked'[c] = {}
         /\ pc'[c] \in {"gate", "txn", "refuse"}
              => Asked'[c] = {[patch |-> req'[c].patch, base |-> req'[c].base]}
         /\ pc[c] \in {"idle", "charge"} => Asked[c] = {}
         /\ pc[c] \in {"gate", "txn", "refuse"}
              => Asked[c] = {[patch |-> req[c].patch, base |-> req[c].base]}
<1>1. \A d \in Client \ {c} : pc'[d] = pc[d] /\ req'[d] = req[d]
  BY DEF Alone
<1>2. \A d \in Client \ {c} : Asked'[d] = Asked[d]
  BY <1>1 DEF Asked
<1>3. Asked = [d \in Client |-> Asked[d]] /\ Asked' = [d \in Client |-> Asked'[d]]
  BY DEF Asked
<1>4. Asked' = [Asked EXCEPT ![c] = Asked'[c]]
  BY <1>2, <1>3
<1> QED
  BY <1>4 DEF Asked

\* A snapshot agrees with the heads at the slots that the transaction read of its scope.
LEMMA UnmovedSnapshot ==
  ASSUME NEW c \in Client, ~MovedSince(c)
  PROVE  \A s \in Slot : s[1] = req[c].patch.scope => heads[s] = snap[c].heads[s]
BY DEF MovedSince

\* A lowering reads its view at the product slots of its imports only.
LEMMA LoweredReads ==
  ASSUME NEW c \in Client, NEW p \in Patch[c], NEW v, NEW w,
         \A s \in Slot : s[1] = "product" => v[s] = w[s]
  PROVE  Lowered(p, v) = Lowered(p, w)
<1>1. \A n \in DOMAIN p.mods : Imports[n] \subseteq Name
  BY PatchType, GateAssumption
<1>2. \A n \in DOMAIN p.mods : \A m \in Imports[n] : v[<<"product", m>>] = w[<<"product", m>>]
  <2> TAKE n \in DOMAIN p.mods
  <2> TAKE m \in Imports[n]
  <2>1. <<"product", m>> \in Slot /\ <<"product", m>>[1] = "product"
    BY <1>1 DEF Slot, Scope
  <2> QED
    BY <2>1
<1>3. \A n \in DOMAIN p.mods : Address(n, p.mods, v) = Address(n, p.mods, w)
  BY <1>2 DEF Address
<1>4. \A s \in {<<p.scope, n>> : n \in DOMAIN p.mods} : s[2] \in DOMAIN p.mods
  OBVIOUS
<1> QED
  BY <1>3, <1>4 DEF Lowered

LEMMA AdmittedIs ==
  ASSUME NEW c \in Client, Verdict(c)[1] = "admitted"
  PROVE  LET new == Lowered(req[c].patch, snap[c].heads) IN
         /\ Resolves(req[c].patch, snap[c].heads) /\ InPolicy(c, new)
         /\ \A s \in DOMAIN new : snap[c].heads[s] = req[c].base[s]
BY DEF Verdict

LEMMA FoundIs ==
  ASSUME NEW c \in Client, Verdict(c)[1] = "already-admitted"
  PROVE  LET new == Lowered(req[c].patch, snap[c].heads) IN
         \A s \in DOMAIN new : snap[c].heads[s] = new[s]
BY DEF Verdict

LEMMA AdmitPublishes ==
  ASSUME LinearInv, NEW c \in Client, Admit(c)
  PROVE  Ledger!Publish(c)
<1> DEFINE p == req[c].patch  base == req[c].base  new == Lowered(p, snap[c].heads)
           P == Publications  a == [patch |-> p, base |-> base]
           k == IF p.scope = "product" THEN Len(admissions) ELSE snap[c].at
<1>1. /\ Shape /\ pc[c] = "txn" /\ p \in Patch[c]
      /\ admissions' = Append(admissions, [who |-> c, nth |-> count[c], moves |-> new])
      /\ DOMAIN new \subseteq Slot /\ \A s \in DOMAIN new : s[1] = p.scope
  BY AdmitIs DEF LinearInv
<1>2. IsSequence(P) /\ Len(P) = Len(admissions) /\ Len(admissions) \in Nat
  BY <1>1, PublicationsIs DEF Shape
<1>3. snap[c].at \in 0..Len(admissions) /\ snap[c].heads = Ledger!View(P, snap[c].at)
  BY <1>1 DEF Shape, LinearInv
<1>4. heads = Ledger!View(P, Len(P))
  BY <1>2 DEF LinearInv
<1>5. \A s \in Slot : s[1] = p.scope => heads[s] = snap[c].heads[s]
  BY UnmovedSnapshot DEF Admit
<1>6. k \in 0..Len(P) /\ (p.scope = "product" => k = Len(P))
  BY <1>2, <1>3
<1>7. new = Lowered(p, Ledger!View(P, k))
  <2>1. CASE p.scope = "product"
    <3>1. Lowered(p, snap[c].heads) = Lowered(p, heads)
      <4> DEFINE v == snap[c].heads
      <4>1. p \in Patch[c] /\ \A s \in Slot : s[1] = "product" => v[s] = heads[s]
        BY <1>1, <1>5, <2>1
      <4> HIDE DEF v, p
      <4>2. Lowered(p, v) = Lowered(p, heads)
        BY <4>1, LoweredReads
      <4> QED
        BY <4>2 DEF v, p
    <3> QED
      BY <3>1, <2>1, <1>2, <1>4
  <2>2. CASE p.scope # "product"
    BY <2>2, <1>3
  <2> QED
    BY <2>1, <2>2
<1>8. \A s \in DOMAIN new : Ledger!HeadAt(P, Len(P), s) = base[s]
  <2>1. \A s \in DOMAIN new : snap[c].heads[s] = base[s]
    BY AdmittedIs DEF Admit
  <2>2. \A s \in DOMAIN new : heads[s] = base[s]
    BY <1>1, <1>5, <2>1
  <2>3. \A s \in Slot : heads[s] = Ledger!HeadAt(P, Len(P), s)
    BY <1>4 DEF Ledger!View
  <2> QED
    BY <1>1, <2>2, <2>3
<1>9. Publications' = Append(P, new)
  <2> DEFINE row == [who |-> c, nth |-> count[c], moves |-> new]
  <2>1. Publications' = Append(P, row.moves)
    BY <1>1, PublicationsAppend DEF Shape
  <2> QED
    BY <2>1
<1>10. Alone(c) /\ pc'[c] \in {"idle", "charge"}
  BY <1>1, CommittedIs DEF Admit
<1>11. Asked[c] = {a} /\ Asked' = [Asked EXCEPT ![c] = {}]
  BY <1>1, <1>10, AskedIs
<1> HIDE DEF k, new, P
<1>12. a \in Asked[c] /\ a.patch = p /\ a.base = base
  BY <1>11
<1> QED
  BY <1>6, <1>7, <1>8, <1>9, <1>11, <1>12 DEF Ledger!Publish, P, IsProduct

LEMMA NoopFinds ==
  ASSUME LinearInv, NEW c \in Client, AdmitNoop(c)
  PROVE  Ledger!Find(c)
<1> DEFINE p == req[c].patch  new == Lowered(p, snap[c].heads)  P == Publications
           a == [patch |-> p, base |-> req[c].base]  k == snap[c].at
<1>1. Shape /\ pc[c] = "txn" /\ p \in Patch[c]
  BY DEF LinearInv, AdmitNoop, Shape, RequestOK, Under
<1>2. Len(P) = Len(admissions)
  BY <1>1, PublicationsIs DEF Shape
<1>3. k \in 0..Len(P) /\ snap[c].heads = Ledger!View(P, k)
  BY <1>1, <1>2 DEF Shape, LinearInv
<1>4. DOMAIN new \subseteq Slot
  BY <1>1, LoweredIs
<1>5. \A s \in DOMAIN new : Ledger!HeadAt(P, k, s) = new[s]
  <2>1. \A s \in DOMAIN new : snap[c].heads[s] = new[s]
    BY FoundIs DEF AdmitNoop
  <2>2. \A s \in Slot : snap[c].heads[s] = Ledger!HeadAt(P, k, s)
    BY <1>3 DEF Ledger!View
  <2> QED
    BY <1>4, <2>1, <2>2
<1>6. Publications' = Append(P, <<>>)
  <2> DEFINE row == [who |-> c, nth |-> count[c], moves |-> <<>>]
  <2>1. admissions' = Append(admissions, row)
    BY DEF AdmitNoop
  <2>2. Publications' = Append(P, row.moves)
    BY <1>1, <2>1, PublicationsAppend DEF Shape
  <2> QED
    BY <2>2
<1>7. Alone(c) /\ pc'[c] \in {"idle", "charge"}
  BY <1>1, CommittedIs DEF AdmitNoop
<1>8. Asked[c] = {a} /\ Asked' = [Asked EXCEPT ![c] = {}]
  BY <1>1, <1>7, AskedIs
<1>9. new = Lowered(p, Ledger!View(P, k))
  BY <1>3
<1> HIDE DEF k, new, P
<1>10. a \in Asked[c] /\ a.patch = p
  BY <1>8
<1> QED
  BY <1>3, <1>5, <1>6, <1>8, <1>9, <1>10 DEF Ledger!Find, P

LEMMA SubmitAsks ==
  ASSUME LinearInv, NEW c \in Client, Submit(c)
  PROVE  Ledger!Ask(c)
<1> DEFINE P == Publications
<1>1. PICK p \in Patch[c], t \in DOMAIN approvals \cup {None} :
         req' = [req EXCEPT ![c] = [patch |-> p, base |-> heads, token |-> t, tries |-> 0]]
  BY DEF Submit
<1>2. Shape /\ Alone(c) /\ pc[c] = "idle" /\ pc'[c] \in {"gate", "refuse"}
  BY RequestIs DEF LinearInv, Shape, Submit, Request
<1>3. req'[c].patch = p /\ req'[c].base = heads
  BY <1>1, <1>2 DEF Shape
<1>4. Asked[c] = {} /\ Asked' = [Asked EXCEPT ![c] = {[patch |-> p, base |-> heads]}]
  BY <1>2, <1>3, AskedIs
<1>5. Len(P) \in 0..Len(P) /\ heads = Ledger!View(P, Len(P))
  <2>1. Len(P) = Len(admissions) /\ Len(admissions) \in Nat
    BY <1>2, PublicationsIs DEF Shape
  <2> QED
    BY <2>1 DEF LinearInv
<1>6. UNCHANGED Publications
  BY DEF Submit, catalog, Publications
<1>7. p \in UNION {Patch[d] : d \in Client}
  BY <1>1
<1> QED
  BY <1>4, <1>5, <1>6, <1>7 DEF Ledger!Ask

\* A step that leaves the catalog and ends a client's request, or keeps what it asks.
LEMMA RestAnswers ==
  ASSUME LinearInv, NEW c \in Client, Request(c), ~Admit(c), ~AdmitNoop(c), ~Submit(c)
  PROVE  Ledger!Answer(c) \/ UNCHANGED <<Publications, Asked>>
<1>1. Shape /\ Alone(c) /\ UNCHANGED Publications
  BY RequestIs, CatalogIs DEF LinearInv, catalog, Publications
<1>2. ASSUME pc[c] \in {"gate", "txn", "refuse"}, pc'[c] \in {"idle", "charge"} PROVE Ledger!Answer(c)
  BY <1>1, <1>2, AskedIs DEF Ledger!Answer
<1>3. ASSUME pc[c] \in {"gate", "txn", "refuse"}, pc'[c] \in {"gate", "txn", "refuse"},
             req'[c].patch = req[c].patch, req'[c].base = req[c].base
      PROVE  UNCHANGED <<Publications, Asked>>
  <2>1. Asked'[c] = Asked[c]
    BY ZenonT(90), <1>1, <1>3, AskedIs
  <2> QED
    BY ZenonT(90), <1>1, <2>1, AskedIs DEF Asked
<1>4. ASSUME pc[c] = "charge", pc'[c] = "idle" PROVE UNCHANGED <<Publications, Asked>>
  <2>1. Asked'[c] = Asked[c]
    BY <1>1, <1>4, AskedIs
  <2> QED
    BY <1>1, <2>1, AskedIs DEF Asked
<1>5. CASE EnterGate(c)
  BY <1>1, <1>3, <1>5 DEF EnterGate, Shape
<1>6. CASE Rehearse(c)
  BY <1>1, <1>2, <1>6, DecideIs DEF Rehearse
<1>7. CASE Reject(c)
  BY <1>1, <1>3, <1>7, DecideIs DEF Reject
<1>8. CASE Retry(c)
  <2>1. pc[c] = "txn" /\ RequestOK(c)
    BY <1>1, <1>8 DEF Retry, Shape, Under
  <2>2. req'[c].patch = req[c].patch /\ req'[c].base = req[c].base
    BY <1>1, <1>8, <2>1 DEF Retry, RequestOK, Shape
  <2>3. pc'[c] \in {"txn", "refuse"}
    BY <1>1, <1>8, <2>1 DEF Retry, Shape
  <2> QED
    BY <1>3, <2>1, <2>2, <2>3
<1>9. CASE Fail(c)
  BY <1>1, <1>2, <1>9, OverIs DEF Fail
<1>10. CASE WriteRefusal(c)
  <2>1. CASE Over(c)
    BY <1>1, <1>2, <1>10, <2>1, OverIs DEF WriteRefusal
  <2>2. CASE pc' = [pc EXCEPT ![c] = "charge"]
    BY <1>1, <1>2, <1>10, <2>2 DEF WriteRefusal, Shape
  <2> QED
    BY <1>10, <2>1, <2>2 DEF WriteRefusal
<1>11. CASE Charge(c)
  BY <1>1, <1>4, <1>11, OverIs DEF Charge
<1> QED
  BY <1>5, <1>6, <1>7, <1>8, <1>9, <1>10, <1>11 DEF Request

LEMMA LedgerStep ==
  ASSUME LinearInv, [Next]_vars
  PROVE  [Ledger!LedgerNext]_<<Publications, Asked>>
<1>1. ASSUME NEW c \in Client, Request(c) PROVE [Ledger!LedgerNext]_<<Publications, Asked>>
  BY <1>1, AdmitPublishes, NoopFinds, SubmitAsks, RestAnswers DEF Ledger!LedgerNext
<1>2. ASSUME UNCHANGED <<catalog, pc, request>> PROVE UNCHANGED <<Publications, Asked>>
  BY <1>2 DEF catalog, request, Publications, Asked
<1>3. ASSUME NEW q \in Metered, Refill(q) PROVE UNCHANGED <<Publications, Asked>>
  BY <1>2, <1>3, OtherIs
<1>4. ASSUME NEW t \in Token, Mint(t) \/ Expire(t) PROVE UNCHANGED <<Publications, Asked>>
  BY <1>2, <1>4, OtherIs
<1>5. CASE UNCHANGED vars
  BY <1>2, <1>5 DEF vars
<1> QED
  BY <1>1, <1>3, <1>4, <1>5 DEF Next

LEMMA LedgerInitially == Init => Ledger!LedgerInit
<1> SUFFICES ASSUME Init PROVE Ledger!LedgerInit
  OBVIOUS
<1>1. Publications = <<>>
  BY DEF Init, Publications
<1>2. Asked = [c \in Client |-> {}]
  BY DEF Init, Asked
<1> QED
  BY <1>1, <1>2 DEF Ledger!LedgerInit

\* Whatever snapshots, retries and races the gate goes through, its catalog is a ledger
\* whose publications are each one step over the newest heads (SERIALIZABLE and the CAS of
\* UpsertPointerCAS in pipeline.go).
THEOREM GateImplementsLedger == Spec => ImplementsLedger
<1>1. Init => LinearInv /\ Ledger!LedgerInit
  BY LinearInit, LedgerInitially
<1>2. LinearInv /\ [Next]_vars => LinearInv' /\ [Ledger!LedgerNext]_<<Publications, Asked>>
  BY LinearStep, LedgerStep
<1> QED
  BY <1>1, <1>2, PTL DEF Spec, ImplementsLedger, Ledger!LedgerSpec

----------------------------------------------------------------------------
(* A submission has one outcome *)

RowsOf(c, n)     == {i \in DOMAIN admissions : admissions[i].who = c /\ admissions[i].nth = n}
RefusalsOf(c, n) == {r \in refusals : r.who = c /\ r.nth = n}

Settled(c, n) ==
  /\ \A i, j \in RowsOf(c, n) : i = j
  /\ \A r, s \in RefusalsOf(c, n) : r = s
  /\ RowsOf(c, n) = {} \/ RefusalsOf(c, n) = {}

\* The n-th submission of c is not decided yet, or not made.
Pending(c, n) == n > count[c] \/ (n = count[c] /\ pc[c] \in {"gate", "txn", "refuse"})

Told(c) == pc[c] = "charge" /\ req[c].patch.commit
           /\ verdict[c][1] \in {"admitted", "already-admitted"}

OutcomeInv ==
  /\ Shape
  /\ \A c \in Client : \A n \in Nat : Settled(c, n)
  /\ \A c \in Client : \A n \in Nat : Pending(c, n) => RowsOf(c, n) = {} /\ RefusalsOf(c, n) = {}
  /\ \A c \in Client : pc[c] = "refuse" => verdict[c][1] \notin {"admitted", "already-admitted"}
  /\ \A c \in Client : Told(c) => RowsOf(c, count[c]) # {}

LEMMA RowsAppend ==
  ASSUME Shape, NEW c, NEW n, NEW m,
         admissions' = Append(admissions, [who |-> c, nth |-> n, moves |-> m])
  PROVE  /\ RowsOf(c, n)' = RowsOf(c, n) \cup {Len(admissions) + 1}
         /\ \A d, k : d # c \/ k # n => RowsOf(d, k)' = RowsOf(d, k)
<1> DEFINE row == [who |-> c, nth |-> n, moves |-> m]
<1>1. /\ Len(admissions) \in Nat /\ DOMAIN admissions = 1..Len(admissions)
      /\ DOMAIN admissions' = 1..(Len(admissions) + 1)
      /\ \A i \in 1..Len(admissions) : admissions'[i] = admissions[i]
      /\ admissions'[Len(admissions) + 1] = row
  BY AppendSequence DEF Shape
<1>2. row.who = c /\ row.nth = n
  OBVIOUS
<1> QED
  BY <1>1, <1>2 DEF RowsOf

\* A step that decides nothing: c's submission was and stays pending, or was decided.
LEMMA OutcomeKeeps ==
  ASSUME OutcomeInv, Shape', NEW c \in Client, Alone(c), UNCHANGED <<admissions, refusals>>,
         count'[c] \in {count[c], count[c] + 1},
         pc'[c] \in {"gate", "txn", "refuse"} =>
            pc[c] \in {"gate", "txn", "refuse"} \/ count'[c] = count[c] + 1,
         pc'[c] = "refuse" => verdict'[c][1] \notin {"admitted", "already-admitted"},
         ~Told(c)'
  PROVE  OutcomeInv'
<1>1. \A d \in Client : \A n \in Nat :
         RowsOf(d, n)' = RowsOf(d, n) /\ RefusalsOf(d, n)' = RefusalsOf(d, n)
  BY DEF RowsOf, RefusalsOf
<1>2. \A d \in Client : \A n \in Nat : Settled(d, n)'
  BY <1>1 DEF OutcomeInv, Settled
<1>3. \A d \in Client : count[d] \in Nat
  BY DEF OutcomeInv, Shape
<1>4. \A d \in Client : \A n \in Nat : Pending(d, n)' => Pending(d, n)
  BY <1>3 DEF Pending, Alone
<1>5. \A d \in Client \ {c} : Told(d)' => Told(d)
  BY DEF Told, Alone
<1>6. \A d \in Client \ {c} : count'[d] = count[d] /\ pc'[d] = pc[d] /\ verdict'[d] = verdict[d]
  BY DEF Alone
<1>7. ASSUME NEW d \in Client, Told(d)' PROVE RowsOf(d, count[d])' # {}
  <2>1. d # c /\ Told(d) /\ count'[d] = count[d]
    BY <1>5, <1>6, <1>7
  <2>2. RowsOf(d, count[d]) # {} /\ count[d] \in Nat
    BY <1>3, <2>1 DEF OutcomeInv
  <2> QED
    BY <2>1, <2>2 DEF RowsOf
<1> QED
  BY <1>1, <1>2, <1>3, <1>4, <1>5, <1>6 DEF OutcomeInv

\* The commit of an admission row decides the submission.
LEMMA OutcomeRow ==
  ASSUME OutcomeInv, Shape', NEW c \in Client, Alone(c), UNCHANGED <<refusals, count>>, NEW m,
         admissions' = Append(admissions, [who |-> c, nth |-> count[c], moves |-> m]),
         pc[c] = "txn", pc'[c] \in {"idle", "charge"}
  PROVE  OutcomeInv'
<1>1. \A d \in Client : \A n \in Nat : RefusalsOf(d, n)' = RefusalsOf(d, n)
  BY DEF RefusalsOf
<1>2. /\ RowsOf(c, count[c])' = RowsOf(c, count[c]) \cup {Len(admissions) + 1}
      /\ \A d \in Client : \A n \in Nat : d # c \/ n # count[c] => RowsOf(d, n)' = RowsOf(d, n)
  BY RowsAppend DEF OutcomeInv
<1>3. \A d \in Client : count[d] \in Nat
  BY DEF OutcomeInv, Shape
<1>4. RowsOf(c, count[c]) = {} /\ RefusalsOf(c, count[c]) = {}
  BY <1>3 DEF OutcomeInv, Pending
<1>5. ASSUME NEW d \in Client, NEW n \in Nat PROVE Settled(d, n)'
  <2>1. CASE d = c /\ n = count[c]
    BY <1>1, <1>2, <1>3, <1>4, <2>1 DEF Settled
  <2>2. CASE d # c \/ n # count[c]
    BY <1>1, <1>2, <2>2 DEF OutcomeInv, Settled
  <2> QED
    BY <2>1, <2>2
<1>6. \A d \in Client : \A n \in Nat :
         Pending(d, n)' => Pending(d, n) /\ (d # c \/ n # count[c])
  BY <1>3 DEF Pending, Alone
<1>7. \A d \in Client \ {c} : Told(d)' => Told(d)
  BY DEF Told, Alone
<1>8. \A d \in Client \ {c} : pc'[d] = pc[d] /\ verdict'[d] = verdict[d]
  BY DEF Alone
<1>9. ASSUME NEW d \in Client, Told(d)' PROVE RowsOf(d, count[d])' # {}
  <2>1. CASE d = c
    BY <1>2, <2>1
  <2>2. CASE d # c
    BY <1>2, <1>3, <1>7, <1>9, <2>2 DEF OutcomeInv
  <2> QED
    BY <2>1, <2>2
<1>10. \A d \in Client : \A n \in Nat :
         Pending(d, n)' => RowsOf(d, n)' = {} /\ RefusalsOf(d, n)' = {}
  BY <1>1, <1>2, <1>6 DEF OutcomeInv
<1>11. \A d \in Client : pc'[d] = "refuse" => verdict'[d][1] \notin {"admitted", "already-admitted"}
  BY <1>8 DEF OutcomeInv
<1> QED
  BY <1>5, <1>9, <1>10, <1>11 DEF OutcomeInv

\* The row of the refusal ledger decides it too.
LEMMA OutcomeRefusal ==
  ASSUME OutcomeInv, Shape', NEW c \in Client, WriteRefusal(c)
  PROVE  OutcomeInv'
<1> DEFINE row == [who |-> c, nth |-> count[c], outcome |-> verdict[c][1]]
<1>1. /\ Alone(c) /\ UNCHANGED <<admissions, count>> /\ refusals' = refusals \cup {row}
      /\ pc[c] = "refuse" /\ pc'[c] \in {"idle", "charge"}
      /\ pc'[c] = "charge" => verdict'[c] = verdict[c]
  <2>1. CASE Over(c)
    BY <2>1, OverIs DEF WriteRefusal, OutcomeInv, catalog
  <2>2. CASE pc' = [pc EXCEPT ![c] = "charge"] /\ UNCHANGED request
    BY <2>2 DEF WriteRefusal, OutcomeInv, Shape, Alone, request, catalog
  <2> QED
    BY <2>1, <2>2 DEF WriteRefusal
<1>2. row.who = c /\ row.nth = count[c]
  OBVIOUS
<1> HIDE DEF row
<1>3. \A d \in Client : \A n \in Nat : RowsOf(d, n)' = RowsOf(d, n)
  BY <1>1 DEF RowsOf
<1>4. /\ RefusalsOf(c, count[c])' = RefusalsOf(c, count[c]) \cup {row}
      /\ \A d \in Client : \A n \in Nat : d # c \/ n # count[c] => RefusalsOf(d, n)' = RefusalsOf(d, n)
  BY <1>1, <1>2 DEF RefusalsOf
<1>5. \A d \in Client : count[d] \in Nat
  BY DEF OutcomeInv, Shape
<1>6. RowsOf(c, count[c]) = {} /\ RefusalsOf(c, count[c]) = {}
  BY <1>1, <1>5 DEF OutcomeInv, Pending
<1>7. ASSUME NEW d \in Client, NEW n \in Nat PROVE Settled(d, n)'
  <2>1. CASE d = c /\ n = count[c]
    <3>1. RefusalsOf(d, n)' = {row}
      BY <1>1, <1>4, <1>6, <2>1
    <3>2. RowsOf(d, n)' = {}
      BY <1>3, <1>6, <2>1
    <3> QED
      BY <3>1, <3>2 DEF Settled
  <2>2. CASE d # c \/ n # count[c]
    BY <1>3, <1>4, <2>2 DEF OutcomeInv, Settled
  <2> QED
    BY <2>1, <2>2
<1>8. \A d \in Client : \A n \in Nat :
         Pending(d, n)' => Pending(d, n) /\ (d # c \/ n # count[c])
  BY <1>1, <1>5 DEF Pending, Alone
<1>9. \A d \in Client \ {c} : Told(d)' => Told(d)
  BY <1>1 DEF Told, Alone
<1>10. ~Told(c)'
  BY <1>1 DEF Told, OutcomeInv
<1>11. \A d \in Client \ {c} : pc'[d] = pc[d] /\ verdict'[d] = verdict[d]
  BY <1>1 DEF Alone
<1>12. \A d \in Client : Told(d)' => RowsOf(d, count[d])' # {}
  BY <1>1, <1>3, <1>5, <1>9, <1>10 DEF OutcomeInv
<1>13. \A d \in Client : \A n \in Nat :
         Pending(d, n)' => RowsOf(d, n)' = {} /\ RefusalsOf(d, n)' = {}
  BY <1>3, <1>4, <1>8 DEF OutcomeInv
<1>14. \A d \in Client : pc'[d] = "refuse" => verdict'[d][1] \notin {"admitted", "already-admitted"}
  BY <1>1, <1>11 DEF OutcomeInv
<1> QED
  BY <1>7, <1>12, <1>13, <1>14 DEF OutcomeInv

LEMMA OutcomeInit == Init => OutcomeInv
<1> SUFFICES ASSUME Init PROVE OutcomeInv
  OBVIOUS
<1>1. Shape
  BY ShapeInit
<1>2. admissions = <<>> /\ refusals = {} /\ \A c \in Client : pc[c] = "idle"
  BY DEF Init
<1>3. \A c, n : RowsOf(c, n) = {} /\ RefusalsOf(c, n) = {}
  BY <1>2 DEF RowsOf, RefusalsOf
<1> QED
  BY <1>1, <1>2, <1>3 DEF OutcomeInv, Settled, Told

LEMMA OutcomeStep == ASSUME OutcomeInv, [Next]_vars PROVE OutcomeInv'
<1>1. Shape /\ Shape'
  BY ShapeInv DEF OutcomeInv
<1>2. ASSUME NEW c \in Client, Submit(c) PROVE OutcomeInv'
  <2>1. count'[c] = count[c] + 1 /\ UNCHANGED <<admissions, refusals>>
    BY <1>1, <1>2 DEF Submit, Shape, catalog, books
  <2>2. \/ pc'[c] = "refuse" /\ verdict'[c] = <<"budget-exhausted", "none">>
        \/ pc'[c] = "gate"
    BY <1>1, <1>2 DEF Submit, Shape
  <2> QED
    BY <1>1, <1>2, <2>1, <2>2, RequestIs, OutcomeKeeps DEF Request, Told
<1>3. ASSUME NEW c \in Client, EnterGate(c) PROVE OutcomeInv'
  <2>1. UNCHANGED <<admissions, refusals, count>> /\ pc[c] = "gate"
    BY <1>3 DEF EnterGate, catalog, books
  <2>2. \/ pc'[c] = "refuse" /\ verdict'[c] = <<"busy", "none">>
        \/ pc'[c] = "txn"
    BY <1>1, <1>3 DEF EnterGate, Shape
  <2> QED
    BY <1>1, <1>3, <2>1, <2>2, RequestIs, OutcomeKeeps DEF Request, Told
<1>4. ASSUME NEW c \in Client, Admit(c) PROVE OutcomeInv'
  <2>1. /\ Alone(c) /\ pc'[c] \in {"idle", "charge"} /\ pc[c] = "txn"
        /\ UNCHANGED <<refusals, count>>
    BY <1>1, <1>4, CommittedIs DEF Admit, books
  <2>2. PICK m : admissions' = Append(admissions, [who |-> c, nth |-> count[c], moves |-> m])
    BY <1>4 DEF Admit
  <2> QED
    BY <1>1, <2>1, <2>2, OutcomeRow
<1>5. ASSUME NEW c \in Client, AdmitNoop(c) PROVE OutcomeInv'
  <2>1. /\ Alone(c) /\ pc'[c] \in {"idle", "charge"} /\ pc[c] = "txn"
        /\ UNCHANGED <<refusals, count>>
    BY <1>1, <1>5, CommittedIs DEF AdmitNoop, books
  <2>2. admissions' = Append(admissions, [who |-> c, nth |-> count[c], moves |-> <<>>])
    BY <1>5 DEF AdmitNoop
  <2> QED
    BY <1>1, <2>1, <2>2, OutcomeRow
<1>6. ASSUME NEW c \in Client, Rehearse(c) PROVE OutcomeInv'
  <2>1. /\ Alone(c) /\ pc'[c] = "charge" /\ UNCHANGED <<admissions, refusals, count>> /\ ~Told(c)'
    BY <1>1, <1>6, DecideIs DEF Rehearse, Told, catalog, books
  <2> QED
    BY <1>1, <2>1, OutcomeKeeps
<1>7. ASSUME NEW c \in Client, Reject(c) PROVE OutcomeInv'
  <2>1. /\ Alone(c) /\ pc[c] = "txn" /\ pc'[c] = "refuse"
        /\ UNCHANGED <<admissions, refusals, count>>
        /\ verdict'[c][1] \in {"rejected", "stale-base"}
    BY <1>1, <1>7, DecideIs DEF Reject, catalog, books
  <2> QED
    BY <1>1, <2>1, OutcomeKeeps DEF Told
<1>8. ASSUME NEW c \in Client, Retry(c) PROVE OutcomeInv'
  <2>1. UNCHANGED <<admissions, refusals, count>> /\ pc[c] = "txn"
    BY <1>8 DEF Retry, catalog, books
  <2>2. \/ pc'[c] = "refuse" /\ verdict'[c] = <<"retry-exhausted", "serialize">>
        \/ pc'[c] = "txn"
    BY <1>1, <1>8 DEF Retry, Shape
  <2> QED
    BY <1>1, <1>8, <2>1, <2>2, RequestIs, OutcomeKeeps DEF Request, Told
<1>9. ASSUME NEW c \in Client, Fail(c) \/ Charge(c) PROVE OutcomeInv'
  <2>1. Alone(c) /\ pc'[c] = "idle" /\ UNCHANGED <<admissions, refusals, count>>
    BY <1>1, <1>9, OverIs DEF Fail, Charge, catalog, books
  <2> QED
    BY <1>1, <2>1, OutcomeKeeps DEF Told
<1>10. ASSUME NEW c \in Client, WriteRefusal(c) PROVE OutcomeInv'
  BY <1>1, <1>10, OutcomeRefusal
<1>11. ASSUME UNCHANGED <<catalog, refusals, pc, request, count>> PROVE OutcomeInv'
  <2>1. UNCHANGED <<admissions, refusals, pc, req, verdict, count>>
    BY <1>11 DEF catalog, request
  <2>2. \A c, n : RowsOf(c, n)' = RowsOf(c, n) /\ RefusalsOf(c, n)' = RefusalsOf(c, n)
    BY <2>1 DEF RowsOf, RefusalsOf
  <2>3. \A c, n : (Settled(c, n)' <=> Settled(c, n)) /\ (Pending(c, n)' <=> Pending(c, n))
    BY <2>1, <2>2 DEF Settled, Pending
  <2>4. \A c : Told(c)' <=> Told(c)
    BY <2>1 DEF Told
  <2> QED
    BY <1>1, <2>1, <2>2, <2>3, <2>4 DEF OutcomeInv
<1>12. ASSUME NEW q \in Metered, Refill(q) PROVE OutcomeInv'
  BY <1>11, <1>12, OtherIs
<1>13. ASSUME NEW t \in Token, Mint(t) \/ Expire(t) PROVE OutcomeInv'
  BY <1>11, <1>13, OtherIs
<1>14. CASE UNCHANGED vars
  BY <1>11, <1>14 DEF vars, books
<1> QED
  BY <1>2, <1>3, <1>4, <1>5, <1>6, <1>7, <1>8, <1>9, <1>10, <1>12, <1>13, <1>14 DEF Next, Request

LEMMA AtMostOne ==
  ASSUME NEW S, \A x, y \in S : x = y
  PROVE  (S = {} /\ Cardinality(S) = 0) \/ (S # {} /\ Cardinality(S) = 1)
<1>1. CASE S = {}
  BY <1>1, FS_EmptySet
<1>2. CASE S # {}
  <2>1. PICK x \in S : TRUE
    BY <1>2
  <2>2. S = {x}
    BY <2>1
  <2> QED
    BY <1>2, <2>2, FS_Singleton
<1> QED
  BY <1>1, <1>2

\* Every submission ends in one admission row, one refusal, or, after a fault or a dry run,
\* without a trace; never in two of them, and never in a success that has no row.
THEOREM OutcomeIsOne == Spec => []OneOutcome
<1>1. ASSUME OutcomeInv PROVE OneOutcome
  <2>1. MaxSubmits \in Nat
    BY GateAssumption
  <2>2. ASSUME NEW c \in Client, NEW n \in 1..MaxSubmits
        PROVE  /\ Cardinality(RowsOf(c, n)) + Cardinality(RefusalsOf(c, n)) <= 1
               /\ Told(c) /\ count[c] = n => RowsOf(c, n) # {}
    <3>1. Settled(c, n)
      BY <1>1, <2>1 DEF OutcomeInv
    <3>2. \/ RowsOf(c, n) = {} /\ Cardinality(RowsOf(c, n)) = 0
          \/ RowsOf(c, n) # {} /\ Cardinality(RowsOf(c, n)) = 1
      BY <3>1, AtMostOne DEF Settled
    <3>3. \/ RefusalsOf(c, n) = {} /\ Cardinality(RefusalsOf(c, n)) = 0
          \/ RefusalsOf(c, n) # {} /\ Cardinality(RefusalsOf(c, n)) = 1
      BY <3>1, AtMostOne DEF Settled
    <3>4. Cardinality(RowsOf(c, n)) + Cardinality(RefusalsOf(c, n)) <= 1
      BY <3>1, <3>2, <3>3 DEF Settled
    <3> QED
      BY <1>1, <3>4 DEF OutcomeInv
  <2> QED
    BY <2>2 DEF OneOutcome, RowsOf, RefusalsOf, Told
<1> QED
  BY OutcomeInit, OutcomeStep, <1>1, PTL DEF Spec

----------------------------------------------------------------------------
(* An agent lands what was approved *)

IsApproval(a) == a = [bound |-> a.bound, for |-> a.for, expired |-> a.expired, by |-> a.by]

SpentOn(i) == {t \in DOMAIN approvals : approvals[t].by = i}

\* The admission i spent the one approval it needed, or none.
Landed(i) ==
  IF Principal[admissions[i].who] \in Agents /\ \E s \in DOMAIN admissions[i].moves : s[1] = "product"
  THEN \E t \in SpentOn(i) : /\ SpentOn(i) = {t}
                             /\ approvals[t].bound = Hashes(admissions[i].moves)
                             /\ approvals[t].for = Principal[admissions[i].who]
  ELSE SpentOn(i) = {}

\* The approvals of a snapshot are still there, bound to what they were.
SeenApprovals(c) ==
  \A t \in DOMAIN snap[c].approvals :
     /\ t \in DOMAIN approvals /\ approvals[t].bound = snap[c].approvals[t].bound
     /\ approvals[t].for = snap[c].approvals[t].for

ApprovalInv ==
  /\ Shape
  /\ \A t \in DOMAIN approvals : /\ IsApproval(approvals[t])
                                 /\ approvals[t].by \in {None} \cup DOMAIN admissions
  /\ \A i \in DOMAIN admissions : Landed(i)
  /\ \A c \in Client : pc[c] = "txn" => SeenApprovals(c)

LEMMA ExpiredIs ==
  ASSUME NEW a, IsApproval(a), NEW v
  PROVE  [a EXCEPT !.expired = v] = [bound |-> a.bound, for |-> a.for, expired |-> v, by |-> a.by]
BY DEF IsApproval

LEMMA ApprovalInit == Init => ApprovalInv
<1> SUFFICES ASSUME Init PROVE ApprovalInv
  OBVIOUS
<1>1. Shape
  BY ShapeInit
<1>2. admissions = <<>> /\ approvals = <<>> /\ \A c \in Client : pc[c] = "idle"
  BY DEF Init
<1>3. DOMAIN admissions = {} /\ DOMAIN approvals = {}
  BY <1>2
<1> QED
  BY <1>1, <1>2, <1>3 DEF ApprovalInv

\* A step that spends no approval and adds no row, whatever it mints or expires.
LEMMA ApprovalKeeps ==
  ASSUME ApprovalInv, Shape', UNCHANGED admissions,
         DOMAIN approvals \subseteq DOMAIN approvals',
         \A t \in DOMAIN approvals' : IsApproval(approvals'[t]),
         \A t \in DOMAIN approvals : /\ approvals'[t].by = approvals[t].by
                                     /\ approvals'[t].bound = approvals[t].bound
                                     /\ approvals'[t].for = approvals[t].for,
         \A t \in DOMAIN approvals' \ DOMAIN approvals : approvals'[t].by = None,
         \A c \in Client : pc'[c] = "txn" =>
            \/ pc[c] = "txn" /\ snap'[c] = snap[c]
            \/ snap'[c].approvals = approvals
  PROVE  ApprovalInv'
<1>1. Len(admissions) \in Nat /\ DOMAIN admissions = 1..Len(admissions) /\ None \notin Nat
  BY AppendSequence, GateAssumption DEF ApprovalInv, Shape
<1>2. ASSUME NEW i \in DOMAIN admissions PROVE Landed(i)'
  <2>1. i # None
    BY <1>1
  <2>2. SpentOn(i)' = SpentOn(i)
    BY <2>1 DEF SpentOn
  <2>3. \A t \in SpentOn(i) : t \in DOMAIN approvals
    BY DEF SpentOn
  <2> QED
    BY <2>2, <2>3 DEF Landed, ApprovalInv
<1>3. ASSUME NEW c \in Client, pc'[c] = "txn" PROVE SeenApprovals(c)'
  <2>1. CASE pc[c] = "txn" /\ snap'[c] = snap[c]
    BY <2>1 DEF SeenApprovals, ApprovalInv
  <2>2. CASE snap'[c].approvals = approvals
    BY <2>2 DEF SeenApprovals
  <2> QED
    BY <1>3, <2>1, <2>2
<1>4. \A t \in DOMAIN approvals' : approvals'[t].by \in {None} \cup DOMAIN admissions'
  BY DEF ApprovalInv
<1> QED
  BY <1>2, <1>3, <1>4 DEF ApprovalInv

\* A row that moves nothing at product scope of an agent needs no approval and spends none.
LEMMA ApprovalFree ==
  ASSUME ApprovalInv, Shape', NEW c \in Client, Alone(c), pc'[c] # "txn", UNCHANGED approvals,
         NEW row, admissions' = Append(admissions, row),
         ~(Principal[row.who] \in Agents /\ \E s \in DOMAIN row.moves : s[1] = "product")
  PROVE  ApprovalInv'
<1>1. /\ Len(admissions) \in Nat /\ DOMAIN admissions = 1..Len(admissions)
      /\ DOMAIN admissions' = 1..(Len(admissions) + 1)
      /\ \A i \in 1..Len(admissions) : admissions'[i] = admissions[i]
      /\ admissions'[Len(admissions) + 1] = row
  BY AppendSequence DEF ApprovalInv, Shape
<1>2. None \notin Nat
  BY GateAssumption
<1>3. \A i : SpentOn(i)' = SpentOn(i)
  BY DEF SpentOn
<1>4. ASSUME NEW i \in DOMAIN admissions' PROVE Landed(i)'
  <2>1. CASE i \in DOMAIN admissions
    BY <1>1, <1>3, <2>1 DEF Landed, ApprovalInv
  <2>2. CASE i = Len(admissions) + 1
    <3>1. SpentOn(i) = {}
      BY <1>1, <1>2, <2>2 DEF SpentOn, ApprovalInv
    <3> QED
      BY <1>1, <1>3, <2>2, <3>1 DEF Landed
  <2> QED
    BY <1>1, <2>1, <2>2
<1>5. ASSUME NEW d \in Client, pc'[d] = "txn" PROVE SeenApprovals(d)'
  <2>1. pc[d] = "txn" /\ snap'[d] = snap[d]
    BY <1>5 DEF Alone
  <2> QED
    BY <2>1 DEF SeenApprovals, ApprovalInv
<1>6. \A t \in DOMAIN approvals' : /\ IsApproval(approvals'[t])
                                   /\ approvals'[t].by \in {None} \cup DOMAIN admissions'
  BY <1>1 DEF ApprovalInv
<1> QED
  BY <1>4, <1>5, <1>6 DEF ApprovalInv

\* An agent's publication at product scope spends the approval its policy gate found.
LEMMA ApprovalSpent ==
  ASSUME ApprovalInv, Shape', NEW c \in Client, Admit(c), NeedsToken(c, req[c].patch)
  PROVE  ApprovalInv'
<1> DEFINE new == Lowered(req[c].patch, snap[c].heads)  t == req[c].token
           row == [who |-> c, nth |-> count[c], moves |-> new]
<1>0. PICK id : id = Len(admissions) + 1
  OBVIOUS
<1>1. /\ pc[c] = "txn" /\ admissions' = Append(admissions, row)
      /\ DOMAIN new # {} /\ \A s \in DOMAIN new : s[1] = "product"
  BY AdmitIs DEF ApprovalInv, NeedsToken
<1>2. Alone(c) /\ pc'[c] # "txn"
  BY CommittedIs DEF Admit, ApprovalInv
<1>3. Valid(t, Principal[c], new, snap[c].approvals)
  BY AdmittedIs DEF Admit, InPolicy, NeedsToken
<1>4. /\ t \in DOMAIN approvals /\ approvals[t].bound = Hashes(new)
      /\ approvals[t].for = Principal[c] /\ IsApproval(approvals[t])
  BY <1>1, <1>3 DEF Valid, ApprovalInv, SeenApprovals
<1>5. approvals[t].by = None
  BY DEF Admit, SpentSince
<1>6. approvals' = [approvals EXCEPT ![t].by = id]
  BY <1>0 DEF Admit, ConsumeToken
<1>7. row.who = c /\ row.moves = new
  OBVIOUS
<1> HIDE DEF new, row, t
<1>8. /\ DOMAIN approvals' = DOMAIN approvals
      /\ approvals'[t] = [bound |-> approvals[t].bound, for |-> approvals[t].for,
                          expired |-> approvals[t].expired, by |-> id]
      /\ \A u \in DOMAIN approvals \ {t} : approvals'[u] = approvals[u]
  BY <1>4, <1>6 DEF IsApproval
<1>9. /\ Len(admissions) \in Nat /\ DOMAIN admissions = 1..Len(admissions)
      /\ DOMAIN admissions' = 1..id
      /\ \A i \in 1..Len(admissions) : admissions'[i] = admissions[i]
      /\ admissions'[id] = row
  BY <1>0, <1>1, AppendSequence DEF ApprovalInv, Shape
<1>10. None \notin Nat
  BY GateAssumption
<1>11. ASSUME NEW u \in DOMAIN approvals'
       PROVE  /\ IsApproval(approvals'[u]) /\ approvals'[u].by \in {None} \cup DOMAIN admissions'
              /\ approvals'[u].bound = approvals[u].bound /\ approvals'[u].for = approvals[u].for
  <2>1. CASE u = t
    <3>1. approvals'[u].by = id /\ id \in DOMAIN admissions'
      BY <1>0, <1>8, <1>9, <2>1
    <3> QED
      BY <1>8, <2>1, <3>1 DEF IsApproval
  <2>2. CASE u # t
    <3>1. approvals'[u] = approvals[u] /\ u \in DOMAIN approvals
      BY <1>8, <2>2
    <3>2. DOMAIN admissions \subseteq DOMAIN admissions'
      BY <1>0, <1>9
    <3> QED
      BY <3>1, <3>2 DEF ApprovalInv
  <2> QED
    BY <2>1, <2>2
<1>12. ASSUME NEW i \in DOMAIN admissions PROVE Landed(i)'
  <2>1. i # id /\ i # None
    BY <1>0, <1>9, <1>10
  <2>2. SpentOn(i)' = SpentOn(i) /\ \A u \in SpentOn(i) : u \in DOMAIN approvals /\ u # t
    BY <1>5, <1>8, <2>1 DEF SpentOn
  <2>3. Landed(i) /\ admissions'[i] = admissions[i]
    BY <1>9 DEF ApprovalInv
  <2>4. \A u \in SpentOn(i) : approvals'[u] = approvals[u]
    BY <1>8, <2>2
  <2> QED
    BY <2>2, <2>3, <2>4 DEF Landed
<1>13. Landed(id)'
  <2>1. \A u \in DOMAIN approvals \ {t} : approvals'[u].by # id
    BY <1>0, <1>8, <1>9, <1>10 DEF ApprovalInv
  <2>2. SpentOn(id)' = {t}
    BY <1>4, <1>8, <2>1 DEF SpentOn
  <2>3. approvals'[t].bound = Hashes(admissions'[id].moves)
        /\ approvals'[t].for = Principal[admissions'[id].who]
    BY <1>4, <1>7, <1>8, <1>9
  <2>4. \E s \in DOMAIN admissions'[id].moves : s[1] = "product"
    BY <1>1, <1>7, <1>9
  <2>5. Principal[admissions'[id].who] \in Agents
    BY <1>7, <1>9 DEF NeedsToken
  <2> QED
    BY <2>2, <2>3, <2>4, <2>5 DEF Landed, SpentOn
<1>14. ASSUME NEW d \in Client, pc'[d] = "txn" PROVE SeenApprovals(d)'
  <2>1. pc[d] = "txn" /\ snap'[d] = snap[d]
    BY <1>2, <1>14 DEF Alone
  <2> QED
    BY <1>8, <1>11, <2>1 DEF SeenApprovals, ApprovalInv
<1>15. \A i \in DOMAIN admissions' : Landed(i)'
  BY <1>0, <1>9, <1>12, <1>13
<1> QED
  BY <1>11, <1>14, <1>15 DEF ApprovalInv

LEMMA ApprovalStep == ASSUME ApprovalInv, [Next]_vars PROVE ApprovalInv'
<1>1. Shape /\ Shape'
  BY ShapeInv DEF ApprovalInv
<1>2. \A t \in DOMAIN approvals : IsApproval(approvals[t])
  BY DEF ApprovalInv
<1>3. ASSUME NEW c \in Client, Admit(c) PROVE ApprovalInv'
  <2> DEFINE new == Lowered(req[c].patch, snap[c].heads)
             row == [who |-> c, nth |-> count[c], moves |-> new]
  <2>1. CASE NeedsToken(c, req[c].patch)
    BY <1>1, <1>3, <2>1, ApprovalSpent
  <2>2. CASE ~NeedsToken(c, req[c].patch)
    <3>1. /\ admissions' = Append(admissions, row) /\ row.who = c /\ row.moves = new
          /\ \A s \in DOMAIN new : s[1] = req[c].patch.scope
      BY <1>1, <1>3, AdmitIs
    <3>2. Alone(c) /\ pc'[c] # "txn" /\ UNCHANGED approvals
      BY <1>1, <1>3, <2>2, CommittedIs DEF Admit, ConsumeToken
    <3> HIDE DEF new, row
    <3>3. ~(Principal[row.who] \in Agents /\ \E s \in DOMAIN row.moves : s[1] = "product")
      BY <2>2, <3>1 DEF NeedsToken
    <3> QED
      BY <1>1, <3>1, <3>2, <3>3, ApprovalFree
  <2> QED
    BY <2>1, <2>2
<1>4. ASSUME NEW c \in Client, AdmitNoop(c) PROVE ApprovalInv'
  <2> DEFINE row == [who |-> c, nth |-> count[c], moves |-> <<>>]
  <2>1. admissions' = Append(admissions, row) /\ UNCHANGED approvals
    BY <1>4 DEF AdmitNoop
  <2>2. Alone(c) /\ pc'[c] # "txn"
    BY <1>1, <1>4, CommittedIs DEF AdmitNoop
  <2>3. \A s \in DOMAIN row.moves : FALSE
    OBVIOUS
  <2> HIDE DEF row
  <2> QED
    BY <1>1, <2>1, <2>2, <2>3, ApprovalFree
<1>5. ASSUME NEW c \in Client, Request(c), ~Admit(c), ~AdmitNoop(c) PROVE ApprovalInv'
  <2>1. UNCHANGED <<admissions, approvals>>
    BY <1>5 DEF Request, Submit, EnterGate, Rehearse, Reject, Retry, Fail, WriteRefusal, Charge, catalog
  <2>2. ASSUME NEW d \in Client, pc'[d] = "txn"
        PROVE  (pc[d] = "txn" /\ snap'[d] = snap[d]) \/ snap'[d].approvals = approvals
    BY <1>1, <1>5, <2>2, RequestIs DEF Alone
  <2> QED
    BY <1>1, <1>2, <2>1, <2>2, ApprovalKeeps
<1>6. ASSUME NEW q \in Metered, Refill(q) PROVE ApprovalInv'
  <2>1. UNCHANGED <<admissions, approvals, pc, snap>>
    BY <1>6 DEF Refill, catalog, request
  <2> QED
    BY <1>1, <1>2, <2>1, ApprovalKeeps
<1>7. ASSUME NEW t \in Token, Mint(t) PROVE ApprovalInv'
  <2>1. UNCHANGED <<admissions, pc, snap>> /\ t \notin DOMAIN approvals
    BY <1>7 DEF Mint, catalog, request
  <2>2. PICK bound, for : approvals' = [u \in DOMAIN approvals \cup {t} |->
              IF u = t THEN [bound |-> bound, for |-> for, expired |-> FALSE, by |-> None]
              ELSE approvals[u]]
    BY ZenonT(90), <1>7 DEF Mint
  <2>3. approvals'[t] = [bound |-> bound, for |-> for, expired |-> FALSE, by |-> None]
    BY <2>2
  <2>4. IsApproval(approvals'[t]) /\ approvals'[t].by = None
    BY <2>3 DEF IsApproval
  <2>5. DOMAIN approvals' = DOMAIN approvals \cup {t} /\ \A u \in DOMAIN approvals : approvals'[u] = approvals[u]
    BY <2>1, <2>2
  <2> QED
    BY <1>1, <1>2, <2>1, <2>4, <2>5, ApprovalKeeps
<1>8. ASSUME NEW t \in Token, Expire(t) PROVE ApprovalInv'
  <2>1. UNCHANGED <<admissions, pc, snap>> /\ t \in DOMAIN approvals
    BY <1>8 DEF Expire, catalog, request
  <2>2. /\ DOMAIN approvals' = DOMAIN approvals
        /\ approvals'[t] = [bound |-> approvals[t].bound, for |-> approvals[t].for,
                            expired |-> TRUE, by |-> approvals[t].by]
        /\ \A u \in DOMAIN approvals \ {t} : approvals'[u] = approvals[u]
    <3>1. approvals' = [approvals EXCEPT ![t] = [approvals[t] EXCEPT !.expired = TRUE]]
      BY <1>8 DEF Expire
    <3>2. [approvals[t] EXCEPT !.expired = TRUE]
            = [bound |-> approvals[t].bound, for |-> approvals[t].for,
               expired |-> TRUE, by |-> approvals[t].by]
      BY <1>2, <2>1, ExpiredIs
    <3> QED
      BY <2>1, <3>1, <3>2
  <2>3. \A u \in DOMAIN approvals : /\ IsApproval(approvals'[u]) /\ approvals'[u].by = approvals[u].by
                                    /\ approvals'[u].bound = approvals[u].bound
                                    /\ approvals'[u].for = approvals[u].for
    BY <1>2, <2>1, <2>2 DEF IsApproval
  <2> QED
    BY <1>1, <2>1, <2>2, <2>3, ApprovalKeeps
<1>9. CASE UNCHANGED vars
  <2>1. UNCHANGED <<admissions, approvals, pc, snap>>
    BY <1>9 DEF vars, catalog, request
  <2> QED
    BY <1>1, <1>2, <2>1, ApprovalKeeps
<1> QED
  BY <1>3, <1>4, <1>5, <1>6, <1>7, <1>8, <1>9 DEF Next

\* What an agent moves at product scope is what a human approved, and each approval lands
\* once (the scope policy and consumeToken of agentplane.go, under SERIALIZABLE).
THEOREM ApprovalsLand == Spec => []ApprovedLands
<1>1. ApprovalInv => ApprovedLands
  BY DEF ApprovalInv, ApprovedLands, Landed, SpentOn
<1> QED
  BY ApprovalInit, ApprovalStep, <1>1, PTL DEF Spec

----------------------------------------------------------------------------
(* A unit of fuel is worth one pipeline of each client *)

Callers(q)  == {c \in Client : Principal[c] = q}
Flying(c)   == pc[c] = "gate" \/ Held(c)
HeldBy(q)   == {c \in Callers(q) : Held(c)}
FlyingBy(q) == {c \in Callers(q) : Flying(c)}

Spent(q) == (Capacity + refills[q]) - fuel[q]

\* The pipelines of q that ended without a fault are paid for by what it spent, each unit
\* at most once by each of its clients; an empty bucket has no more to pay than the
\* requests that passed the check before it was empty.
PaidFor(q) ==
  begun[q] + (IF fuel[q] = 0 THEN Cardinality(FlyingBy(q)) ELSE 0)
    <= Cardinality(Callers(q)) * Spent(q) + Cardinality(HeldBy(q)) + faults

FuelInv ==
  /\ Shape
  /\ fuel \in [Metered -> 0..Capacity] /\ refills \in [Metered -> Nat]
  /\ begun \in [Agents \cup Metered \cup {"human"} -> Nat] /\ faults \in Nat
  /\ \A q \in Metered : PaidFor(q)

LEMMA CountMove ==
  ASSUME NEW S, NEW T, NEW c, IsFiniteSet(S), S \ {c} = T \ {c}
  PROVE  /\ IsFiniteSet(T) /\ Cardinality(S) \in Nat /\ Cardinality(T) \in Nat
         /\ Cardinality(T) + (IF c \in S THEN 1 ELSE 0) = Cardinality(S) + (IF c \in T THEN 1 ELSE 0)
<1> DEFINE R == S \ {c}
<1>1. IsFiniteSet(R)
  BY FS_Subset
<1>2. c \notin R
  OBVIOUS
<1>3. /\ IsFiniteSet(R \cup {c}) /\ Cardinality(R \cup {c}) = Cardinality(R) + 1
      /\ Cardinality(R) \in Nat
  BY <1>1, <1>2, FS_AddElement, FS_CardinalityType
<1>4. S = IF c \in S THEN R \cup {c} ELSE R
  OBVIOUS
<1>5. T = IF c \in T THEN R \cup {c} ELSE R
  OBVIOUS
<1> HIDE DEF R
<1>6. Cardinality(S) = Cardinality(R) + (IF c \in S THEN 1 ELSE 0)
  BY <1>3, <1>4
<1>7. Cardinality(T) = Cardinality(R) + (IF c \in T THEN 1 ELSE 0) /\ IsFiniteSet(T)
  BY <1>1, <1>3, <1>5
<1> QED
  BY <1>3, <1>6, <1>7

LEMMA CallersFinite ==
  ASSUME NEW q
  PROVE  /\ IsFiniteSet(Callers(q)) /\ IsFiniteSet(HeldBy(q)) /\ IsFiniteSet(FlyingBy(q))
         /\ Cardinality(Callers(q)) \in Nat /\ Cardinality(HeldBy(q)) \in Nat
         /\ Cardinality(FlyingBy(q)) \in Nat
         /\ Cardinality(HeldBy(q)) <= Cardinality(FlyingBy(q))
         /\ Cardinality(FlyingBy(q)) <= Cardinality(Callers(q))
<1>1. IsFiniteSet(Client)
  BY GateAssumption
<1>2. /\ Callers(q) \subseteq Client /\ HeldBy(q) \subseteq FlyingBy(q)
      /\ FlyingBy(q) \subseteq Callers(q)
  BY DEF Callers, HeldBy, FlyingBy, Flying
<1>3. IsFiniteSet(Callers(q))
  BY <1>1, <1>2, FS_Subset
<1>4. IsFiniteSet(FlyingBy(q)) /\ Cardinality(FlyingBy(q)) <= Cardinality(Callers(q))
  BY <1>2, <1>3, FS_Subset
<1>5. IsFiniteSet(HeldBy(q)) /\ Cardinality(HeldBy(q)) <= Cardinality(FlyingBy(q))
  BY <1>2, <1>4, FS_Subset
<1> QED
  BY <1>3, <1>4, <1>5, FS_CardinalityType

\* A step of client c moves c alone in and out of the accounts of its principal.
LEMMA AccountsIs ==
  ASSUME Shape, NEW c \in Client, Alone(c), NEW q
  PROVE  /\ q # Principal[c] => HeldBy(q)' = HeldBy(q) /\ FlyingBy(q)' = FlyingBy(q)
         /\ q = Principal[c] =>
              /\ Cardinality(HeldBy(q)') + (IF Held(c) THEN 1 ELSE 0)
                   = Cardinality(HeldBy(q)) + (IF Held(c)' THEN 1 ELSE 0)
              /\ Cardinality(FlyingBy(q)') + (IF Flying(c) THEN 1 ELSE 0)
                   = Cardinality(FlyingBy(q)) + (IF Flying(c)' THEN 1 ELSE 0)
              /\ Cardinality(HeldBy(q)') \in Nat /\ Cardinality(FlyingBy(q)') \in Nat
<1>1. \A d \in Client \ {c} : Held(d)' = Held(d) /\ Flying(d)' = Flying(d)
  BY DEF Alone, Held, Flying
<1>2. HeldBy(q) \ {c} = HeldBy(q)' \ {c} /\ FlyingBy(q) \ {c} = FlyingBy(q)' \ {c}
  BY <1>1 DEF HeldBy, FlyingBy, Callers
<1>3. q # Principal[c] => c \notin HeldBy(q) \cup HeldBy(q)' \cup FlyingBy(q) \cup FlyingBy(q)'
  BY DEF HeldBy, FlyingBy, Callers
<1>4. q = Principal[c] => /\ c \in HeldBy(q) <=> Held(c)
                          /\ c \in HeldBy(q)' <=> Held(c)'
                          /\ c \in FlyingBy(q) <=> Flying(c)
                          /\ c \in FlyingBy(q)' <=> Flying(c)'
  BY DEF HeldBy, FlyingBy, Callers
<1>5. IsFiniteSet(HeldBy(q)) /\ IsFiniteSet(FlyingBy(q))
  BY CallersFinite
<1>6. /\ Cardinality(HeldBy(q)') + (IF c \in HeldBy(q) THEN 1 ELSE 0)
           = Cardinality(HeldBy(q)) + (IF c \in HeldBy(q)' THEN 1 ELSE 0)
      /\ Cardinality(HeldBy(q)') \in Nat
  BY <1>2, <1>5, CountMove
<1>7. /\ Cardinality(FlyingBy(q)') + (IF c \in FlyingBy(q) THEN 1 ELSE 0)
           = Cardinality(FlyingBy(q)) + (IF c \in FlyingBy(q)' THEN 1 ELSE 0)
      /\ Cardinality(FlyingBy(q)') \in Nat
  BY <1>2, <1>5, CountMove
<1>8. q # Principal[c] => HeldBy(q)' = HeldBy(q) /\ FlyingBy(q)' = FlyingBy(q)
  BY <1>2, <1>3
<1> QED
  BY <1>4, <1>6, <1>7, <1>8

\* One more unit spent pays one pipeline of each of n clients.
LEMMA OneMoreEach ==
  ASSUME NEW n \in Nat, NEW a \in Int, NEW b \in Int, a + 1 <= b
  PROVE  n * a \in Int /\ n * b \in Int /\ n * a + n <= n * b
<1>1. n * b = n * a + n * (b - a)
  OBVIOUS
<1>2. b - a - 1 \in Nat /\ n * (b - a - 1) \in Nat
  OBVIOUS
<1>3. n * (b - a) = n * (b - a - 1) + n
  OBVIOUS
<1> QED
  BY <1>1, <1>2, <1>3

LEMMA FuelType ==
  ASSUME FuelInv, NEW q \in Metered
  PROVE  /\ fuel[q] \in 0..Capacity /\ refills[q] \in Nat /\ begun[q] \in Nat /\ faults \in Nat
         /\ Capacity \in Nat /\ Capacity > 0 /\ Spent(q) \in Nat
         /\ Cardinality(Callers(q)) * Spent(q) \in Int
<1>1. Capacity \in Nat /\ Capacity > 0
  BY GateAssumption
<1>2. fuel[q] \in 0..Capacity /\ refills[q] \in Nat /\ begun[q] \in Nat /\ faults \in Nat
  BY DEF FuelInv
<1>3. Spent(q) \in Nat
  BY <1>1, <1>2 DEF Spent
<1>4. Cardinality(Callers(q)) \in Nat
  BY CallersFinite
<1> QED
  BY <1>1, <1>2, <1>3, <1>4

\* A step that moves no money: nobody begins or ends, and who joins saw fuel.
LEMMA FuelKeeps ==
  ASSUME FuelInv, Shape', NEW c \in Client, Alone(c), UNCHANGED <<fuel, refills, begun, faults>>,
         Held(c)' <=> Held(c),
         Flying(c)' => Flying(c) \/ (Principal[c] \in Metered => fuel[Principal[c]] >= 1)
  PROVE  FuelInv'
<1>1. ASSUME NEW q \in Metered PROVE PaidFor(q)'
  <2>1. PaidFor(q) /\ Spent(q)' = Spent(q)
    BY DEF FuelInv, Spent
  <2>2. CASE q # Principal[c]
    BY <2>1, <2>2, AccountsIs DEF PaidFor, FuelInv
  <2>3. CASE q = Principal[c]
    <3> DEFINE h == Cardinality(HeldBy(q))  f == Cardinality(FlyingBy(q))
               hh == Cardinality(HeldBy(q)')  ff == Cardinality(FlyingBy(q)')
               n == Cardinality(Callers(q)) * Spent(q)
    <3>1. /\ fuel[q] \in 0..Capacity /\ begun[q] \in Nat /\ faults \in Nat
          /\ Capacity \in Nat /\ n \in Int /\ h \in Nat /\ f \in Nat
      BY FuelType, CallersFinite
    <3>2. hh \in Nat /\ ff \in Nat
      BY <2>3, AccountsIs DEF FuelInv
    <3>3. hh = h
      BY <2>3, <3>1, <3>2, AccountsIs DEF FuelInv
    <3>4. fuel[q] = 0 => ff <= f
      <4>1. fuel[q] = 0 => (Flying(c)' => Flying(c))
        BY <2>3, <3>1
      <4>2. ff + (IF Flying(c) THEN 1 ELSE 0) = f + (IF Flying(c)' THEN 1 ELSE 0)
        BY <2>3, AccountsIs DEF FuelInv
      <4> QED
        BY <3>1, <3>2, <4>1, <4>2
    <3>5. begun[q] + (IF fuel[q] = 0 THEN f ELSE 0) <= n + h + faults
      BY <2>1 DEF PaidFor
    <3>6. begun[q] + (IF fuel[q] = 0 THEN ff ELSE 0) <= n + hh + faults
      BY <3>1, <3>2, <3>3, <3>4, <3>5
    <3> QED
      BY <2>1, <3>6 DEF PaidFor, Callers
  <2> QED
    BY <2>2, <2>3
<1> QED
  BY <1>1 DEF FuelInv

\* A step of c leaves the accounts of the other principals, but for the faults.
LEMMA FuelMove ==
  ASSUME FuelInv, Shape', NEW c \in Client, Alone(c), UNCHANGED refills,
         fuel' \in [Metered -> 0..Capacity],
         begun' \in [Agents \cup Metered \cup {"human"} -> Nat],
         \A q \in Metered : q # Principal[c] => fuel'[q] = fuel[q] /\ begun'[q] = begun[q],
         faults' \in Nat, faults' >= faults,
         Principal[c] \in Metered => PaidFor(Principal[c])'
  PROVE  FuelInv'
<1>1. ASSUME NEW q \in Metered, q # Principal[c] PROVE PaidFor(q)'
  <2>1. PaidFor(q) /\ Spent(q)' = Spent(q) /\ fuel'[q] = fuel[q] /\ begun'[q] = begun[q]
    BY <1>1 DEF FuelInv, Spent
  <2>2. HeldBy(q)' = HeldBy(q) /\ FlyingBy(q)' = FlyingBy(q)
    BY <1>1, AccountsIs DEF FuelInv
  <2> DEFINE h == Cardinality(HeldBy(q))  f == Cardinality(FlyingBy(q))
             n == Cardinality(Callers(q)) * Spent(q)
  <2>3. /\ fuel[q] \in 0..Capacity /\ begun[q] \in Nat /\ faults \in Nat
        /\ n \in Int /\ h \in Nat /\ f \in Nat
    BY FuelType, CallersFinite
  <2>4. begun[q] + (IF fuel[q] = 0 THEN f ELSE 0) <= n + h + faults
    BY <2>1 DEF PaidFor
  <2>5. begun[q] + (IF fuel[q] = 0 THEN f ELSE 0) <= n + h + faults'
    BY <2>3, <2>4
  <2> QED
    BY <2>1, <2>2, <2>5 DEF PaidFor, Callers
<1>2. \A q \in Metered : PaidFor(q)'
  BY <1>1
<1>3. refills' \in [Metered -> Nat]
  BY DEF FuelInv
<1> QED
  BY <1>2, <1>3 DEF FuelInv

\* A pipeline that begins holds a permit.
LEMMA FuelEnter ==
  ASSUME FuelInv, Shape', NEW c \in Client, Alone(c), pc[c] = "gate", pc'[c] = "txn",
         begun' = [begun EXCEPT ![Principal[c]] = @ + 1], UNCHANGED <<fuel, refills, faults>>
  PROVE  FuelInv'
<1>1. Principal[c] \in Agents \cup Metered \cup {"human"}
  BY GateAssumption
<1>2. begun' \in [Agents \cup Metered \cup {"human"} -> Nat]
  BY <1>1 DEF FuelInv
<1>3. \A q \in Metered : q # Principal[c] => begun'[q] = begun[q]
  BY DEF FuelInv
<1>4. ASSUME NEW q \in Metered, q = Principal[c] PROVE PaidFor(q)'
  <2> DEFINE h == Cardinality(HeldBy(q))  f == Cardinality(FlyingBy(q))
             hh == Cardinality(HeldBy(q)')  ff == Cardinality(FlyingBy(q)')
             n == Cardinality(Callers(q)) * Spent(q)
  <2>1. PaidFor(q) /\ Spent(q)' = Spent(q) /\ begun'[q] = begun[q] + 1 /\ begun[q] \in Nat
    BY <1>1, <1>4 DEF FuelInv, Spent
  <2>2. fuel[q] \in 0..Capacity /\ faults \in Nat /\ n \in Int /\ h \in Nat /\ f \in Nat
    BY FuelType, CallersFinite
  <2>3. ~Held(c) /\ Held(c)' /\ Flying(c) /\ Flying(c)'
    BY DEF Held, Flying
  <2>4. hh \in Nat /\ ff \in Nat /\ hh = h + 1 /\ ff + 1 = f + 1
    BY <1>4, <2>2, <2>3, AccountsIs DEF FuelInv
  <2>5. begun[q] + (IF fuel[q] = 0 THEN f ELSE 0) <= n + h + faults
    BY <2>1 DEF PaidFor
  <2>6. begun[q] + 1 + (IF fuel[q] = 0 THEN ff ELSE 0) <= n + hh + faults
    BY <2>1, <2>2, <2>4, <2>5
  <2> QED
    BY <2>1, <2>6 DEF PaidFor, Callers
<1> QED
  BY <1>2, <1>3, <1>4, FuelMove DEF FuelInv

\* A fault ends a request that is not charged.
LEMMA FuelFault ==
  ASSUME FuelInv, Shape', NEW c \in Client, Alone(c), pc'[c] = "idle",
         faults' = faults + 1, UNCHANGED <<fuel, refills, begun>>
  PROVE  FuelInv'
<1>1. ASSUME NEW q \in Metered, q = Principal[c] PROVE PaidFor(q)'
  <2> DEFINE h == Cardinality(HeldBy(q))  f == Cardinality(FlyingBy(q))
             hh == Cardinality(HeldBy(q)')  ff == Cardinality(FlyingBy(q)')
             n == Cardinality(Callers(q)) * Spent(q)
  <2>1. PaidFor(q) /\ Spent(q)' = Spent(q)
    BY DEF FuelInv, Spent
  <2>2. /\ fuel[q] \in 0..Capacity /\ faults \in Nat /\ n \in Int /\ h \in Nat /\ f \in Nat
        /\ begun[q] \in Nat
    BY FuelType, CallersFinite
  <2>3. ~Held(c)' /\ ~Flying(c)'
    BY DEF Held, Flying
  <2>4. /\ hh \in Nat /\ ff \in Nat
        /\ hh + (IF Held(c) THEN 1 ELSE 0) = h /\ ff + (IF Flying(c) THEN 1 ELSE 0) = f
    BY <1>1, <2>2, <2>3, AccountsIs DEF FuelInv
  <2>5. hh + 1 >= h /\ ff <= f
    BY <2>2, <2>4
  <2>6. begun[q] + (IF fuel[q] = 0 THEN f ELSE 0) <= n + h + faults
    BY <2>1 DEF PaidFor
  <2>7. begun[q] + (IF fuel[q] = 0 THEN ff ELSE 0) <= n + hh + (faults + 1)
    BY <2>2, <2>4, <2>5, <2>6
  <2> QED
    BY <2>1, <2>7 DEF PaidFor, Callers
<1> QED
  BY <1>1, FuelMove DEF FuelInv

\* A charge pays for the pipeline it ends: a unit at least, or nothing into an empty bucket.
LEMMA FuelCharge ==
  ASSUME FuelInv, Shape', NEW c \in Client, Charge(c)
  PROVE  FuelInv'
<1>1. Alone(c) /\ pc'[c] = "idle" /\ pc[c] = "charge" /\ UNCHANGED <<refills, begun, faults>>
  BY OverIs DEF Charge, FuelInv
<1>2. CASE Principal[c] \notin Metered
  <2>1. UNCHANGED fuel
    BY <1>2 DEF Charge
  <2> QED
    BY <1>1, <1>2, <2>1, FuelMove DEF FuelInv
<1>3. ASSUME NEW q \in Metered, q = Principal[c] PROVE FuelInv'
  <2> DEFINE h == Cardinality(HeldBy(q))  f == Cardinality(FlyingBy(q))
             hh == Cardinality(HeldBy(q)')  ff == Cardinality(FlyingBy(q)')
             m == Cardinality(Callers(q))
  <2>1. PICK cost \in {1, 3, 5} :
           fuel' = [fuel EXCEPT ![q] = IF fuel[q] > cost THEN fuel[q] - cost ELSE 0]
    <3>1. StageCost(verdict[c][2]) \in {1, 3, 5}
      BY DEF StageCost
    <3> QED
      BY <1>3, <3>1 DEF Charge
  <2>2. /\ fuel[q] \in 0..Capacity /\ refills[q] \in Nat /\ faults \in Nat /\ begun[q] \in Nat
        /\ h \in Nat /\ f \in Nat /\ m \in Nat /\ f <= m /\ Capacity \in Nat
        /\ Spent(q) \in Nat /\ m * Spent(q) \in Int
    BY FuelType, CallersFinite
  <2>3. fuel' \in [Metered -> 0..Capacity] /\ \A r \in Metered : r # q => fuel'[r] = fuel[r]
    BY <2>1, <2>2 DEF FuelInv
  <2>4. fuel'[q] = IF fuel[q] > cost THEN fuel[q] - cost ELSE 0
    BY <2>1 DEF FuelInv
  <2>5. ~Held(c)' /\ ~Flying(c)' /\ Held(c) /\ Flying(c)
    BY <1>1 DEF Held, Flying
  <2>6. hh \in Nat /\ ff \in Nat /\ hh + 1 = h /\ ff + 1 = f
    BY <1>1, <1>3, <2>2, <2>5, AccountsIs DEF FuelInv
  <2>7. begun[q] + (IF fuel[q] = 0 THEN f ELSE 0) <= m * Spent(q) + h + faults
    BY DEF FuelInv, PaidFor
  <2>8. begun[q] + (IF fuel'[q] = 0 THEN ff ELSE 0) <= m * Spent(q)' + hh + faults
    <3>1. CASE fuel[q] = 0
      <4>1. fuel'[q] = 0
        BY <2>4, <3>1
      <4>2. Spent(q)' = Spent(q)
        BY <1>1, <3>1, <4>1 DEF Spent
      <4> QED
        BY <2>2, <2>6, <2>7, <3>1, <4>1, <4>2
    <3>2. CASE fuel[q] # 0
      <4>1. Spent(q)' \in Int /\ Spent(q) + 1 <= Spent(q)'
        BY <1>1, <2>2, <2>4, <3>2 DEF Spent
      <4>2. m * Spent(q)' \in Int /\ m * Spent(q) + m <= m * Spent(q)'
        BY <2>2, <4>1, OneMoreEach
      <4>3. m >= 1
        BY <2>2, <2>6
      <4> DEFINE x == m * Spent(q)  y == m * Spent(q)'
      <4>4. begun[q] <= x + h + faults
        BY <2>2, <2>7, <3>2
      <4>5. x \in Int /\ y \in Int /\ x + m <= y
        BY <2>2, <4>2
      <4> HIDE DEF x, y
      <4>6. begun[q] + ff <= y + hh + faults
        BY <2>2, <2>6, <4>4, <4>5
      <4>7. begun[q] <= y + hh + faults
        BY <2>2, <2>6, <4>5, <4>6
      <4> QED
        BY <2>2, <4>6, <4>7 DEF y
    <3> QED
      BY <3>1, <3>2
  <2>9. PaidFor(q)'
    BY <1>1, <2>8 DEF PaidFor, Callers
  <2> QED
    BY <1>1, <1>3, <2>3, <2>9, FuelMove DEF FuelInv
<1> QED
  BY <1>2, <1>3

LEMMA FuelRefill ==
  ASSUME FuelInv, Shape', NEW r \in Metered, Refill(r)
  PROVE  FuelInv'
<1>1. /\ UNCHANGED <<pc, verdict, begun, faults>> /\ fuel[r] < Capacity
      /\ fuel' = [fuel EXCEPT ![r] = fuel[r] + 1] /\ refills' = [refills EXCEPT ![r] = refills[r] + 1]
  BY DEF Refill, request
<1>2. \A q : HeldBy(q)' = HeldBy(q) /\ FlyingBy(q)' = FlyingBy(q)
  BY <1>1 DEF HeldBy, FlyingBy, Callers, Flying, Held
<1>3. Capacity \in Nat /\ fuel[r] \in 0..Capacity
  BY FuelType
<1>4. fuel' \in [Metered -> 0..Capacity] /\ refills' \in [Metered -> Nat]
  BY <1>1, <1>3 DEF FuelInv
<1>5. ASSUME NEW q \in Metered PROVE PaidFor(q)'
  <2> DEFINE h == Cardinality(HeldBy(q))  f == Cardinality(FlyingBy(q))
             n == Cardinality(Callers(q)) * Spent(q)
  <2>1. /\ fuel[q] \in 0..Capacity /\ refills[q] \in Nat /\ faults \in Nat /\ n \in Int
        /\ h \in Nat /\ f \in Nat /\ begun[q] \in Nat /\ Capacity \in Nat
    BY FuelType, CallersFinite
  <2>2. fuel'[q] = 0 => fuel[q] = 0
    BY <1>1, <1>3, <2>1 DEF FuelInv
  <2>3. Spent(q)' = Spent(q)
    BY <1>1, <2>1 DEF FuelInv, Spent
  <2>4. begun[q] + (IF fuel[q] = 0 THEN f ELSE 0) <= n + h + faults
    BY DEF FuelInv, PaidFor
  <2>5. begun[q] + (IF fuel'[q] = 0 THEN f ELSE 0) <= n + h + faults
    BY <2>1, <2>2, <2>4
  <2> QED
    BY <1>1, <1>2, <2>3, <2>5 DEF PaidFor, Callers
<1> QED
  BY <1>1, <1>4, <1>5 DEF FuelInv

LEMMA VerdictStage ==
  ASSUME NEW c \in Client
  PROVE  Verdict(c)[2] # "none"
BY DEF Verdict

LEMMA FuelInit == Init => FuelInv
<1> SUFFICES ASSUME Init PROVE FuelInv
  OBVIOUS
<1>1. Shape
  BY ShapeInit
<1>2. Capacity \in Nat
  BY GateAssumption
<1>3. /\ fuel = [q \in Metered |-> Capacity] /\ refills = [q \in Metered |-> 0] /\ faults = 0
      /\ begun = [q \in Agents \cup Metered \cup {"human"} |-> 0]
  BY DEF Init
<1>4. /\ fuel \in [Metered -> 0..Capacity] /\ refills \in [Metered -> Nat] /\ faults \in Nat
      /\ begun \in [Agents \cup Metered \cup {"human"} -> Nat]
  BY <1>2, <1>3
<1>5. \A c \in Client : ~Held(c) /\ ~Flying(c)
  BY DEF Init, Held, Flying
<1>6. \A q : HeldBy(q) = {} /\ FlyingBy(q) = {}
  BY <1>5 DEF HeldBy, FlyingBy, Callers
<1>7. ASSUME NEW q \in Metered PROVE PaidFor(q)
  <2>1. Spent(q) = 0 /\ begun[q] = 0 /\ Cardinality(Callers(q)) \in Nat
    BY <1>2, <1>3, CallersFinite DEF Spent
  <2>2. Cardinality(Callers(q)) * Spent(q) = 0
    BY <2>1
  <2> QED
    <3>1. Cardinality(HeldBy(q)) = 0 /\ Cardinality(FlyingBy(q)) = 0
      BY <1>6, FS_EmptySet
    <3> QED
      BY <1>3, <2>1, <2>2, <3>1 DEF PaidFor
<1> QED
  BY <1>1, <1>4, <1>7 DEF FuelInv

\* COMMIT keeps the permit until the charge, or a fault ends the request.
LEMMA FuelCommitted ==
  ASSUME FuelInv, Shape', NEW c \in Client, pc[c] = "txn", Committed(c),
         UNCHANGED <<fuel, refills, begun, count>>
  PROVE  FuelInv'
<1>1. CASE Decide(c, "charge")
  <2>1. Alone(c) /\ pc'[c] = "charge" /\ UNCHANGED faults
    BY <1>1, DecideIs DEF FuelInv, Decide
  <2>2. Held(c) /\ Held(c)' /\ Flying(c)
    BY <2>1 DEF Held, Flying
  <2> QED
    BY <2>1, <2>2, FuelKeeps
<1>2. CASE Over(c) /\ faults' = faults + 1
  <2>1. Alone(c) /\ pc'[c] = "idle"
    BY <1>2, OverIs DEF FuelInv
  <2> QED
    BY <1>2, <2>1, FuelFault
<1> QED
  BY <1>1, <1>2 DEF Committed

LEMMA FuelStep == ASSUME FuelInv, [Next]_vars PROVE FuelInv'
<1>1. Shape /\ Shape'
  BY ShapeInv DEF FuelInv
<1>2. ASSUME NEW c \in Client, Submit(c) PROVE FuelInv'
  <2>1. Alone(c) /\ UNCHANGED <<fuel, refills, begun, faults>> /\ pc[c] = "idle"
    BY <1>1, <1>2, RequestIs DEF Request, Submit, books
  <2>2. CASE Principal[c] \in Metered /\ fuel[Principal[c]] < 1
    <3>1. pc'[c] = "refuse" /\ verdict'[c] = <<"budget-exhausted", "none">>
      BY <1>1, <1>2, <2>2 DEF Submit, Shape
    <3>2. ~Held(c) /\ ~Held(c)' /\ ~Flying(c)'
      BY <2>1, <3>1 DEF Held, Flying
    <3> QED
      BY <1>1, <2>1, <3>2, FuelKeeps
  <2>3. CASE ~(Principal[c] \in Metered /\ fuel[Principal[c]] < 1)
    <3>1. pc'[c] = "gate"
      BY <1>1, <1>2, <2>3 DEF Submit, Shape
    <3>2. ~Held(c) /\ ~Held(c)'
      BY <2>1, <3>1 DEF Held
    <3>3. Principal[c] \in Metered => fuel[Principal[c]] >= 1
      BY <2>3, FuelType
    <3> QED
      BY <1>1, <2>1, <3>2, <3>3, FuelKeeps
  <2> QED
    BY <2>2, <2>3
<1>3. ASSUME NEW c \in Client, EnterGate(c) PROVE FuelInv'
  <2>1. Alone(c) /\ UNCHANGED <<fuel, refills, faults>> /\ pc[c] = "gate"
    BY <1>1, <1>3, RequestIs DEF Request, EnterGate, books
  <2>2. CASE permits < Slots
    BY <1>1, <1>3, <2>1, <2>2, FuelEnter DEF EnterGate, Shape
  <2>3. CASE ~(permits < Slots)
    <3>1. pc'[c] = "refuse" /\ verdict'[c] = <<"busy", "none">> /\ UNCHANGED begun
      BY <1>1, <1>3, <2>3 DEF EnterGate, Shape
    <3>2. ~Held(c) /\ ~Held(c)' /\ ~Flying(c)'
      BY <2>1, <3>1 DEF Held, Flying
    <3> QED
      BY <1>1, <2>1, <3>1, <3>2, FuelKeeps
  <2> QED
    BY <2>2, <2>3
<1>4. ASSUME NEW c \in Client, Admit(c) \/ AdmitNoop(c) PROVE FuelInv'
  BY <1>1, <1>4, FuelCommitted DEF Admit, AdmitNoop, books
<1>5. ASSUME NEW c \in Client, Rehearse(c) PROVE FuelInv'
  <2>1. /\ Alone(c) /\ pc[c] = "txn" /\ pc'[c] = "charge"
        /\ UNCHANGED <<fuel, refills, begun, faults>>
    BY <1>1, <1>5, DecideIs DEF Rehearse, Decide, books
  <2>2. Held(c) /\ Held(c)' /\ Flying(c)
    BY <2>1 DEF Held, Flying
  <2> QED
    BY <1>1, <2>1, <2>2, FuelKeeps
<1>6. ASSUME NEW c \in Client, Reject(c) PROVE FuelInv'
  <2>1. /\ Alone(c) /\ pc[c] = "txn" /\ pc'[c] = "refuse" /\ verdict'[c][2] # "none"
        /\ UNCHANGED <<fuel, refills, begun, faults>>
    BY <1>1, <1>6, DecideIs, VerdictStage DEF Reject, Decide, books
  <2>2. Held(c) /\ Held(c)' /\ Flying(c)
    BY <2>1 DEF Held, Flying
  <2> QED
    BY <1>1, <2>1, <2>2, FuelKeeps
<1>7. ASSUME NEW c \in Client, Retry(c) PROVE FuelInv'
  <2>1. Alone(c) /\ pc[c] = "txn" /\ UNCHANGED <<fuel, refills, begun, faults>>
    BY <1>1, <1>7, RequestIs DEF Request, Retry, books
  <2>2. \/ pc'[c] = "refuse" /\ verdict'[c] = <<"retry-exhausted", "serialize">>
        \/ pc'[c] = "txn"
    BY <1>1, <1>7 DEF Retry, Shape
  <2>3. Held(c) /\ Held(c)' /\ Flying(c)
    BY <2>1, <2>2 DEF Held, Flying
  <2> QED
    BY <1>1, <2>1, <2>3, FuelKeeps
<1>8. ASSUME NEW c \in Client, Fail(c) PROVE FuelInv'
  BY <1>1, <1>8, OverIs, FuelFault DEF Fail, books
<1>9. ASSUME NEW c \in Client, WriteRefusal(c) PROVE FuelInv'
  <2>1. pc[c] = "refuse" /\ UNCHANGED <<fuel, refills, begun, faults, count>>
    BY <1>9 DEF WriteRefusal
  <2>2. CASE Held(c)
    <3>1. pc' = [pc EXCEPT ![c] = "charge"] /\ UNCHANGED request
      BY <1>9, <2>2 DEF WriteRefusal
    <3>2. Alone(c) /\ pc'[c] = "charge"
      BY <1>1, <2>1, <3>1 DEF Shape, Alone, request
    <3>3. Held(c)' /\ Flying(c)
      BY <2>2, <3>2 DEF Held, Flying
    <3> QED
      BY <1>1, <2>1, <2>2, <3>2, <3>3, FuelKeeps
  <2>3. CASE ~Held(c)
    <3>1. Alone(c) /\ pc'[c] = "idle"
      BY <1>1, <1>9, <2>1, <2>3, OverIs DEF WriteRefusal
    <3>2. ~Held(c)' /\ ~Flying(c)'
      BY <3>1 DEF Held, Flying
    <3> QED
      BY <1>1, <2>1, <2>3, <3>1, <3>2, FuelKeeps
  <2> QED
    BY <2>2, <2>3
<1>10. ASSUME NEW c \in Client, Charge(c) PROVE FuelInv'
  BY <1>1, <1>10, FuelCharge
<1>11. ASSUME NEW q \in Metered, Refill(q) PROVE FuelInv'
  BY <1>1, <1>11, FuelRefill
<1>12. ASSUME UNCHANGED <<fuel, refills, pc, verdict, begun, faults>> PROVE FuelInv'
  <2>1. \A q : HeldBy(q)' = HeldBy(q) /\ FlyingBy(q)' = FlyingBy(q)
    BY <1>12 DEF HeldBy, FlyingBy, Callers, Flying, Held
  <2> QED
    BY <1>1, <1>12, <2>1 DEF FuelInv, PaidFor, Spent, Callers
<1>13. ASSUME NEW t \in Token, Mint(t) \/ Expire(t) PROVE FuelInv'
  BY <1>12, <1>13 DEF Mint, Expire, books, request
<1>14. CASE UNCHANGED vars
  BY <1>12, <1>14 DEF vars, books, request
<1> QED
  BY <1>2, <1>3, <1>4, <1>5, <1>6, <1>7, <1>8, <1>9, <1>10, <1>11, <1>13, <1>14 DEF Next, Request

\* The bucket is read before BEGIN and charged at the end, so a principal's clients can
\* overdraw it together, but by no more than one pipeline each for every unit it held.
THEOREM FuelBounds == Spec => []FuelBoundsRuns
<1>1. ASSUME FuelInv PROVE FuelBoundsRuns
  <2> SUFFICES ASSUME NEW q \in Metered
               PROVE  begun[q] <= Cardinality(Callers(q)) * (Capacity + refills[q]) + faults
    BY DEF FuelBoundsRuns, Callers
  <2> DEFINE h == Cardinality(HeldBy(q))  f == Cardinality(FlyingBy(q))  m == Cardinality(Callers(q))
             all == Capacity + refills[q]  x == m * Spent(q)  y == m * all
  <2>1. /\ fuel[q] \in 0..Capacity /\ refills[q] \in Nat /\ begun[q] \in Nat /\ faults \in Nat
        /\ Capacity \in Nat /\ Spent(q) \in Nat /\ x \in Int
        /\ h \in Nat /\ f \in Nat /\ m \in Nat /\ h <= f /\ f <= m
    BY <1>1, FuelType, CallersFinite
  <2>2. begun[q] + (IF fuel[q] = 0 THEN f ELSE 0) <= x + h + faults
    BY <1>1 DEF FuelInv, PaidFor
  <2>3. CASE fuel[q] = 0
    <3>1. Spent(q) = all
      BY <2>1, <2>3 DEF Spent
    <3> HIDE DEF h, f, x
    <3>2. begun[q] <= x + faults
      BY <2>1, <2>2, <2>3
    <3> QED
      BY <3>1, <3>2 DEF x
  <2>4. CASE fuel[q] # 0
    <3>1. all \in Int /\ Spent(q) + 1 <= all
      BY <2>1, <2>4 DEF Spent
    <3>2. y \in Int /\ x + m <= y
      BY <2>1, <3>1, OneMoreEach
    <3> HIDE DEF h, f, m, x, y
    <3>3. begun[q] <= x + h + faults
      BY <2>1, <2>2, <2>4
    <3>4. begun[q] <= y + faults
      BY <2>1, <3>2, <3>3
    <3> QED
      BY <3>4 DEF y, m
  <2> QED
    BY <2>3, <2>4
<1> QED
  BY FuelInit, FuelStep, <1>1, PTL DEF Spec

----------------------------------------------------------------------------
(* No permit leaks *)

Holders == {c \in Client : Held(c)}

PermitInv == Shape /\ permits \in Nat /\ permits = Cardinality(Holders) /\ permits <= Slots

LEMMA HoldersIs ==
  ASSUME PermitInv, NEW c \in Client, Alone(c)
  PROVE  /\ Cardinality(Holders') \in Nat
         /\ Cardinality(Holders') + (IF Held(c) THEN 1 ELSE 0) = permits + (IF Held(c)' THEN 1 ELSE 0)
<1>1. \A d \in Client \ {c} : Held(d)' <=> Held(d)
  BY DEF Alone, Held
<1>2. Holders \ {c} = Holders' \ {c}
  BY <1>1 DEF Holders
<1>3. (c \in Holders <=> Held(c)) /\ (c \in Holders' <=> Held(c)')
  BY DEF Holders
<1>4. IsFiniteSet(Holders)
  <2>1. IsFiniteSet(Client) /\ Holders \subseteq Client
    BY GateAssumption DEF Holders
  <2> QED
    BY <2>1, FS_Subset
<1>5. /\ Cardinality(Holders') \in Nat
      /\ Cardinality(Holders') + (IF c \in Holders THEN 1 ELSE 0)
           = Cardinality(Holders) + (IF c \in Holders' THEN 1 ELSE 0)
  BY <1>2, <1>4, CountMove
<1> QED
  BY <1>3, <1>5 DEF PermitInv

LEMMA PermitKeeps ==
  ASSUME PermitInv, Shape', NEW c \in Client, Alone(c), UNCHANGED permits, Held(c)' <=> Held(c)
  PROVE  PermitInv'
BY HoldersIs DEF PermitInv

LEMMA PermitReleased ==
  ASSUME PermitInv, Shape', NEW c \in Client, Alone(c), permits' = permits - 1, Held(c), ~Held(c)'
  PROVE  PermitInv'
<1>1. Slots \in Nat
  BY GateAssumption
<1>2. Cardinality(Holders') \in Nat /\ Cardinality(Holders') + 1 = permits
  BY HoldersIs DEF PermitInv
<1> QED
  BY <1>1, <1>2 DEF PermitInv

LEMMA PermitCommitted ==
  ASSUME PermitInv, Shape', NEW c \in Client, pc[c] = "txn", Committed(c), UNCHANGED count
  PROVE  PermitInv'
<1>1. CASE Decide(c, "charge")
  <2>1. Alone(c) /\ pc'[c] = "charge" /\ UNCHANGED permits
    BY <1>1, DecideIs DEF PermitInv, Decide
  <2> QED
    BY <2>1, PermitKeeps DEF Held
<1>2. CASE Over(c) /\ permits' = permits - 1
  <2>1. Alone(c) /\ pc'[c] = "idle"
    BY <1>2, OverIs DEF PermitInv
  <2> QED
    BY <1>2, <2>1, PermitReleased DEF Held
<1> QED
  BY <1>1, <1>2 DEF Committed

LEMMA PermitInit == Init => PermitInv
<1> SUFFICES ASSUME Init PROVE PermitInv
  OBVIOUS
<1>1. Shape /\ permits = 0
  BY ShapeInit DEF Init
<1>2. Holders = {}
  BY DEF Init, Holders, Held
<1>3. Slots \in Nat
  BY GateAssumption
<1> QED
  BY <1>1, <1>2, <1>3, FS_EmptySet DEF PermitInv

LEMMA PermitStep == ASSUME PermitInv, [Next]_vars PROVE PermitInv'
<1>1. Shape /\ Shape'
  BY ShapeInv DEF PermitInv
<1>2. ASSUME NEW c \in Client, Submit(c) PROVE PermitInv'
  <2>1. Alone(c) /\ UNCHANGED permits /\ pc[c] = "idle"
    BY <1>1, <1>2, RequestIs DEF Request, Submit
  <2>2. \/ pc'[c] = "refuse" /\ verdict'[c] = <<"budget-exhausted", "none">>
        \/ pc'[c] = "gate"
    BY <1>1, <1>2 DEF Submit, Shape
  <2> QED
    BY <1>1, <2>1, <2>2, PermitKeeps DEF Held
<1>3. ASSUME NEW c \in Client, EnterGate(c) PROVE PermitInv'
  <2>1. Alone(c) /\ pc[c] = "gate"
    BY <1>1, <1>3, RequestIs DEF Request, EnterGate
  <2>2. CASE permits < Slots
    <3>1. permits' = permits + 1 /\ pc'[c] = "txn"
      BY <1>1, <1>3, <2>2 DEF EnterGate, Shape
    <3>2. ~Held(c) /\ Held(c)'
      BY <2>1, <3>1 DEF Held
    <3>3. Cardinality(Holders') = permits + 1 /\ Slots \in Nat
      BY <2>1, <3>2, HoldersIs, GateAssumption DEF PermitInv
    <3> QED
      BY <1>1, <2>2, <3>1, <3>3 DEF PermitInv
  <2>3. CASE ~(permits < Slots)
    <3>1. pc'[c] = "refuse" /\ verdict'[c] = <<"busy", "none">> /\ UNCHANGED permits
      BY <1>1, <1>3, <2>3 DEF EnterGate, Shape
    <3> QED
      BY <1>1, <2>1, <3>1, PermitKeeps DEF Held
  <2> QED
    BY <2>2, <2>3
<1>4. ASSUME NEW c \in Client, Admit(c) \/ AdmitNoop(c) PROVE PermitInv'
  BY <1>1, <1>4, PermitCommitted DEF Admit, AdmitNoop
<1>5. ASSUME NEW c \in Client, Rehearse(c) PROVE PermitInv'
  <2>1. Alone(c) /\ pc[c] = "txn" /\ pc'[c] = "charge" /\ UNCHANGED permits
    BY <1>1, <1>5, DecideIs DEF Rehearse, Decide
  <2> QED
    BY <1>1, <2>1, PermitKeeps DEF Held
<1>6. ASSUME NEW c \in Client, Reject(c) PROVE PermitInv'
  <2>1. /\ Alone(c) /\ pc[c] = "txn" /\ pc'[c] = "refuse" /\ verdict'[c][2] # "none"
        /\ UNCHANGED permits
    BY <1>1, <1>6, DecideIs, VerdictStage DEF Reject, Decide
  <2> QED
    BY <1>1, <2>1, PermitKeeps DEF Held
<1>7. ASSUME NEW c \in Client, Retry(c) PROVE PermitInv'
  <2>1. Alone(c) /\ pc[c] = "txn" /\ UNCHANGED permits
    BY <1>1, <1>7, RequestIs DEF Request, Retry
  <2>2. \/ pc'[c] = "refuse" /\ verdict'[c] = <<"retry-exhausted", "serialize">>
        \/ pc'[c] = "txn"
    BY <1>1, <1>7 DEF Retry, Shape
  <2> QED
    BY <1>1, <2>1, <2>2, PermitKeeps DEF Held
<1>8. ASSUME NEW c \in Client, Fail(c) PROVE PermitInv'
  <2>1. Alone(c) /\ pc'[c] = "idle" /\ ~Held(c)'
    BY <1>1, <1>8, OverIs DEF Fail, Held
  <2>2. CASE Held(c)
    BY <1>1, <1>8, <2>1, <2>2, PermitReleased DEF Fail
  <2>3. CASE ~Held(c)
    BY <1>1, <1>8, <2>1, <2>3, PermitKeeps DEF Fail
  <2> QED
    BY <2>2, <2>3
<1>9. ASSUME NEW c \in Client, WriteRefusal(c) PROVE PermitInv'
  <2>1. pc[c] = "refuse" /\ UNCHANGED <<permits, count>>
    BY <1>9 DEF WriteRefusal
  <2>2. CASE Held(c)
    <3>1. pc' = [pc EXCEPT ![c] = "charge"] /\ UNCHANGED request
      BY <1>9, <2>2 DEF WriteRefusal
    <3>2. Alone(c) /\ pc'[c] = "charge" /\ Held(c)'
      BY <1>1, <2>1, <3>1 DEF Shape, Alone, request, Held
    <3> QED
      BY <1>1, <2>1, <2>2, <3>2, PermitKeeps
  <2>3. CASE ~Held(c)
    <3>1. Alone(c) /\ pc'[c] = "idle" /\ ~Held(c)'
      BY <1>1, <1>9, <2>1, <2>3, OverIs DEF WriteRefusal, Held
    <3> QED
      BY <1>1, <2>1, <2>3, <3>1, PermitKeeps
  <2> QED
    BY <2>2, <2>3
<1>10. ASSUME NEW c \in Client, Charge(c) PROVE PermitInv'
  <2>1. Alone(c) /\ pc[c] = "charge" /\ pc'[c] = "idle" /\ permits' = permits - 1
    BY <1>1, <1>10, OverIs DEF Charge
  <2> QED
    BY <1>1, <2>1, PermitReleased DEF Held
<1>11. ASSUME UNCHANGED <<permits, pc, verdict>> PROVE PermitInv'
  <2>1. Holders' = Holders
    BY <1>11 DEF Holders, Held
  <2> QED
    BY <1>1, <1>11, <2>1 DEF PermitInv
<1>12. ASSUME NEW q \in Metered, Refill(q) PROVE PermitInv'
  BY <1>11, <1>12 DEF Refill, request
<1>13. ASSUME NEW t \in Token, Mint(t) \/ Expire(t) PROVE PermitInv'
  BY <1>11, <1>13 DEF Mint, Expire, request
<1>14. CASE UNCHANGED vars
  BY <1>11, <1>14 DEF vars, request
<1> QED
  BY <1>2, <1>3, <1>4, <1>5, <1>6, <1>7, <1>8, <1>9, <1>10, <1>12, <1>13, <1>14 DEF Next, Request

\* On every way out of the pipeline (commit, refusal, dry run, retries given up, errors) the
\* permit that tryAcquire took is given back once, and only by who took it.
THEOREM PermitsHeld == Spec => []PermitsAreHeld
<1>1. PermitInv => PermitsAreHeld
  BY DEF PermitInv, PermitsAreHeld, Holders
<1> QED
  BY PermitInit, PermitStep, <1>1, PTL DEF Spec
=============================================================================
