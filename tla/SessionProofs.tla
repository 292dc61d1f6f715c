---------------------------- MODULE SessionProofs ----------------------------
(***************************************************************************)
(* Theorems about SessionFanout, for any sets of sessions, handlers and    *)
(* workers and any capacities: the types hold (FanoutTypes); a stale view  *)
(* has its refresh on the way, or the place where it was given up is       *)
(* known, or its session failed (RefreshIsCarried); and a browser with     *)
(* nothing on its way agrees with its session, unless its stream lost a    *)
(* frame or the order of two, a resync of it failed or its session did     *)
(* (QuietClientsAgree).                                                    *)
(*                                                                         *)
(* Each of the three invariants rests on the one before it: TypeOK,        *)
(* CarryInv, StreamInv.  The lemmas named after an action with the ending  *)
(* Types, Carries or Streams are its case of the three inductions.         *)
(***************************************************************************)
EXTENDS SessionFanout, SequenceTheorems, FiniteSetTheorems, TLAPS

(* Types *)

StoreT == version \in Nat /\ row \in [Session -> Rows] /\ notices \in Nat /\ listening \in BOOLEAN
IndexT == /\ matched \subseteq Session /\ queue \in Seq(Session) /\ dirty \subseteq Session
          /\ redrive \in [Session -> Nat]
DriveT == /\ drv \in [Driver -> Jobs \cup {None}]
          /\ \A d \in Driver : /\ At(d, "txn") => drv[d].snap \in Snaps
                               /\ At(d, "push") => drv[d].frame \in Frames
WebT   == /\ ring \in [Session -> Seq(Frames)]
          /\ page \in [Session -> Pages \cup {None}]
          /\ \A s \in Session : page[s] # None /\ page[s].sync = "answered" => page[s].fresh \in Answers
BookT  == /\ posts \in Nat /\ faults \in Nat
          /\ missed \in [Session -> Reasons \cup {None}] /\ astray \in [Session -> Reasons \cup {None}]

LEMMA TypeParts ==
  /\ TypeOK <=> StoreT /\ IndexT /\ DriveT /\ WebT /\ BookT
  /\ TypeOK' <=> StoreT' /\ IndexT' /\ DriveT' /\ WebT' /\ BookT'
BY DEF TypeOK, StoreT, IndexT, DriveT, WebT, BookT

LEMMA Reasoned ==
  ASSUME BookT, NEW s \in Session, NEW why \in Reasons \cup {None}
  PROVE  /\ [missed EXCEPT ![s] = why] \in [Session -> Reasons \cup {None}]
         /\ [astray EXCEPT ![s] = why] \in [Session -> Reasons \cup {None}]
BY DEF BookT

LEMMA JobIs ==
  ASSUME NEW s \in Session, NEW pc \in {"read", "arm"}, NEW at \in Nat,
         NEW msg \in {"input", "submit", "invalidate"}
  PROVE  Job(s, pc, at, msg) \in Jobs /\ Job(s, pc, at, msg) # None
         /\ Job(s, pc, at, msg).pc = pc /\ Job(s, pc, at, msg).s = s
<1>1. Job(s, pc, at, msg) \in Jobs
  BY DEF Job, Jobs
<1> QED
  BY <1>1, FanoutAssumption DEF Job

\* The work of a driver is replaced, or over.
LEMMA DriveOne ==
  ASSUME DriveT, NEW d \in Driver, NEW j \in Jobs \cup {None}, drv' = [drv EXCEPT ![d] = j],
         j # None => /\ j.pc = "txn" => j.snap \in Snaps
                     /\ j.pc = "push" => j.frame \in Frames
  PROVE  DriveT'
<1>1. drv' \in [Driver -> Jobs \cup {None}]
  BY DEF DriveT
<1>2. drv'[d] = j /\ \A x \in Driver : x # d => drv'[x] = drv[x]
  BY DEF DriveT
<1>3. ASSUME NEW x \in Driver
      PROVE  /\ At(x, "txn")' => drv'[x].snap \in Snaps
             /\ At(x, "push")' => drv'[x].frame \in Frames
  <2>1. CASE x = d
    BY <1>2, <2>1 DEF At
  <2>2. CASE x # d
    BY <1>2, <2>2 DEF At, DriveT
  <2> QED
    BY <2>1, <2>2
<1> QED
  BY <1>1, <1>3 DEF DriveT

LEMMA EnqueueTypes ==
  ASSUME IndexT, BookT, NEW s \in Session, Enqueue(s)
  PROVE  /\ queue' \in Seq(Session) /\ dirty' \subseteq Session
         /\ missed' \in [Session -> Reasons \cup {None}]
<1>1. CASE s \in dirty
  BY <1>1 DEF Enqueue, IndexT, BookT
<1>2. CASE s \notin dirty /\ Len(queue) < QueueCap
  <2>1. queue' = Append(queue, s) /\ dirty' = dirty \cup {s} /\ UNCHANGED missed
    BY <1>2 DEF Enqueue
  <2>2. queue' \in Seq(Session)
    BY <2>1, AppendProperties DEF IndexT
  <2> QED
    BY <2>1, <2>2 DEF IndexT, BookT
<1>3. CASE s \notin dirty /\ ~(Len(queue) < QueueCap)
  <2>1. missed' \in {missed, [missed EXCEPT ![s] = "full"]} /\ UNCHANGED <<queue, dirty>>
    BY <1>3 DEF Enqueue
  <2> QED
    BY <2>1 DEF IndexT, BookT, Reasons
<1> QED
  BY <1>1, <1>2, <1>3

\* However a drive ends, the driver is idle again.
LEMMA EndTypes ==
  ASSUME TypeOK, NEW d \in Driver, drv[d] # None, Dropped(d) \/ Failed(d)
  PROVE  /\ DriveT' /\ IndexT' /\ missed' \in [Session -> Reasons \cup {None}]
         /\ drv' = [drv EXCEPT ![d] = None] /\ matched' = matched
<1>1. IndexT /\ DriveT /\ BookT
  BY TypeParts
<1>2. drv[d].s \in Session
  BY <1>1 DEF DriveT, Jobs
<1>3. drv' = [drv EXCEPT ![d] = None] /\ matched' = matched
  BY DEF Dropped, Done, Failed
<1>4. DriveT'
  BY <1>1, <1>3, DriveOne
<1>5. CASE Dropped(d)
  <2>1. /\ redrive' = redrive \/ redrive' = [redrive EXCEPT ![drv[d].s] = 0]
        /\ UNCHANGED <<matched, queue, dirty>>
        /\ missed' = missed \/ missed' = [missed EXCEPT ![drv[d].s] = "overtaken"]
    BY <1>5 DEF Dropped, Done
  <2>2. IndexT'
    BY <1>1, <1>2, <2>1 DEF IndexT
  <2>3. missed' \in [Session -> Reasons \cup {None}]
    BY <1>1, <1>2, <2>1, Reasoned DEF BookT, Reasons
  <2> QED
    BY <1>3, <1>4, <2>2, <2>3
<1>6. CASE Failed(d)
  <2>1. CASE UNCHANGED <<queue, dirty, redrive, missed>>
    BY <1>1, <1>3, <1>4, <2>1 DEF IndexT, BookT
  <2>2. CASE redrive' = [redrive EXCEPT ![drv[d].s] = @ + 1] /\ Enqueue(drv[d].s)
    <3>1. redrive' \in [Session -> Nat]
      BY <1>1, <1>2, <2>2 DEF IndexT
    <3> QED
      BY <1>1, <1>2, <1>3, <1>4, <2>2, <3>1, EnqueueTypes DEF IndexT
  <2>3. CASE /\ missed' = missed \/ missed' = [missed EXCEPT ![drv[d].s] = "given up"]
             /\ UNCHANGED <<queue, dirty, redrive>>
    <3>1. missed' \in [Session -> Reasons \cup {None}]
      BY <1>1, <1>2, <2>3, Reasoned DEF BookT, Reasons
    <3> QED
      BY <1>1, <1>3, <1>4, <2>3, <3>1 DEF IndexT
  <2> QED
    BY <1>6, <2>1, <2>2, <2>3 DEF Failed
<1> QED
  BY <1>5, <1>6

\* What any step of the browser leaves alone.
LEMMA BrowseTypes ==
  ASSUME TypeOK, NEW s \in Session, NEW p \in Pages, page' = [page EXCEPT ![s] = p],
         p.sync = "answered" => p.fresh \in Answers,
         Quiet, faults' \in Nat, astray' \in [Session -> Reasons \cup {None}]
  PROVE  TypeOK'
<1>1. /\ StoreT /\ IndexT /\ DriveT /\ WebT /\ BookT
      /\ UNCHANGED <<version, row, notices, listening, index, drv, ring, posts, missed>>
  BY TypeParts DEF Quiet
<1>2. StoreT' /\ IndexT' /\ DriveT' /\ BookT'
  BY <1>1 DEF StoreT, IndexT, DriveT, BookT, index, At
<1>3. WebT'
  BY <1>1 DEF WebT
<1> QED
  BY <1>2, <1>3, TypeParts

LEMMA Faulty == ASSUME BookT, Fault PROVE faults' \in Nat
BY DEF BookT, Fault

LEMMA AskingIs ==
  ASSUME NEW p \in Pages
  PROVE  /\ Asking(p) \in Pages /\ Asking(p).view = p.view /\ Asking(p).seq = p.seq
         /\ Asking(p).last = p.last /\ Asking(p).conn = p.conn /\ Asking(p).back = p.back
         /\ Asking(p).live = p.live /\ Asking(p).fresh = p.fresh
         /\ Asking(p).sync = IF p.sync = "no" THEN "asked" ELSE p.sync
<1>1. CASE p.sync = "no"
  BY <1>1 DEF Asking, Pages
<1>2. CASE p.sync # "no"
  BY <1>2 DEF Asking, Pages
<1> QED
  BY <1>1, <1>2

LEMMA PastIs ==
  ASSUME NEW q \in Seq(Frames), NEW cursor \in Nat, NEW back \in Past(q, cursor)
  PROVE  /\ back \in Seq(Frames)
         /\ \A j \in DOMAIN back : \E i \in DOMAIN q : back[j] = q[i] /\ q[i].seq > cursor
         /\ (\A i \in DOMAIN q : q[i].seq <= cursor) => back = <<>>
         /\ q # <<>> /\ Last(q).seq > cursor => back # <<>> /\ Last(back) = Last(q)
<1> DEFINE K == {i \in DOMAIN q : q[i].seq > cursor}
           k == Cardinality(K)
<1>1. DOMAIN q = 1..Len(q) /\ Len(q) \in Nat /\ \A i \in 1..Len(q) : q[i] \in Frames
  BY LenProperties, ElementOfSeq
<1>2. IsFiniteSet(K) /\ k \in Nat
  <2>1. IsFiniteSet(1..Len(q))
    BY <1>1, FS_Interval
  <2>2. IsFiniteSet(K)
    BY <1>1, <2>1, FS_Subset
  <2> QED
    BY <2>2, FS_CardinalityType
<1>3. PICK h \in Ascending(K) : back = [j \in DOMAIN h |-> q[h[j]]]
  BY DEF Past
<1>4. h \in [1..k -> K] /\ \A i, j \in 1..k : i < j => h[i] < h[j]
  BY <1>3 DEF Ascending
<1>5. DOMAIN back = 1..k /\ \A j \in 1..k : back[j] = q[h[j]] /\ h[j] \in K
  BY <1>3, <1>4
<1>6. back \in Seq(Frames) /\ Len(back) = k
  <2>1. back \in [1..k -> Frames]
    BY <1>1, <1>3, <1>4
  <2> QED
    BY <1>2, <1>5, <2>1
<1>7. \A j \in DOMAIN back : \E i \in DOMAIN q : back[j] = q[i] /\ q[i].seq > cursor
  BY <1>5
<1>8. ASSUME \A i \in DOMAIN q : q[i].seq <= cursor PROVE back = <<>>
  <2>1. K = {}
    <3>1. \A i \in 1..Len(q) : q[i].seq \in Nat
      BY <1>1 DEF Frames
    <3> QED
      BY <1>1, <1>8, <3>1
  <2>2. k = 0
    BY <2>1, FS_EmptySet
  <2> QED
    BY <1>6, <2>2
<1>9. ASSUME q # <<>>, Last(q).seq > cursor PROVE back # <<>> /\ Last(back) = Last(q)
  <2> DEFINE n == Len(q)
  <2>1. n \in Nat /\ n >= 1 /\ Last(q) = q[n] /\ n \in K
    <3>1. n # 0
      BY <1>1, <1>9
    <3> QED
      BY <1>1, <1>9, <3>1 DEF Last
  <2>2. h \in Injection(1..k, K)
    <3>1. ASSUME NEW i \in 1..k, NEW j \in 1..k, h[i] = h[j] PROVE i = j
      <4>1. h[i] \in Nat /\ h[j] \in Nat
        BY <1>1, <1>4
      <4>2. ~(h[i] < h[j]) /\ ~(h[j] < h[i])
        BY <3>1, <4>1
      <4>3. ~(i < j) /\ ~(j < i)
        BY <1>4, <4>2
      <4> QED
        BY <1>2, <4>3
    <3> QED
      BY <1>4, <3>1 DEF Injection, IsInjective
  <2>3. h \in Surjection(1..k, K)
    <3>1. Cardinality(1..k) = k
      BY <1>2, FS_Interval
    <3> QED
      BY <1>2, <2>2, <3>1, FS_Injection
  <2>4. PICK j \in 1..k : h[j] = n
    BY <2>1, <2>3 DEF Surjection
  <2>5. j = k
    <3>1. ASSUME j # k PROVE FALSE
      <4>1. j < k /\ k \in 1..k
        BY <1>2, <2>4, <3>1
      <4>2. h[j] < h[k] /\ h[k] \in 1..n
        BY <1>1, <1>4, <4>1
      <4> QED
        BY <2>1, <2>4, <4>2
    <3> QED
      BY <3>1
  <2>6. k >= 1 /\ back[k] = q[n]
    BY <1>2, <1>5, <2>4, <2>5
  <2> QED
    BY <1>2, <1>6, <2>1, <2>6 DEF Last
<1> QED
  BY <1>6, <1>7, <1>8, <1>9

LEMMA PageStays ==
  ASSUME TypeOK, NEW s \in Session, page[s] # None
  PROVE  /\ page[s] \in Pages /\ row[s] \in Rows /\ ring[s] \in Seq(Frames)
         /\ page[s].sync = "answered" => page[s].fresh \in Answers
BY DEF TypeOK

LEMMA ShownIs == \A v \in Nat : Shown(v) \in {0, 1}
BY DEF Shown

\* Steps of the browser and of its stream.
LEMMA ConnectTypes ==
  ASSUME TypeOK, NEW s \in Session, Connect(s) PROVE TypeOK'
<1>1. PICK back \in Past(ring[s], page[s].last) :
        LET joined == [page[s] EXCEPT !.conn = TRUE, !.back = back]
            stale  == ring[s] # <<>> /\ page[s].last + 1 < ring[s][1].seq
        IN page' = [page EXCEPT ![s] = IF stale THEN Asking(joined) ELSE joined]
  BY DEF Connect
<1> DEFINE joined == [page[s] EXCEPT !.conn = TRUE, !.back = back]
<1>2. page[s] # None /\ Quiet /\ UNCHANGED <<faults, astray>>
  BY DEF Connect
<1>3. page[s] \in Pages /\ back \in Seq(Frames) /\ (page[s].sync = "answered" => page[s].fresh \in Answers)
  BY <1>1, <1>2, PageStays, PastIs DEF Pages
<1>4. joined \in Pages /\ joined.sync = page[s].sync /\ joined.fresh = page[s].fresh
  BY <1>3 DEF Pages
<1> HIDE DEF joined
<1>5. \E p \in {joined, Asking(joined)} : page' = [page EXCEPT ![s] = p]
  BY <1>1 DEF joined
<1>6. faults' \in Nat /\ astray' \in [Session -> Reasons \cup {None}]
  BY <1>2 DEF TypeOK
<1>7. PICK p \in {joined, Asking(joined)} : page' = [page EXCEPT ![s] = p]
  BY <1>5
<1>8. p \in Pages /\ (p.sync = "answered" => p.fresh \in Answers)
  BY <1>3, <1>4, <1>7, AskingIs
<1> QED
  BY <1>2, <1>6, <1>7, <1>8, BrowseTypes

LEMMA DisconnectTypes ==
  ASSUME TypeOK, NEW s \in Session, Disconnect(s) PROVE TypeOK'
<1> DEFINE p == [page[s] EXCEPT !.conn = FALSE, !.back = <<>>, !.live = <<>>]
<1>1. /\ page[s] # None /\ Quiet /\ UNCHANGED astray /\ Fault
      /\ page' = [page EXCEPT ![s] = p]
  BY DEF Disconnect
<1>2. page[s] \in Pages /\ (page[s].sync = "answered" => page[s].fresh \in Answers)
  BY <1>1, PageStays
<1>3. p \in Pages /\ p.sync = page[s].sync /\ p.fresh = page[s].fresh
  BY <1>2, EmptySeq DEF Pages
<1>4. faults' \in Nat /\ astray' \in [Session -> Reasons \cup {None}]
  BY <1>1, Faulty, TypeParts DEF TypeOK
<1> QED
  BY <1>1, <1>2, <1>3, <1>4, BrowseTypes

\* What a browser is after it took the frame at the head of its stream.
Taken(p) ==
  LET f == Head(p.back \o p.live) IN
  [p EXCEPT !.view = IF f.ops /\ @ # Wiped THEN f.to ELSE @, !.seq = f.seq, !.last = f.seq,
            !.back = IF @ = <<>> THEN @ ELSE Tail(@),
            !.live = IF p.back = <<>> THEN Tail(@) ELSE @]

LEMMA StreamIs ==
  ASSUME NEW q \in Seq(Frames)
  PROVE  /\ Len(q) \in Nat /\ DOMAIN q = 1..Len(q) /\ (q = <<>> <=> Len(q) = 0)
         /\ \A i \in 1..Len(q) : q[i] \in Frames
         /\ q # <<>> => /\ Head(q) = q[1] /\ Last(q) = q[Len(q)] /\ 1 <= Len(q)
                       /\ Tail(q) \in Seq(Frames) /\ Len(Tail(q)) = Len(q) - 1
                       /\ \A i \in 1..(Len(q) - 1) : Tail(q)[i] = q[i + 1]
<1>1. Len(q) \in Nat /\ DOMAIN q = 1..Len(q) /\ \A i \in 1..Len(q) : q[i] \in Frames
  BY LenProperties, ElementOfSeq
<1>2. q = <<>> <=> Len(q) = 0
  BY EmptySeq
<1>3. ASSUME q # <<>>
      PROVE  /\ Head(q) = q[1] /\ Last(q) = q[Len(q)] /\ 1 <= Len(q)
             /\ Tail(q) \in Seq(Frames) /\ Len(Tail(q)) = Len(q) - 1
             /\ \A i \in 1..(Len(q) - 1) : Tail(q)[i] = q[i + 1]
  <2>1. /\ Tail(q) \in Seq(Frames) /\ Len(Tail(q)) = Len(q) - 1
        /\ \A i \in 1..Len(Tail(q)) : Tail(q)[i] = q[i + 1]
    BY <1>3, HeadTailProperties
  <2>2. Head(q) = q[1] /\ Last(q) = q[Len(q)] /\ 1 <= Len(q)
    BY <1>1, <1>2, <1>3 DEF Last
  <2> QED
    BY <2>1, <2>2
<1> QED
  BY <1>1, <1>2, <1>3

LEMMA JoinIs ==
  ASSUME NEW a \in Seq(Frames), NEW b \in Seq(Frames)
  PROVE  /\ a \o b \in Seq(Frames) /\ Len(a \o b) = Len(a) + Len(b)
         /\ \A i \in 1..Len(a) : (a \o b)[i] = a[i]
         /\ \A i \in 1..Len(b) : (a \o b)[Len(a) + i] = b[i]
         /\ a = <<>> => a \o b = b
<1>1. /\ a \o b \in Seq(Frames) /\ Len(a \o b) = Len(a) + Len(b)
      /\ \A i \in 1..Len(a) + Len(b) : (a \o b)[i] = IF i <= Len(a) THEN a[i] ELSE b[i - Len(a)]
  BY ConcatProperties
<1>2. Len(a) \in Nat /\ Len(b) \in Nat
  BY StreamIs
<1>3. a = <<>> => a \o b = b
  BY ConcatEmptySeq
<1>4. ASSUME NEW i \in 1..Len(a) PROVE (a \o b)[i] = a[i]
  BY <1>1, <1>2
<1>5. ASSUME NEW i \in 1..Len(b) PROVE (a \o b)[Len(a) + i] = b[i]
  <2>1. Len(a) + i \in 1..Len(a) + Len(b) /\ ~(Len(a) + i <= Len(a)) /\ Len(a) + i - Len(a) = i
    BY <1>2
  <2> QED
    BY <1>1, <2>1
<1> QED
  BY <1>1, <1>3, <1>4, <1>5

LEMMA TailOfJoin ==
  ASSUME NEW a \in Seq(Frames), NEW b \in Seq(Frames), a # <<>>
  PROVE  Tail(a) \o b = Tail(a \o b) /\ a \o b # <<>> /\ Head(a \o b) = a[1]
<1> DEFINE q == a \o b
           r == Tail(a) \o b
<1>1. /\ Len(a) \in Nat /\ 1 <= Len(a) /\ Len(b) \in Nat
      /\ Tail(a) \in Seq(Frames) /\ Len(Tail(a)) = Len(a) - 1
      /\ \A i \in 1..(Len(a) - 1) : Tail(a)[i] = a[i + 1]
  BY StreamIs
<1>2. /\ q \in Seq(Frames) /\ Len(q) = Len(a) + Len(b)
      /\ \A i \in 1..Len(a) : q[i] = a[i]
      /\ \A i \in 1..Len(b) : q[Len(a) + i] = b[i]
  BY JoinIs
<1>3. /\ r \in Seq(Frames) /\ Len(r) = Len(a) - 1 + Len(b)
      /\ \A i \in 1..(Len(a) - 1) : r[i] = Tail(a)[i]
      /\ \A i \in 1..Len(b) : r[Len(a) - 1 + i] = b[i]
  BY <1>1, JoinIs
<1> HIDE DEF q, r
<1>4. q # <<>> /\ Head(q) = a[1]
  <2>1. q # <<>>
    BY <1>1, <1>2, StreamIs
  <2> QED
    BY <1>1, <1>2, <2>1, StreamIs
<1>5. /\ Tail(q) \in Seq(Frames) /\ Len(Tail(q)) = Len(q) - 1
      /\ \A i \in 1..(Len(q) - 1) : Tail(q)[i] = q[i + 1]
  BY <1>2, <1>4, StreamIs
<1>6. ASSUME NEW i \in 1..Len(r) PROVE r[i] = Tail(q)[i]
  <2>1. i \in 1..(Len(q) - 1) /\ i \in Nat
    BY <1>1, <1>2, <1>3
  <2>2. CASE i <= Len(a) - 1
    <3>1. i \in 1..(Len(a) - 1) /\ i + 1 \in 1..Len(a)
      BY <1>1, <2>1, <2>2
    <3> QED
      BY <1>1, <1>2, <1>3, <1>5, <2>1, <3>1
  <2>3. CASE ~(i <= Len(a) - 1)
    <3> DEFINE j == i - (Len(a) - 1)
    <3>1. j \in 1..Len(b) /\ i = Len(a) - 1 + j /\ i + 1 = Len(a) + j
      BY <1>1, <1>2, <2>1, <2>3
    <3> HIDE DEF j
    <3>2. r[i] = b[j]
      BY <1>3, <3>1
    <3>3. q[i + 1] = b[j]
      BY <1>2, <3>1
    <3> QED
      BY <1>5, <2>1, <3>2, <3>3
  <2> QED
    BY <2>2, <2>3
<1>7. Len(r) = Len(Tail(q))
  BY <1>1, <1>2, <1>3, <1>5
<1>8. r = Tail(q)
  BY <1>3, <1>5, <1>6, <1>7, SeqEqual
<1> QED
  BY <1>4, <1>8 DEF q, r

LEMMA PendingIs ==
  ASSUME NEW p \in Pages, p.back \o p.live # <<>>
  PROVE  /\ Head(p.back \o p.live) \in Frames
         /\ \/ \E i \in DOMAIN p.back : Head(p.back \o p.live) = p.back[i]
            \/ \E i \in DOMAIN p.live : Head(p.back \o p.live) = p.live[i]
         /\ Taken(p).back \in Seq(Frames) /\ Taken(p).live \in Seq(Frames)
         /\ Taken(p).back \o Taken(p).live = Tail(p.back \o p.live)
         /\ \A i \in DOMAIN Taken(p).back : \E j \in DOMAIN p.back : Taken(p).back[i] = p.back[j]
         /\ \A i \in DOMAIN Taken(p).live : \E j \in DOMAIN p.live : Taken(p).live[i] = p.live[j]
<1>1. p.back \in Seq(Frames) /\ p.live \in Seq(Frames)
  BY DEF Pages
<1>2. /\ Taken(p).back = (IF p.back = <<>> THEN p.back ELSE Tail(p.back))
      /\ Taken(p).live = (IF p.back = <<>> THEN Tail(p.live) ELSE p.live)
  BY DEF Taken, Pages
<1>3. ASSUME NEW q \in Seq(Frames), q # <<>>
      PROVE  Tail(q) \in Seq(Frames) /\ \A i \in DOMAIN Tail(q) : \E j \in DOMAIN q : Tail(q)[i] = q[j]
  <2>1. /\ Len(q) \in Nat /\ DOMAIN q = 1..Len(q) /\ Tail(q) \in Seq(Frames)
        /\ Len(Tail(q)) = Len(q) - 1 /\ \A i \in 1..(Len(q) - 1) : Tail(q)[i] = q[i + 1]
    BY <1>3, StreamIs
  <2>2. DOMAIN Tail(q) = 1..(Len(q) - 1)
    BY <2>1, StreamIs
  <2>3. \A i \in 1..(Len(q) - 1) : i + 1 \in 1..Len(q)
    BY <2>1
  <2> QED
    BY <2>1, <2>2, <2>3
<1>4. ASSUME NEW q \in Seq(Frames), q # <<>> PROVE Head(q) \in Frames /\ 1 \in DOMAIN q /\ Head(q) = q[1]
  <2>1. /\ Len(q) \in Nat /\ 1 <= Len(q) /\ Head(q) = q[1] /\ DOMAIN q = 1..Len(q)
        /\ \A i \in 1..Len(q) : q[i] \in Frames
    BY <1>4, StreamIs
  <2>2. 1 \in 1..Len(q)
    BY <2>1
  <2> QED
    BY <2>1, <2>2
<1>5. CASE p.back = <<>>
  <2>1. p.back \o p.live = p.live
    BY <1>1, <1>5, JoinIs
  <2>2. Taken(p).back = <<>> /\ Taken(p).live = Tail(p.live)
    BY <1>2, <1>5
  <2>3. Tail(p.live) \in Seq(Frames) /\ p.live # <<>>
    BY <1>1, <1>3, <2>1
  <2>4. Taken(p).back \in Seq(Frames) /\ DOMAIN Taken(p).back = {}
    BY <1>1, <1>5, <2>2, StreamIs
  <2>5. <<>> \o Tail(p.live) = Tail(p.live)
    BY <2>3, ConcatEmptySeq
  <2> QED
    BY <1>1, <1>3, <1>4, <2>1, <2>2, <2>3, <2>4, <2>5
<1>6. CASE p.back # <<>>
  <2>1. Taken(p).back = Tail(p.back) /\ Taken(p).live = p.live
    BY <1>2, <1>6
  <2>2. Tail(p.back) \o p.live = Tail(p.back \o p.live) /\ Head(p.back \o p.live) = p.back[1]
    BY <1>1, <1>6, TailOfJoin
  <2>3. p.back[1] \in Frames /\ 1 \in DOMAIN p.back
    BY <1>1, <1>4, <1>6
  <2>4. /\ Tail(p.back) \in Seq(Frames)
        /\ \A i \in DOMAIN Tail(p.back) : \E j \in DOMAIN p.back : Tail(p.back)[i] = p.back[j]
    BY <1>1, <1>3, <1>6
  <2>5. \A i \in DOMAIN Taken(p).back : \E j \in DOMAIN p.back : Taken(p).back[i] = p.back[j]
    BY <2>1, <2>4
  <2>6. \A i \in DOMAIN Taken(p).live : \E j \in DOMAIN p.live : Taken(p).live[i] = p.live[j]
    BY <2>1
  <2> QED
    BY <1>1, <2>1, <2>2, <2>3, <2>4, <2>5, <2>6
<1> QED
  BY <1>5, <1>6

LEMMA TakenIs ==
  ASSUME NEW p \in Pages, p.back \o p.live # <<>>
  PROVE  LET f == Head(p.back \o p.live) IN
         /\ Taken(p) \in Pages /\ Taken(p).seq = f.seq /\ Taken(p).last = f.seq
         /\ Taken(p).conn = p.conn /\ Taken(p).sync = p.sync /\ Taken(p).fresh = p.fresh
<1> DEFINE f == Head(p.back \o p.live)
<1>1. f \in Frames /\ Taken(p).back \in Seq(Frames) /\ Taken(p).live \in Seq(Frames)
  BY PendingIs
<1> HIDE DEF f
<1>2. /\ Taken(p) = [p EXCEPT !.view = IF f.ops /\ p.view # Wiped THEN f.to ELSE p.view,
                       !.seq = f.seq, !.last = f.seq,
                       !.back = Taken(p).back, !.live = Taken(p).live]
  BY DEF Taken, Pages, f
<1>3. f.seq \in Nat /\ f.to \in {0, 1}
  BY <1>1 DEF Frames
<1>4. (IF f.ops /\ p.view # Wiped THEN f.to ELSE p.view) \in 0 .. 2
  BY <1>3 DEF Pages
<1>5. Taken(p) \in Pages
  BY <1>1, <1>2, <1>3, <1>4 DEF Pages
<1>6. /\ Taken(p).seq = f.seq /\ Taken(p).last = f.seq
      /\ Taken(p).conn = p.conn /\ Taken(p).sync = p.sync /\ Taken(p).fresh = p.fresh
  BY DEF Taken, Pages, f
<1> QED
  BY <1>5, <1>6 DEF f

\* Receive in the words of Taken.
LEMMA ReceiveIs ==
  ASSUME TypeOK, NEW s \in Session, Receive(s)
  PROVE  LET p == page[s]  q == p.back \o p.live  f == Head(q) IN
         /\ p \in Pages /\ q # <<>>
         /\ \E n \in {Taken(p), Asking(Taken(p))} :
              /\ page' = [page EXCEPT ![s] = n]
              /\ (n.sync = "no" => n = Taken(p) /\ Taken(p).view = f.to)
         /\ astray' = [astray EXCEPT ![s] = IF f.seq = row[s].seq /\ ~Pushing(s) /\ Len(q) = 1
                                            THEN None ELSE @]
         /\ Quiet /\ UNCHANGED faults
<1> DEFINE p == page[s]
           q == p.back \o p.live
           f == Head(q)
<1>1. /\ p \in Pages /\ q # <<>> /\ Quiet /\ UNCHANGED faults
      /\ page' = [page EXCEPT ![s] = IF Taken(p).view # f.to THEN Asking(Taken(p)) ELSE Taken(p)]
      /\ astray' = [astray EXCEPT ![s] = IF f.seq = row[s].seq /\ ~Pushing(s) /\ Len(q) = 1
                                         THEN None ELSE @]
  <2>1. p \in Pages
    BY PageStays DEF Receive
  <2> QED
    BY <2>1 DEF Receive, Taken
<1>2. Taken(p) \in Pages
  BY <1>1, TakenIs
<1>3. CASE Taken(p).view # f.to
  <2>1. Asking(Taken(p)).sync # "no"
    BY <1>2, AskingIs
  <2> QED
    BY <1>1, <1>3, <2>1
<1>4. CASE Taken(p).view = f.to
  BY <1>1, <1>4
<1> QED
  BY <1>1, <1>3, <1>4

LEMMA ReceiveTypes ==
  ASSUME TypeOK, NEW s \in Session, Receive(s) PROVE TypeOK'
<1> DEFINE p == page[s]
<1>1. /\ p \in Pages /\ p.back \o p.live # <<>> /\ Quiet /\ UNCHANGED faults
      /\ (p.sync = "answered" => p.fresh \in Answers)
  BY ReceiveIs, PageStays DEF Receive
<1>2. PICK n \in {Taken(p), Asking(Taken(p))} : page' = [page EXCEPT ![s] = n]
  BY ReceiveIs
<1>3. Taken(p) \in Pages /\ Taken(p).sync = p.sync /\ Taken(p).fresh = p.fresh
  BY <1>1, TakenIs
<1> HIDE DEF p
<1>4. n \in Pages /\ (n.sync = "answered" => n.fresh \in Answers)
  BY <1>1, <1>2, <1>3, AskingIs
<1>5. faults' \in Nat
  BY <1>1 DEF TypeOK
<1>6. PICK why \in {None, astray[s]} : astray' = [astray EXCEPT ![s] = why]
  BY ReceiveIs
<1>7. astray' \in [Session -> Reasons \cup {None}]
  BY <1>6 DEF TypeOK
<1> QED
  BY <1>1, <1>2, <1>4, <1>5, <1>7, BrowseTypes

\* What is answered to a resync: the row as it is, or an error.
LEMMA ResyncReadIs ==
  ASSUME TypeOK, NEW s \in Session, ResyncRead(s)
  PROVE  /\ Quiet /\ UNCHANGED astray /\ faults' \in Nat /\ page[s] # None /\ page[s].sync = "asked"
         /\ \E n \in Pages :
              /\ page' = [page EXCEPT ![s] = n]
              /\ n.view = page[s].view /\ n.seq = page[s].seq /\ n.last = page[s].last
              /\ n.conn = page[s].conn /\ n.back = page[s].back /\ n.live = page[s].live
              /\ n.sync = "answered" /\ n.fresh \in Answers
              /\ \/ n.fresh = [view |-> Shown(version), seq |-> row[s].seq]
                 \/ n.fresh.view = Wiped /\ n.fresh.seq = 0
<1> DEFINE good  == [view |-> Shown(version), seq |-> row[s].seq]
           error == [view |-> Wiped, seq |-> 0]
<1>1. page[s] # None /\ page[s].sync = "asked" /\ page[s] \in Pages /\ row[s] \in Rows /\ version \in Nat
  BY PageStays DEF ResyncRead, TypeOK
<1>2. good \in Answers /\ error \in Answers /\ error.view = Wiped /\ error.seq = 0
  <2>1. Shown(version) \in 0 .. 2 /\ row[s].seq \in Nat /\ Wiped \in 0 .. 2
    BY <1>1, ShownIs DEF Rows, Wiped
  <2> QED
    BY <2>1 DEF Answers
<1> HIDE DEF good, error
<1>3. PICK a \in {good, error} : page' = [page EXCEPT ![s] = [@ EXCEPT !.sync = "answered", !.fresh = a]]
  BY DEF ResyncRead, good, error
<1> DEFINE n == [page[s] EXCEPT !.sync = "answered", !.fresh = a]
<1>4. n \in Pages
  BY <1>1, <1>2, <1>3 DEF Pages
<1>5. /\ n.view = page[s].view /\ n.seq = page[s].seq /\ n.last = page[s].last
      /\ n.conn = page[s].conn /\ n.back = page[s].back /\ n.live = page[s].live
      /\ n.sync = "answered" /\ n.fresh = a
  BY <1>1 DEF Pages
<1>6. page' = [page EXCEPT ![s] = n]
  BY <1>3
<1> HIDE DEF n
<1>7. faults' \in Nat
  <2>1. Fault \/ UNCHANGED faults
    BY DEF ResyncRead
  <2> QED
    BY <2>1, TypeParts, Faulty DEF BookT
<1>8. Quiet /\ UNCHANGED astray
  BY DEF ResyncRead
<1>9. n.fresh \in Answers /\ (n.fresh = good \/ (n.fresh.view = Wiped /\ n.fresh.seq = 0))
  BY <1>2, <1>3, <1>5
<1> QED
  BY <1>1, <1>4, <1>5, <1>6, <1>7, <1>8, <1>9 DEF good

LEMMA ResyncReadTypes ==
  ASSUME TypeOK, NEW s \in Session, ResyncRead(s) PROVE TypeOK'
<1>1. PICK n \in Pages : page' = [page EXCEPT ![s] = n] /\ n.fresh \in Answers
  BY ResyncReadIs
<1>2. Quiet /\ faults' \in Nat /\ astray' \in [Session -> Reasons \cup {None}]
  BY ResyncReadIs DEF TypeOK
<1> QED
  BY <1>1, <1>2, BrowseTypes

LEMMA ResyncAdoptIs ==
  ASSUME TypeOK, NEW s \in Session, ResyncAdopt(s)
  PROVE  /\ Quiet /\ UNCHANGED faults /\ page[s] # None /\ page[s].sync = "answered"
         /\ page[s].fresh \in Answers
         /\ \E n \in Pages :
              /\ page' = [page EXCEPT ![s] = n]
              /\ n.view = page[s].fresh.view /\ n.seq = page[s].fresh.seq /\ n.last = page[s].last
              /\ n.conn = page[s].conn /\ n.back = page[s].back /\ n.live = page[s].live
              /\ n.sync = "no"
         /\ astray' = [astray EXCEPT ![s] = IF page[s].fresh.view = Wiped THEN "unsynced"
                                            ELSE IF page[s].fresh.seq < page[s].seq THEN "rewound"
                                            ELSE astray[s]]
<1> DEFINE n == [page[s] EXCEPT !.view = page[s].fresh.view, !.seq = page[s].fresh.seq,
                                !.sync = "no", !.fresh = None]
<1>1. page[s] # None /\ page[s].sync = "answered" /\ page[s] \in Pages /\ page[s].fresh \in Answers
  BY PageStays DEF ResyncAdopt
<1>2. n \in Pages
  BY <1>1 DEF Pages, Answers
<1>3. /\ n.view = page[s].fresh.view /\ n.seq = page[s].fresh.seq /\ n.last = page[s].last
      /\ n.conn = page[s].conn /\ n.back = page[s].back /\ n.live = page[s].live /\ n.sync = "no"
  BY <1>1 DEF Pages
<1>4. page' = [page EXCEPT ![s] = n]
  BY DEF ResyncAdopt
<1> HIDE DEF n
<1> QED
  BY <1>1, <1>2, <1>3, <1>4 DEF ResyncAdopt, TypeOK

LEMMA ResyncAdoptTypes ==
  ASSUME TypeOK, NEW s \in Session, ResyncAdopt(s) PROVE TypeOK'
<1>1. PICK n \in Pages : page' = [page EXCEPT ![s] = n] /\ n.sync = "no"
  BY ResyncAdoptIs
<1>2. PICK why \in {"unsynced", "rewound", astray[s]} : astray' = [astray EXCEPT ![s] = why]
  BY ResyncAdoptIs
<1>3. astray' \in [Session -> Reasons \cup {None}]
  BY <1>2 DEF TypeOK, Reasons
<1>4. Quiet /\ faults' \in Nat
  BY ResyncAdoptIs DEF TypeOK
<1> QED
  BY <1>1, <1>3, <1>4, BrowseTypes

LEMMA ResyncRejectedIs ==
  ASSUME TypeOK, NEW s \in Session, ResyncRejected(s)
  PROVE  /\ Quiet /\ faults' \in Nat /\ page[s] # None
         /\ \E n \in Pages :
              /\ page' = [page EXCEPT ![s] = n]
              /\ n.view = page[s].view /\ n.seq = page[s].seq /\ n.last = page[s].last
              /\ n.conn = page[s].conn /\ n.back = page[s].back /\ n.live = page[s].live
              /\ n.sync = "no"
         /\ astray' = [astray EXCEPT ![s] = "unsynced"]
<1> DEFINE n == [page[s] EXCEPT !.sync = "no", !.fresh = None]
<1>1. page[s] # None /\ page[s] \in Pages
  BY PageStays DEF ResyncRejected
<1>2. n \in Pages
  BY <1>1 DEF Pages
<1>3. /\ n.view = page[s].view /\ n.seq = page[s].seq /\ n.last = page[s].last
      /\ n.conn = page[s].conn /\ n.back = page[s].back /\ n.live = page[s].live /\ n.sync = "no"
  BY <1>1 DEF Pages
<1>4. page' = [page EXCEPT ![s] = n] /\ Fault
  BY DEF ResyncRejected
<1> HIDE DEF n
<1>5. faults' \in Nat
  BY <1>4, TypeParts, Faulty
<1> QED
  BY <1>1, <1>2, <1>3, <1>4, <1>5 DEF ResyncRejected

LEMMA ResyncRejectedTypes ==
  ASSUME TypeOK, NEW s \in Session, ResyncRejected(s) PROVE TypeOK'
<1>1. PICK n \in Pages : page' = [page EXCEPT ![s] = n] /\ n.sync = "no"
  BY ResyncRejectedIs
<1>2. astray' = [astray EXCEPT ![s] = "unsynced"] /\ Quiet /\ faults' \in Nat
  BY ResyncRejectedIs
<1>3. astray' \in [Session -> Reasons \cup {None}]
  BY <1>2 DEF TypeOK, Reasons
<1> QED
  BY <1>1, <1>2, <1>3, BrowseTypes

LEMMA BrowseKeepsTypes ==
  ASSUME TypeOK, NEW s \in Session, Browse(s) PROVE TypeOK'
BY ConnectTypes, DisconnectTypes, ReceiveTypes, ResyncReadTypes, ResyncAdoptTypes,
   ResyncRejectedTypes DEF Browse

\* Mounting, and the end of a session and of the process.
LEMMA RenderTypes ==
  ASSUME TypeOK, NEW s \in Session, Render(s) PROVE TypeOK'
<1>1. row' = [row EXCEPT ![s] = [@ EXCEPT !.status = "mounting", !.snap = version, !.base = version]]
      /\ UNCHANGED <<version, notices, listening, index, drv, ring, page, bounds, missed, astray>>
  BY DEF Render
<1>2. row' \in [Session -> Rows]
  <2>1. [row[s] EXCEPT !.status = "mounting", !.snap = version, !.base = version] \in Rows
    BY ZenonT(90) DEF TypeOK, Rows
  <2> QED
    BY <1>1, <2>1 DEF TypeOK
<1> QED
  BY <1>1, <1>2 DEF TypeOK, At, index, bounds

LEMMA BlankIs ==
  ASSUME TypeOK, NEW s \in Session
  PROVE  Blank(s) \in Pages /\ Blank(s).sync = "no"
<1>1. Shown(row[s].snap) \in {0, 1}
  BY ShownIs DEF TypeOK, Rows
<1> QED
  BY <1>1, EmptySeq DEF Blank, Pages

LEMMA InsertTypes ==
  ASSUME TypeOK, NEW s \in Session, Insert(s) PROVE TypeOK'
<1>1. /\ row' = [row EXCEPT ![s].status = "sleeping"]
      /\ UNCHANGED <<version, notices, listening, index, drv, ring, bounds, astray>>
      /\ page' \in {page, [page EXCEPT ![s] = Blank(s)]}
      /\ missed' \in {missed, [missed EXCEPT ![s] = "mount"]}
  BY DEF Insert
<1>2. row' \in [Session -> Rows]
  <2>1. [row[s] EXCEPT !.status = "sleeping"] \in Rows
    BY DEF TypeOK, Rows
  <2> QED
    BY <1>1, <2>1 DEF TypeOK
<1>3. WebT'
  <2>1. CASE page' = page
    BY <1>1, <2>1 DEF TypeOK, WebT
  <2>2. CASE page' = [page EXCEPT ![s] = Blank(s)]
    BY <1>1, <2>2, BlankIs DEF TypeOK, WebT
  <2> QED
    BY <1>1, <2>1, <2>2
<1>4. missed' \in [Session -> Reasons \cup {None}]
  BY <1>1 DEF TypeOK, Reasons
<1>5. StoreT' /\ IndexT' /\ DriveT'
  BY <1>1, <1>2 DEF TypeOK, StoreT, IndexT, DriveT, At, index
<1>6. BookT'
  BY <1>1, <1>4 DEF TypeOK, BookT, bounds
<1> QED
  BY <1>3, <1>5, <1>6, TypeParts

LEMMA SweepTypes ==
  ASSUME TypeOK, NEW s \in Session, Sweep(s) PROVE TypeOK'
<1>1. /\ row' = [row EXCEPT ![s].status = "gone"] /\ ring' = [ring EXCEPT ![s] = <<>>]
      /\ matched' = matched \ {s} /\ Fault
      /\ UNCHANGED <<version, notices, listening, queue, dirty, redrive, drv, posts, missed, astray>>
      /\ IF page[s] = None THEN page' = page ELSE page' = [page EXCEPT ![s] = [@ EXCEPT !.conn = FALSE]]
  BY DEF Sweep
<1>2. row' \in [Session -> Rows]
  <2>1. [row[s] EXCEPT !.status = "gone"] \in Rows
    BY ZenonT(90) DEF TypeOK, Rows
  <2> QED
    BY <1>1, <2>1 DEF TypeOK
<1>3. WebT'
  <2>1. ring' \in [Session -> Seq(Frames)]
    BY <1>1, EmptySeq DEF TypeOK
  <2>2. CASE page[s] = None
    BY <1>1, <2>1, <2>2 DEF TypeOK, WebT
  <2>3. CASE page[s] # None
    <3> DEFINE n == [page[s] EXCEPT !.conn = FALSE]
    <3>1. page[s] \in Pages /\ (page[s].sync = "answered" => page[s].fresh \in Answers)
      BY <2>3, PageStays
    <3>2. n \in Pages /\ n.sync = page[s].sync /\ n.fresh = page[s].fresh
      BY <3>1 DEF Pages
    <3>3. page' = [page EXCEPT ![s] = n]
      BY <1>1, <2>3
    <3> HIDE DEF n
    <3> QED
      BY <2>1, <3>1, <3>2, <3>3 DEF TypeOK, WebT
  <2> QED
    BY <2>2, <2>3
<1>4. StoreT' /\ IndexT' /\ DriveT'
  BY <1>1, <1>2 DEF TypeOK, StoreT, IndexT, DriveT, At
<1>5. BookT'
  BY <1>1, Faulty, TypeParts DEF BookT
<1> QED
  BY <1>3, <1>4, <1>5, TypeParts

LEMMA MissAllTypes ==
  ASSUME BookT, NEW why \in Reasons, MissAll(why)
  PROVE  missed' \in [Session -> Reasons \cup {None}]
BY DEF BookT, MissAll

LEMMA RestartTypes ==
  ASSUME TypeOK, Restart PROVE TypeOK'
<1>1. StoreT'
  <2>1. /\ row' = [s \in Session |-> IF row[s].status = "mounting" THEN [row[s] EXCEPT !.status = "none"]
                                     ELSE row[s]]
        /\ version' = version /\ notices' = 0 /\ listening' = TRUE
    BY DEF Restart
  <2>2. ASSUME NEW s \in Session PROVE [row[s] EXCEPT !.status = "none"] \in Rows /\ row[s] \in Rows
    BY DEF TypeOK, Rows
  <2> QED
    BY <2>1, <2>2 DEF TypeOK, StoreT
<1>2. IndexT'
  BY EmptySeq DEF Restart, IndexT
<1>3. DriveT'
  <2>1. drv' = [d \in Driver |-> None]
    BY DEF Restart
  <2> QED
    BY <2>1 DEF DriveT, At
<1>4. WebT'
  <2> DEFINE n(s) == [page[s] EXCEPT !.conn = FALSE, !.back = <<>>, !.live = <<>>, !.sync = "no", !.fresh = None]
  <2>1. /\ ring' = [s \in Session |-> <<>>]
        /\ page' = [s \in Session |-> IF page[s] = None THEN None ELSE n(s)]
    BY DEF Restart
  <2>2. ASSUME NEW s \in Session, page[s] # None PROVE n(s) \in Pages /\ n(s).sync = "no"
    BY <2>2, PageStays, EmptySeq DEF Pages
  <2> HIDE DEF n
  <2>3. ring' \in [Session -> Seq(Frames)]
    BY <2>1, EmptySeq
  <2>4. page' \in [Session -> Pages \cup {None}]
    BY <2>1, <2>2
  <2>5. \A s \in Session : page'[s] # None /\ page'[s].sync = "answered" => page'[s].fresh \in Answers
    BY <2>1, <2>2
  <2> QED
    BY <2>3, <2>4, <2>5 DEF WebT
<1>5. BookT'
  <2>1. BookT /\ MissAll("restart") /\ Fault /\ "restart" \in Reasons /\ posts' = posts
    BY TypeParts DEF Restart, Reasons
  <2>2. astray' = [s \in Session |-> IF page[s] # None THEN "restart" ELSE astray[s]]
    BY DEF Restart
  <2>3. missed' \in [Session -> Reasons \cup {None}]
    BY <2>1, MissAllTypes
  <2>4. astray' \in [Session -> Reasons \cup {None}]
    BY <2>1, <2>2 DEF BookT
  <2> QED
    BY <2>1, <2>3, <2>4, Faulty DEF BookT
<1> QED
  BY <1>1, <1>2, <1>3, <1>4, <1>5, TypeParts

\* The listener.
LEMMA ListenTypes ==
  ASSUME TypeOK, Listen PROVE TypeOK'
<1> USE TypeParts
<1>1. CASE Match
  BY <1>1 DEF Match, StoreT, IndexT, DriveT, WebT, BookT, At, bounds
<1>2. CASE MatchFails
  <2>1. BookT'
    <3>1. missed' \in [Session -> Reasons \cup {None}] /\ faults' \in Nat
      BY <1>2, MissAllTypes, Faulty DEF MatchFails, Reasons
    <3> QED
      BY <1>2, <3>1 DEF MatchFails, BookT
  <2> QED
    BY <1>2, <2>1 DEF MatchFails, StoreT, IndexT, DriveT, WebT, At, index
<1>3. CASE ListenEnds
  <2>1. BookT'
    <3>1. missed' \in [Session -> Reasons \cup {None}] /\ faults' \in Nat
      BY <1>3, MissAllTypes, Faulty DEF ListenEnds, Reasons
    <3> QED
      BY <1>3, <3>1 DEF ListenEnds, BookT
  <2> QED
    BY <1>3, <2>1 DEF ListenEnds, StoreT, IndexT, DriveT, WebT, At
<1>4. ASSUME NEW s \in Session, EnqueueNext(s) PROVE TypeOK'
  <2>1. /\ matched' = matched \ {s} /\ Enqueue(s)
        /\ UNCHANGED <<version, row, notices, listening, redrive, drv, ring, page, bounds, astray>>
    BY <1>4 DEF EnqueueNext
  <2>2. /\ queue' \in Seq(Session) /\ dirty' \subseteq Session
        /\ missed' \in [Session -> Reasons \cup {None}]
    BY <2>1, EnqueueTypes
  <2> QED
    BY <2>1, <2>2 DEF StoreT, IndexT, DriveT, WebT, BookT, At, bounds
<1> QED
  BY <1>1, <1>2, <1>3, <1>4 DEF Listen

LEMMA NotifyTypes == ASSUME StoreT, Notify PROVE notices' \in Nat
BY DEF StoreT, Notify

LEMMA WriteElsewhereTypes ==
  ASSUME TypeOK, WriteElsewhere PROVE TypeOK'
BY TypeParts, NotifyTypes DEF WriteElsewhere, StoreT, IndexT, DriveT, WebT, BookT, At, index, bounds

\* Drivers.
LEMMA JobOf ==
  ASSUME TypeOK, NEW d \in Driver, drv[d] # None
  PROVE  drv[d] \in Jobs /\ drv[d].s \in Session
BY DEF TypeOK, Jobs

LEMMA PostTypes ==
  ASSUME TypeOK, NEW h \in Handler, NEW s \in Watched, Post(h, s) PROVE TypeOK'
<1>1. s \in Session /\ h \in Driver
  BY FanoutAssumption DEF Driver
<1>2. page[s] \in Pages /\ posts' = posts + 1
      /\ UNCHANGED <<version, row, notices, listening, index, ring, page, faults, missed, astray>>
  BY <1>1, PageStays DEF Post
<1>3. PICK msg \in {"input", "submit"} : drv' = [drv EXCEPT ![h] = Job(s, "arm", page[s].seq, msg)]
  BY DEF Post
<1>4. /\ Job(s, "arm", page[s].seq, msg) \in Jobs
      /\ Job(s, "arm", page[s].seq, msg).pc = "arm"
  BY <1>1, <1>2, JobIs DEF Pages
<1>5. DriveT'
  BY <1>1, <1>3, <1>4, DriveOne, TypeParts
<1> QED
  BY <1>2, <1>5, TypeParts DEF StoreT, IndexT, WebT, BookT, index

LEMMA PopTypes ==
  ASSUME TypeOK, NEW w \in Worker, Pop(w) PROVE TypeOK'
<1>1. /\ w \in Driver /\ queue # <<>> /\ queue' = Tail(queue) /\ dirty' = dirty \ {Head(queue)}
      /\ drv' = [drv EXCEPT ![w] = Job(Head(queue), "read", 0, "invalidate")]
      /\ UNCHANGED <<version, row, notices, listening, matched, redrive, ring, page, bounds, missed, astray>>
  BY DEF Pop, Driver
<1>2. Head(queue) \in Session /\ Tail(queue) \in Seq(Session)
  BY <1>1, HeadTailProperties DEF TypeOK
<1>3. Job(Head(queue), "read", 0, "invalidate") \in Jobs
      /\ Job(Head(queue), "read", 0, "invalidate").pc = "read"
  BY <1>2, JobIs
<1>4. DriveT'
  BY <1>1, <1>3, DriveOne, TypeParts
<1> QED
  BY <1>1, <1>2, <1>4, TypeParts DEF StoreT, IndexT, WebT, BookT, bounds

LEMMA ReadSeqTypes ==
  ASSUME TypeOK, NEW w \in Worker, ReadSeq(w) PROVE TypeOK'
<1>1. /\ w \in Driver /\ drv[w] # None
      /\ UNCHANGED <<version, row, notices, listening, ring, page, bounds, astray>>
  BY DEF ReadSeq, Driver, At
<1>2. drv[w] \in Jobs /\ drv[w].s \in Session /\ row[drv[w].s] \in Rows
  BY <1>1, JobOf DEF TypeOK
<1>3. DriveT' /\ IndexT' /\ missed' \in [Session -> Reasons \cup {None}]
  <2>1. CASE Mounted(drv[w].s)
    <3> DEFINE j == [drv[w] EXCEPT !.pc = "arm", !.at = row[drv[w].s].seq]
    <3>1. drv' = [drv EXCEPT ![w] = j] /\ UNCHANGED <<index, missed>>
      BY <2>1 DEF ReadSeq
    <3>2. j \in Jobs /\ j.pc = "arm"
      BY <1>2 DEF Jobs, Rows
    <3> HIDE DEF j
    <3>3. DriveT'
      BY <1>1, <3>1, <3>2, DriveOne, TypeParts
    <3> QED
      BY <3>1, <3>3, TypeParts DEF IndexT, BookT, index
  <2>2. CASE ~Mounted(drv[w].s)
    BY <1>1, <2>2, EndTypes DEF ReadSeq
  <2> QED
    BY <2>1, <2>2
<1> QED
  BY <1>1, <1>3, TypeParts DEF StoreT, WebT, BookT, bounds

\* The end of a drive, with nothing else but a row armed or an error counted.
LEMMA AfterDrive ==
  ASSUME TypeOK, DriveT', IndexT', missed' \in [Session -> Reasons \cup {None}],
         row' \in [Session -> Rows], faults' \in Nat,
         UNCHANGED <<version, notices, listening, ring, page, posts, astray>>
  PROVE  TypeOK'
BY TypeParts DEF StoreT, WebT, BookT

LEMMA ArmTypes ==
  ASSUME TypeOK, NEW d \in Driver, Arm(d) PROVE TypeOK'
<1>1. drv[d] # None /\ UNCHANGED <<version, notices, listening, ring, page, bounds, astray>>
  BY DEF Arm, At
<1>2. drv[d] \in Jobs /\ drv[d].s \in Session /\ row[drv[d].s] \in Rows
  BY <1>1, JobOf DEF TypeOK
<1>3. CASE Mounted(drv[d].s) /\ row[drv[d].s].seq = drv[d].at
  <2> DEFINE j == [drv[d] EXCEPT !.pc = "begin"]
             r == [row[drv[d].s] EXCEPT !.status = "ready"]
  <2>1. /\ drv' = [drv EXCEPT ![d] = j] /\ UNCHANGED <<index, missed>>
        /\ row' = [row EXCEPT ![drv[d].s] = r]
    BY <1>3 DEF Arm
  <2>2. j \in Jobs /\ j.pc = "begin" /\ r \in Rows
    BY <1>2 DEF Jobs, Rows
  <2> HIDE DEF j, r
  <2>3. DriveT'
    BY <2>1, <2>2, DriveOne, TypeParts
  <2>4. IndexT' /\ missed' \in [Session -> Reasons \cup {None}] /\ row' \in [Session -> Rows] /\ faults' \in Nat
    BY <1>1, <1>2, <2>1, <2>2 DEF TypeOK, IndexT, index, bounds
  <2> QED
    BY <1>1, <2>3, <2>4, AfterDrive DEF bounds
<1>4. CASE ~(Mounted(drv[d].s) /\ row[drv[d].s].seq = drv[d].at)
  <2>1. Dropped(d) /\ row' = row
    BY <1>4 DEF Arm
  <2>2. row' \in [Session -> Rows] /\ faults' \in Nat
    BY <1>1, <2>1 DEF TypeOK, bounds
  <2> QED
    BY <1>1, <2>1, <2>2, EndTypes, AfterDrive DEF bounds
<1> QED
  BY <1>3, <1>4

LEMMA BeginTypes ==
  ASSUME TypeOK, NEW d \in Driver, Begin(d) PROVE TypeOK'
<1> DEFINE sn == [row |-> row[drv[d].s], version |-> version]
           j  == [drv[d] EXCEPT !.pc = "txn", !.snap = sn]
<1>1. /\ drv[d] # None /\ drv' = [drv EXCEPT ![d] = j]
      /\ UNCHANGED <<version, row, notices, listening, index, ring, page, bounds, missed, astray>>
  BY DEF Begin, At
<1>2. drv[d] \in Jobs /\ drv[d].s \in Session /\ row[drv[d].s] \in Rows /\ version \in Nat
  BY <1>1, JobOf DEF TypeOK
<1>3. sn \in Snaps
  BY <1>2 DEF Snaps
<1> HIDE DEF sn
<1>4. j \in Jobs /\ j.pc = "txn" /\ j.snap \in Snaps
  BY <1>2, <1>3 DEF Jobs
<1> HIDE DEF j
<1>5. DriveT'
  BY <1>1, <1>4, DriveOne, TypeParts
<1>6. IndexT' /\ missed' \in [Session -> Reasons \cup {None}] /\ row' \in [Session -> Rows] /\ faults' \in Nat
  BY <1>1 DEF TypeOK, IndexT, index, bounds
<1> QED
  BY <1>1, <1>5, <1>6, AfterDrive DEF bounds

LEMMA ClaimLostTypes ==
  ASSUME TypeOK, NEW d \in Driver, ClaimLost(d) PROVE TypeOK'
<1>1. drv[d] # None /\ Dropped(d)
      /\ UNCHANGED <<version, row, notices, listening, ring, page, bounds, astray>>
  BY DEF ClaimLost, At
<1>2. row' \in [Session -> Rows] /\ faults' \in Nat
  BY <1>1 DEF TypeOK, bounds
<1> QED
  BY <1>1, <1>2, EndTypes, AfterDrive DEF bounds

LEMMA RetryTypes ==
  ASSUME TypeOK, NEW d \in Driver, Retry(d) PROVE TypeOK'
<1> DEFINE k == drv[d].tries + 1
           j == [drv[d] EXCEPT !.pc = "begin", !.tries = k, !.snap = None]
<1>1. drv[d] # None /\ UNCHANGED <<version, row, notices, listening, ring, page, bounds, astray>>
  BY DEF Retry, At
<1>2. row' \in [Session -> Rows] /\ faults' \in Nat
  BY <1>1 DEF TypeOK, bounds
<1>3. CASE drv' = [drv EXCEPT ![d] = j] /\ UNCHANGED <<index, missed>>
  <2>0. drv[d] \in Jobs
    BY <1>1, JobOf
  <2>1. k \in Nat
    BY <2>0 DEF Jobs
  <2> HIDE DEF k
  <2>2. j \in Jobs /\ j.pc = "begin"
    BY <2>0, <2>1 DEF Jobs
  <2> HIDE DEF j
  <2>3. DriveT'
    BY <1>3, <2>2, DriveOne, TypeParts
  <2>4. IndexT' /\ missed' \in [Session -> Reasons \cup {None}]
    BY <1>3 DEF TypeOK, IndexT, index
  <2> QED
    BY <1>1, <1>2, <2>3, <2>4, AfterDrive DEF bounds
<1>4. CASE Failed(d)
  BY <1>1, <1>2, <1>4, EndTypes, AfterDrive DEF bounds
<1>5. (drv' = [drv EXCEPT ![d] = j] /\ UNCHANGED <<index, missed>>) \/ Failed(d)
  <2>1. CASE drv[d].tries + 1 < MaxTries
    BY <2>1 DEF Retry
  <2>2. CASE ~(drv[d].tries + 1 < MaxTries)
    BY Zenon, <2>2 DEF Retry
  <2> QED
    BY <2>1, <2>2
<1> QED
  BY <1>3, <1>4, <1>5

LEMMA StepFailsTypes ==
  ASSUME TypeOK, NEW d \in Driver, StepFails(d) PROVE TypeOK'
<1>1. drv[d] # None /\ Failed(d) /\ Fault
      /\ UNCHANGED <<version, row, notices, listening, ring, page, posts, astray>>
  BY DEF StepFails
<1>2. row' \in [Session -> Rows] /\ faults' \in Nat
  BY <1>1, Faulty, TypeParts DEF TypeOK
<1> QED
  BY <1>1, <1>2, EndTypes, AfterDrive

LEMMA ApplyIs ==
  ASSUME NEW msg \in {"input", "submit", "invalidate"}, NEW r \in Rows, NEW v \in Nat
  PROVE  LET e == Apply(msg, r, v) IN
         /\ e.r \in Rows /\ e.r.seq = r.seq /\ e.r.status = r.status
         /\ e.v = v \/ (e.v = v + 1 /\ e.notify)
<1>1. r.base + 1 \in Nat /\ v + 1 \in Nat
  BY DEF Rows
<1>2. CASE msg = "input"
  <2> DEFINE n == [r EXCEPT !.draft = TRUE]
  <2>1. Apply(msg, r, v) = [r |-> n, v |-> v, notify |-> FALSE]
    BY <1>2 DEF Apply
  <2>2. n \in Rows /\ n.seq = r.seq /\ n.status = r.status
    BY DEF Rows
  <2> HIDE DEF n
  <2> QED
    BY <2>1, <2>2
<1>3. CASE msg = "submit" /\ r.draft /\ r.base = v
  <2> DEFINE n == [r EXCEPT !.draft = FALSE, !.base = v + 1]
  <2>1. Apply(msg, r, v) = [r |-> n, v |-> v + 1, notify |-> TRUE]
    BY <1>3 DEF Apply
  <2>2. n \in Rows /\ n.seq = r.seq /\ n.status = r.status
    BY <1>1 DEF Rows
  <2> HIDE DEF n
  <2> QED
    BY <2>1, <2>2
<1>4. CASE msg = "submit" /\ r.draft /\ r.base # v
  <2>1. Apply(msg, r, v) = [r |-> [r EXCEPT !.base = v], v |-> v, notify |-> FALSE]
    BY <1>4 DEF Apply
  <2> QED
    BY <2>1 DEF Rows
<1>5. CASE msg = "submit" /\ ~r.draft
  <2>1. Apply(msg, r, v) = [r |-> [r EXCEPT !.base = r.base + 1], v |-> v, notify |-> TRUE]
    BY <1>5 DEF Apply
  <2> QED
    BY <1>1, <2>1 DEF Rows
<1>6. CASE msg = "invalidate"
  <2>1. Apply(msg, r, v) = [r |-> r, v |-> v, notify |-> FALSE]
    BY <1>6 DEF Apply
  <2> QED
    BY <2>1
<1>7. r.draft \in BOOLEAN
  BY DEF Rows
<1> QED
  BY <1>2, <1>3, <1>4, <1>5, <1>6, <1>7

\* What a committed step does to its row, to the data and to the channel.
LEMMA CommitIs ==
  ASSUME TypeOK, NEW d \in Driver, At(d, "txn"), Claims(d), Commit(d)
  PROVE  LET s == drv[d].s  sn == drv[d].snap  v == Effect(d).v IN
         /\ drv[d] \in Jobs /\ s \in Session /\ sn \in Snaps
         /\ row[s] = sn.row /\ row[s].status = "ready" /\ row[s].seq = drv[d].at
         /\ v \in Nat
         /\ \/ v = sn.version /\ version' = version
            \/ v = version + 1 /\ version' = version + 1 /\ (notices' > 0 \/ ~listening)
         /\ notices' \in {notices, notices + 1}
         /\ row' = [row EXCEPT ![s] = row'[s]] /\ row'[s] \in Rows
         /\ row'[s].status = "sleeping" /\ row'[s].seq = row[s].seq + 1 /\ row'[s].snap = v
<1> DEFINE s == drv[d].s
           sn == drv[d].snap
           e == Effect(d)
           r == [e.r EXCEPT !.status = "sleeping", !.seq = @ + 1, !.snap = e.v]
<1>1. drv[d] \in Jobs /\ s \in Session /\ sn \in Snaps /\ version \in Nat /\ notices \in Nat
      /\ row \in [Session -> Rows]
  BY JobOf DEF At, TypeOK
<1>2. sn.row \in Rows /\ sn.version \in Nat /\ drv[d].msg \in {"input", "submit", "invalidate"}
  BY <1>1 DEF Jobs, Snaps
<1>3. row[s] = sn.row /\ row[s].status = "ready" /\ row[s].seq = drv[d].at
  BY DEF Claims, Commit
<1>4. /\ e.r \in Rows /\ e.r.seq = row[s].seq
      /\ e.v = sn.version \/ (e.v = sn.version + 1 /\ e.notify)
  BY <1>2, <1>3, ApplyIs DEF Effect
<1>5. /\ e.v # sn.version => version = sn.version
      /\ version' = IF e.v # sn.version THEN e.v ELSE version
      /\ row' = [row EXCEPT ![s] = r]
      /\ IF e.notify THEN Notify ELSE UNCHANGED notices
  BY DEF Commit, Submitted, Writes
<1> HIDE DEF e, sn
<1>6. e.v \in Nat
  BY <1>2, <1>4
<1>7. r \in Rows /\ r.status = "sleeping" /\ r.seq = row[s].seq + 1 /\ r.snap = e.v
  <2>1. e.r.seq + 1 \in Nat
    BY <1>4 DEF Rows
  <2> QED
    BY <1>4, <1>6, <2>1 DEF Rows
<1> HIDE DEF r
<1>8. row'[s] = r /\ row' = [row EXCEPT ![s] = row'[s]]
  BY <1>1, <1>5
<1>9. notices' \in {notices, notices + 1} /\ (e.notify => notices' > 0 \/ ~listening)
  BY <1>1, <1>5 DEF Notify
<1>10. \/ e.v = sn.version /\ version' = version
       \/ e.v = version + 1 /\ version' = version + 1 /\ (notices' > 0 \/ ~listening)
  BY <1>1, <1>2, <1>4, <1>5, <1>9
<1> QED
  BY <1>1, <1>3, <1>6, <1>7, <1>8, <1>9, <1>10 DEF e, sn

LEMMA CommitTypes ==
  ASSUME TypeOK, NEW d \in Driver, At(d, "txn"), Claims(d), Commit(d), DriveT', faults' \in Nat,
         missed' = Refreshed(d), astray' \in [Session -> Reasons \cup {None}],
         UNCHANGED <<listening, index, ring, page, posts>>
  PROVE  TypeOK'
<1>1. /\ drv[d].s \in Session /\ Effect(d).v \in Nat
      /\ version' \in {version, version + 1} /\ notices' \in {notices, notices + 1}
      /\ row' = [row EXCEPT ![drv[d].s] = row'[drv[d].s]] /\ row'[drv[d].s] \in Rows
  BY CommitIs
<1>2. StoreT'
  <2>1. row' \in [Session -> Rows]
    BY <1>1 DEF TypeOK
  <2>2. version' \in Nat /\ notices' \in Nat
    BY <1>1 DEF TypeOK
  <2> QED
    BY <2>1, <2>2 DEF TypeOK, StoreT
<1>3. missed' \in [Session -> Reasons \cup {None}]
  <2>1. PICK why \in {None, missed[drv[d].s]} : missed' = [missed EXCEPT ![drv[d].s] = why]
    BY DEF Refreshed
  <2> QED
    BY <1>1, <2>1 DEF TypeOK
<1>4. IndexT' /\ WebT' /\ BookT'
  BY <1>3 DEF TypeOK, IndexT, WebT, BookT, index
<1> QED
  BY <1>2, <1>4, TypeParts

LEMMA StepTypes ==
  ASSUME TypeOK, NEW d \in Driver, Step(d) PROVE TypeOK'
<1> DEFINE f == Frame(drv[d].at + 1, row[drv[d].s].snap, Effect(d).v)
           j == [drv[d] EXCEPT !.pc = "push", !.frame = f]
<1>1. /\ At(d, "txn") /\ Claims(d) /\ Commit(d) /\ drv' = [drv EXCEPT ![d] = j] /\ missed' = Refreshed(d)
      /\ UNCHANGED <<listening, index, ring, page, bounds, astray>>
  BY DEF Step
<1>2. drv[d] \in Jobs /\ drv[d].s \in Session /\ Effect(d).v \in Nat /\ row[drv[d].s] \in Rows
  BY <1>1, CommitIs DEF TypeOK
<1>3. f \in Frames
  <2>1. drv[d].at + 1 \in Nat /\ Shown(Effect(d).v) \in {0, 1}
    BY <1>2, ShownIs DEF Jobs
  <2> QED
    BY <2>1 DEF Frame, Frames
<1> HIDE DEF f
<1>4. j \in Jobs /\ j.pc = "push" /\ j.frame \in Frames
  BY <1>2, <1>3 DEF Jobs
<1> HIDE DEF j
<1>5. DriveT'
  BY <1>1, <1>4, DriveOne, TypeParts
<1>6. faults' \in Nat /\ astray' \in [Session -> Reasons \cup {None}]
  BY <1>1 DEF TypeOK, bounds
<1> QED
  BY <1>1, <1>5, <1>6, CommitTypes DEF bounds

LEMMA StepUnansweredTypes ==
  ASSUME TypeOK, NEW d \in Driver, StepUnanswered(d) PROVE TypeOK'
<1>1. /\ At(d, "txn") /\ Claims(d) /\ Commit(d) /\ drv' = [drv EXCEPT ![d] = None] /\ missed' = Refreshed(d)
      /\ UNCHANGED <<listening, index, ring, page, posts>> /\ Fault
      /\ astray' = [astray EXCEPT ![drv[d].s] = "unpushed"]
  BY DEF StepUnanswered
<1>2. drv[d].s \in Session
  BY <1>1, CommitIs
<1>3. DriveT'
  BY <1>1, DriveOne, TypeParts
<1>4. faults' \in Nat /\ astray' \in [Session -> Reasons \cup {None}]
  BY <1>1, <1>2, Faulty, TypeParts, Reasoned DEF Reasons
<1> QED
  BY <1>1, <1>3, <1>4, CommitTypes

LEMMA LastNIs ==
  ASSUME NEW q \in Seq(Frames), q # <<>>, NEW n \in Nat \ {0}
  PROVE  /\ LastN(q, n) \in Seq(Frames) /\ LastN(q, n) # <<>> /\ Last(LastN(q, n)) = Last(q)
         /\ \A i \in DOMAIN LastN(q, n) : \E j \in DOMAIN q : LastN(q, n)[i] = q[j]
<1> DEFINE k == Len(q)
           m == k - n + 1
           t == SubSeq(q, m, k)
<1>1. /\ k \in Nat /\ DOMAIN q = 1..k /\ 1 <= k /\ Last(q) = q[k]
      /\ \A i \in 1..k : q[i] \in Frames
  BY StreamIs
<1> HIDE DEF k
<1>2. CASE k > n
  <2>1. m \in Int /\ 1 <= m /\ m <= k /\ k - m + 1 = n
    BY <1>1, <1>2
  <2> HIDE DEF m
  <2>2. \A i \in m..k : q[i] \in Frames
    BY <1>1, <2>1
  <2>3. /\ t \in Seq(Frames) /\ Len(t) = n /\ \A i \in 1..n : t[i] = q[m + i - 1]
    BY <1>1, <2>1, <2>2, SubSeqProperties
  <2>4. LastN(q, n) = t
    BY <1>2 DEF LastN, k, m
  <2> HIDE DEF t
  <2>5. t # <<>> /\ DOMAIN t = 1..n /\ Last(t) = t[n]
    BY <2>3, StreamIs
  <2>6. t[n] = q[k]
    <3>1. n \in 1..n /\ m + n - 1 = k
      BY <1>1, <2>1
    <3> QED
      BY <2>3, <3>1
  <2>7. \A i \in 1..n : m + i - 1 \in 1..k
    BY <1>1, <2>1
  <2> QED
    BY <1>1, <2>3, <2>4, <2>5, <2>6, <2>7
<1>3. CASE ~(k > n)
  BY <1>3 DEF LastN, k
<1> QED
  BY <1>2, <1>3

LEMMA AppendIs ==
  ASSUME NEW q \in Seq(Frames), NEW f \in Frames
  PROVE  /\ Append(q, f) \in Seq(Frames) /\ Append(q, f) # <<>> /\ Last(Append(q, f)) = f
         /\ \A i \in DOMAIN Append(q, f) : Append(q, f)[i] = f \/ \E j \in DOMAIN q : Append(q, f)[i] = q[j]
<1>1. /\ Append(q, f) \in Seq(Frames) /\ Len(Append(q, f)) = Len(q) + 1
      /\ \A i \in 1..Len(q) : Append(q, f)[i] = q[i]
      /\ Append(q, f)[Len(q) + 1] = f
  BY AppendProperties
<1>2. Len(q) \in Nat /\ DOMAIN q = 1..Len(q)
  BY StreamIs
<1>3. Append(q, f) # <<>> /\ DOMAIN Append(q, f) = 1..(Len(q) + 1)
      /\ Last(Append(q, f)) = Append(q, f)[Len(q) + 1]
  <2> DEFINE t == Append(q, f)
  <2>1. t \in Seq(Frames) /\ Len(t) = Len(q) + 1 /\ Len(t) # 0
    BY <1>1, <1>2
  <2> HIDE DEF t
  <2>2. t # <<>> /\ DOMAIN t = 1..(Len(q) + 1) /\ Last(t) = t[Len(q) + 1]
    BY <2>1, StreamIs
  <2> QED
    BY <2>2 DEF t
<1>4. \A i \in 1..(Len(q) + 1) : i \in 1..Len(q) \/ i = Len(q) + 1
  BY <1>2
<1> QED
  BY <1>1, <1>2, <1>3, <1>4

\* Push, with what it does to the ring and to the stream.
Full(s)     == page[s] # None /\ page[s].conn /\ Len(page[s].live) >= ChanCap
Later(s, f) == \E i \in DOMAIN ring[s] : ring[s][i].seq > f.seq

LEMMA PushIs ==
  ASSUME TypeOK, NEW d \in Driver, Push(d)
  PROVE  LET s == drv[d].s  f == drv[d].frame IN
         /\ At(d, "push") /\ s \in Session /\ f \in Frames
         /\ ring' = [ring EXCEPT ![s] = LastN(Append(@, f), RingCap)]
         /\ IF page[s] # None /\ page[s].conn /\ ~Full(s)
            THEN page' = [page EXCEPT ![s] = [page[s] EXCEPT !.live = Append(page[s].live, f)]]
            ELSE page' = page
         /\ astray' = [astray EXCEPT ![s] = IF Later(s, f) THEN "swapped" ELSE IF Full(s) THEN "dropped" ELSE @]
         /\ Done(d)
         /\ UNCHANGED <<version, row, notices, listening, bounds, missed>>
<1>1. At(d, "push") /\ drv[d].s \in Session /\ drv[d].frame \in Frames
  BY JobOf DEF Push, At, TypeOK
<1> QED
  BY <1>1 DEF Push, Full, Later

LEMMA PushTypes ==
  ASSUME TypeOK, NEW d \in Driver, Push(d) PROVE TypeOK'
<1> DEFINE s == drv[d].s
           f == drv[d].frame
           n == [page[s] EXCEPT !.live = Append(page[s].live, f)]
           q == LastN(Append(ring[s], f), RingCap)
<1>1. /\ s \in Session /\ f \in Frames /\ drv[d] # None
      /\ ring' = [ring EXCEPT ![s] = q]
      /\ page' = page \/ (page[s] # None /\ page' = [page EXCEPT ![s] = n])
      /\ \E why \in {"swapped", "dropped", astray[s]} : astray' = [astray EXCEPT ![s] = why]
      /\ Done(d)
      /\ UNCHANGED <<version, row, notices, listening, bounds, missed>>
  BY PushIs DEF At
<1>2. ring[s] \in Seq(Frames) /\ RingCap \in Nat \ {0}
  BY <1>1, FanoutAssumption DEF TypeOK
<1>3. q \in Seq(Frames)
  BY ZenonT(90), <1>1, <1>2, AppendIs, LastNIs
<1> HIDE DEF q, s, f
<1>4. ring' \in [Session -> Seq(Frames)]
  BY <1>1, <1>3 DEF TypeOK
<1>5. WebT'
  <2>1. CASE page' = page
    BY <1>4, <2>1 DEF TypeOK, WebT
  <2>2. CASE page[s] # None /\ page' = [page EXCEPT ![s] = n]
    <3>1. page[s] \in Pages /\ (page[s].sync = "answered" => page[s].fresh \in Answers)
      BY <1>1, <2>2, PageStays
    <3>2. Append(page[s].live, f) \in Seq(Frames)
      BY <1>1, <3>1, AppendIs DEF Pages
    <3>3. n \in Pages /\ n.sync = page[s].sync /\ n.fresh = page[s].fresh
      BY <3>1, <3>2 DEF Pages
    <3> HIDE DEF n
    <3> QED
      BY <1>1, <1>4, <2>2, <3>1, <3>3 DEF TypeOK, WebT
  <2> QED
    BY <1>1, <2>1, <2>2
<1>6. PICK why \in {"swapped", "dropped", astray[s]} : astray' = [astray EXCEPT ![s] = why]
  BY <1>1
<1>7. astray' \in [Session -> Reasons \cup {None}]
  BY <1>1, <1>6 DEF TypeOK, Reasons
<1>8. /\ drv' = [drv EXCEPT ![d] = None] /\ UNCHANGED <<matched, queue, dirty>>
      /\ redrive' \in {redrive, [redrive EXCEPT ![s] = 0]}
  BY <1>1 DEF Done, s
<1>9. DriveT'
  BY <1>8, DriveOne, TypeParts
<1>10. IndexT'
  BY <1>1, <1>8 DEF TypeOK, IndexT
<1> QED
  BY <1>1, <1>5, <1>7, <1>9, <1>10, TypeParts DEF StoreT, BookT, bounds

LEMMA TypeInit == Init => TypeOK
<1> SUFFICES ASSUME Init PROVE TypeOK
  OBVIOUS
<1>1. StoreT
  <2>1. NewRow \in Rows
    BY DEF NewRow, Rows
  <2> QED
    BY <2>1 DEF Init, StoreT
<1>2. IndexT /\ WebT
  BY EmptySeq DEF Init, IndexT, WebT
<1>3. DriveT /\ BookT
  BY DEF Init, DriveT, BookT, At
<1> QED
  BY <1>1, <1>2, <1>3, TypeParts

\* One case per action.  Every step keeps the types.
\* A step that fails and is committed: the row is past its claim, and whatever it shows
\* it shows still.
LEMMA FaultedIs ==
  ASSUME TypeOK, NEW d \in Driver, StepFaulted(d)
  PROVE  LET s == drv[d].s IN
         /\ drv[d] \in Jobs /\ drv[d] # None /\ s \in Session /\ faults' \in Nat
         /\ row' = [row EXCEPT ![s] = row'[s]] /\ row'[s] \in Rows
         /\ row'[s].status = "failed" /\ row'[s].snap = row[s].snap
         /\ row[s].status = "ready" /\ row[s].seq = drv[d].at /\ row'[s].seq = row[s].seq + 1
         /\ notices' \in {notices, notices + 1}
         /\ version' = version \/ (version' = version + 1 /\ (notices' > 0 \/ ~listening))
         /\ drv' = [drv EXCEPT ![d] = None]
         /\ UNCHANGED <<listening, matched, queue, dirty, ring, page, posts, missed, astray>>
<1> DEFINE s == drv[d].s
           sn == drv[d].snap
           e == Effect(d)
           r == [sn.row EXCEPT !.status = "failed", !.seq = @ + 1]
<1>1. At(d, "txn") /\ Claims(d) /\ row[s] = sn.row /\ Fault /\ Done(d) /\ row' = [row EXCEPT ![s] = r]
  <2>1. At(d, "txn") /\ Claims(d) /\ row[s] = sn.row /\ Fault /\ Done(d)
    BY DEF StepFaulted
  <2>2. row' = [row EXCEPT ![s] = r]
    BY DEF StepFaulted
  <2> QED
    BY <2>1, <2>2
<1>2. drv[d] \in Jobs /\ drv[d] # None /\ s \in Session /\ sn \in Snaps /\ version \in Nat /\ notices \in Nat
      /\ row \in [Session -> Rows]
  BY <1>1, JobOf DEF At, TypeOK
<1>3. sn.row \in Rows /\ sn.version \in Nat /\ drv[d].msg \in {"input", "submit", "invalidate"}
  BY <1>2 DEF Jobs, Snaps
<1>4. row[s].status = "ready" /\ row[s].seq = drv[d].at
  BY <1>1 DEF Claims
<1>5. e.v = sn.version \/ (e.v = sn.version + 1 /\ e.notify)
  BY <1>3, ApplyIs DEF Effect
<1>6. \/ UNCHANGED <<version, notices>>
      \/ /\ e.v # sn.version => version = sn.version
         /\ version' = IF e.v # sn.version THEN e.v ELSE version
         /\ IF e.notify THEN Notify ELSE UNCHANGED notices
  BY DEF StepFaulted, Submitted, Writes
<1> HIDE DEF e, sn
<1>7. r \in Rows /\ r.status = "failed" /\ r.seq = row[s].seq + 1 /\ r.snap = row[s].snap
  <2>1. sn.row.seq + 1 \in Nat
    BY <1>3 DEF Rows
  <2> QED
    BY <1>1, <1>3, <2>1 DEF Rows
<1> HIDE DEF r
<1>8. row'[s] = r /\ row' = [row EXCEPT ![s] = row'[s]]
  BY <1>1, <1>2
<1>9. notices' \in {notices, notices + 1} /\ (UNCHANGED <<version, notices>> \/ (e.notify => notices' > 0 \/ ~listening))
  BY <1>2, <1>6 DEF Notify
<1>10. version' = version \/ (version' = version + 1 /\ (notices' > 0 \/ ~listening))
  BY <1>2, <1>3, <1>5, <1>6, <1>9
<1>11. /\ drv' = [drv EXCEPT ![d] = None] /\ faults' \in Nat
       /\ UNCHANGED <<listening, matched, queue, dirty, ring, page, posts, missed, astray>>
  <2>1. faults' \in Nat
    BY <1>1, Faulty, TypeParts
  <2> QED
    BY <2>1 DEF StepFaulted, Done
<1> QED
  BY <1>2, <1>4, <1>7, <1>8, <1>9, <1>10, <1>11

LEMMA StepFaultedTypes ==
  ASSUME TypeOK, NEW d \in Driver, StepFaulted(d) PROVE TypeOK'
<1>1. /\ drv[d].s \in Session /\ faults' \in Nat
      /\ row' = [row EXCEPT ![drv[d].s] = row'[drv[d].s]] /\ row'[drv[d].s] \in Rows
      /\ version' \in {version, version + 1} /\ notices' \in {notices, notices + 1}
      /\ drv' = [drv EXCEPT ![d] = None]
      /\ UNCHANGED <<listening, matched, queue, dirty, ring, page, posts, missed, astray>>
  BY FaultedIs
<1>2. StoreT'
  <2>1. row' \in [Session -> Rows]
    BY <1>1 DEF TypeOK
  <2>2. version' \in Nat /\ notices' \in Nat
    BY <1>1 DEF TypeOK
  <2> QED
    BY <1>1, <2>1, <2>2 DEF TypeOK, StoreT
<1>3. DriveT'
  BY <1>1, DriveOne, TypeParts
<1>4. redrive' \in [Session -> Nat]
  BY <1>1 DEF StepFaulted, Done, TypeOK
<1>5. IndexT' /\ WebT' /\ BookT'
  BY <1>1, <1>4 DEF TypeOK, IndexT, WebT, BookT
<1> QED
  BY <1>2, <1>3, <1>5, TypeParts

LEMMA TypeStep == ASSUME TypeOK, [Next]_vars PROVE TypeOK'
<1>1. ASSUME NEW s \in Session, Render(s) \/ Insert(s) \/ Sweep(s) PROVE TypeOK'
  BY <1>1, RenderTypes, InsertTypes, SweepTypes
<1>2. ASSUME NEW s \in Watched, Browse(s) PROVE TypeOK'
  BY <1>2, BrowseKeepsTypes, FanoutAssumption
<1>3. ASSUME NEW s \in Watched, NEW h \in Handler, Post(h, s) PROVE TypeOK'
  BY <1>3, PostTypes
<1>4. ASSUME NEW w \in Worker, Pop(w) \/ ReadSeq(w) PROVE TypeOK'
  BY <1>4, PopTypes, ReadSeqTypes
<1>5. ASSUME NEW d \in Driver, Drive(d) PROVE TypeOK'
  BY <1>5, ArmTypes, BeginTypes, ClaimLostTypes, StepTypes, StepUnansweredTypes, RetryTypes,
     StepFaultedTypes, StepFailsTypes, PushTypes DEF Drive
<1>6. CASE UNCHANGED vars
  BY <1>6 DEF vars, index, bounds, TypeOK, At
<1> QED
  BY <1>1, <1>2, <1>3, <1>4, <1>5, <1>6, ListenTypes, WriteElsewhereTypes, RestartTypes DEF Next

\* The types hold: what a driver, a ring and a browser hold is what the code keeps there.
THEOREM FanoutTypes == Spec => []TypeOK
<1>1. Init => TypeOK
  BY TypeInit
<1>2. TypeOK /\ [Next]_vars => TypeOK'
  BY TypeStep
<1> QED
  BY <1>1, <1>2, PTL DEF Spec

----------------------------------------------------------------------------
(* A stale view has its refresh on the way *)

\* Where the refresh of s may be.
Carried(s) ==
  \/ notices > 0 \/ s \in matched \/ s \in ToSet(queue)
  \/ \E w \in Worker : Coming(w, s)
  \/ missed[s] # None \/ ~listening

\* A marked session is queued; no row, and no snapshot, shows data that is not there yet.
Ordered ==
  /\ dirty \subseteq ToSet(queue)
  /\ \A s \in Session : row[s].snap <= version
  /\ \A d \in Driver : At(d, "txn") =>
       drv[d].snap.row.snap <= drv[d].snap.version /\ drv[d].snap.version <= version

CarryInv == TypeOK /\ Ordered /\ StaleIsCarried

\* A session that failed is excepted, so that what is left to carry is the mounted ones.
LEMMA StaleIs ==
  /\ StaleIsCarried <=> \A s \in Session : Stale(s) => Carried(s)
  /\ StaleIsCarried' <=> \A s \in Session : Stale(s)' => Carried(s)'
BY DEF StaleIsCarried, Subscribed, Stale, Mounted, Carried

LEMMA QueueAppend ==
  ASSUME NEW q \in Seq(Session), NEW s \in Session
  PROVE  ToSet(Append(q, s)) = ToSet(q) \cup {s}
<1>1. /\ Len(q) \in Nat /\ DOMAIN q = 1..Len(q) /\ DOMAIN Append(q, s) = 1..(Len(q) + 1)
      /\ \A i \in 1..Len(q) : Append(q, s)[i] = q[i]
      /\ Append(q, s)[Len(q) + 1] = s
  <2>1. /\ Append(q, s) \in Seq(Session) /\ Len(Append(q, s)) = Len(q) + 1
        /\ \A i \in 1..Len(q) : Append(q, s)[i] = q[i]
        /\ Append(q, s)[Len(q) + 1] = s
    BY AppendProperties
  <2>2. DOMAIN Append(q, s) = 1..Len(Append(q, s))
    BY <2>1, LenProperties
  <2> QED
    BY <2>1, <2>2, LenProperties
<1>2. 1..(Len(q) + 1) = 1..Len(q) \cup {Len(q) + 1}
  BY <1>1
<1> QED
  BY <1>1, <1>2 DEF ToSet

LEMMA QueueTail ==
  ASSUME NEW q \in Seq(Session), q # <<>>
  PROVE  ToSet(q) = {Head(q)} \cup ToSet(Tail(q))
<1>1. /\ Len(q) \in Nat /\ 1 <= Len(q) /\ DOMAIN q = 1..Len(q) /\ Head(q) = q[1]
      /\ DOMAIN Tail(q) = 1..(Len(q) - 1)
      /\ \A i \in 1..(Len(q) - 1) : Tail(q)[i] = q[i + 1]
  <2>1. Len(q) \in Nat \ {0} /\ DOMAIN q = 1..Len(q)
    BY EmptySeq, LenProperties
  <2>2. /\ Tail(q) \in Seq(Session) /\ Len(Tail(q)) = Len(q) - 1
        /\ \A i \in 1..Len(Tail(q)) : Tail(q)[i] = q[i + 1]
    BY HeadTailProperties
  <2>3. DOMAIN Tail(q) = 1..Len(Tail(q))
    BY <2>2, LenProperties
  <2> QED
    BY <2>1, <2>2, <2>3
<1>2. ASSUME NEW x \in ToSet(q) PROVE x = Head(q) \/ x \in ToSet(Tail(q))
  <2>1. PICK i \in 1..Len(q) : x = q[i]
    BY <1>1 DEF ToSet
  <2>2. CASE i = 1
    BY <1>1, <2>1, <2>2
  <2>3. CASE i # 1
    <3>1. i - 1 \in 1..(Len(q) - 1) /\ (i - 1) + 1 = i
      BY <1>1, <2>3
    <3> QED
      BY <1>1, <2>1, <3>1 DEF ToSet
  <2> QED
    BY <2>2, <2>3
<1>3. ASSUME NEW x \in ToSet(Tail(q)) PROVE x \in ToSet(q)
  <2>1. PICK i \in 1..(Len(q) - 1) : x = Tail(q)[i]
    BY <1>1, <1>3 DEF ToSet
  <2>2. i + 1 \in 1..Len(q) /\ x = q[i + 1]
    BY <1>1, <2>1
  <2> QED
    BY <1>1, <2>2 DEF ToSet
<1>4. Head(q) \in ToSet(q)
  <2>1. 1 \in 1..Len(q)
    BY <1>1
  <2> QED
    BY <1>1, <2>1 DEF ToSet
<1> QED
  BY <1>2, <1>3, <1>4

LEMMA Why == \A r \in Reasons : r # None
BY FanoutAssumption

\* Queueing a session drops no other, and forgets no reason.
LEMMA EnqueueKeeps ==
  ASSUME TypeOK, Ordered, NEW s \in Session, Enqueue(s)
  PROVE  /\ dirty' \subseteq ToSet(queue') /\ ToSet(queue) \subseteq ToSet(queue')
         /\ \A x \in Session : missed[x] # None => missed'[x] # None
         /\ Stale(s) => s \in ToSet(queue') \/ missed'[s] # None
<1>1. queue \in Seq(Session) /\ dirty \subseteq ToSet(queue) /\ missed \in [Session -> Reasons \cup {None}]
  BY DEF TypeOK, Ordered
<1>2. CASE s \in dirty
  BY <1>1, <1>2 DEF Enqueue
<1>3. CASE s \notin dirty /\ Len(queue) < QueueCap
  <2>1. queue' = Append(queue, s) /\ dirty' = dirty \cup {s} /\ missed' = missed
    BY <1>3 DEF Enqueue
  <2>2. ToSet(queue') = ToSet(queue) \cup {s}
    BY <1>1, <2>1, QueueAppend
  <2> QED
    BY <1>1, <2>1, <2>2
<1>4. CASE s \notin dirty /\ ~(Len(queue) < QueueCap)
  <2>1. /\ missed' = IF Stale(s) THEN [missed EXCEPT ![s] = "full"] ELSE missed
        /\ UNCHANGED <<queue, dirty>>
    BY <1>4 DEF Enqueue
  <2>2. "full" # None
    BY Why DEF Reasons
  <2> QED
    BY <1>1, <2>1, <2>2
<1> QED
  BY <1>2, <1>3, <1>4

\* A drive that ends without a refresh leaves a stale session queued, or given up.
LEMMA EndKeeps ==
  ASSUME TypeOK, Ordered, NEW d \in Driver, drv[d] # None, Dropped(d) \/ Failed(d)
  PROVE  /\ dirty' \subseteq ToSet(queue') /\ ToSet(queue) \subseteq ToSet(queue')
         /\ \A x \in Session : missed[x] # None => missed'[x] # None
         /\ d \in Worker /\ Stale(drv[d].s) => drv[d].s \in ToSet(queue') \/ missed'[drv[d].s] # None
<1>1. /\ queue \in Seq(Session) /\ dirty \subseteq ToSet(queue)
      /\ missed \in [Session -> Reasons \cup {None}] /\ drv[d].s \in Session
  BY JobOf DEF TypeOK, Ordered
<1>2. "overtaken" # None /\ "given up" # None
  BY Why DEF Reasons
<1>3. CASE Dropped(d)
  <2>1. /\ UNCHANGED <<queue, dirty>>
        /\ missed' = IF d \in Worker /\ Stale(drv[d].s)
                     THEN [missed EXCEPT ![drv[d].s] = "overtaken"] ELSE missed
    BY <1>3 DEF Dropped, Done
  <2> QED
    BY <1>1, <1>2, <2>1
<1>4. CASE Failed(d)
  <2>1. CASE d \in Handler
    <3>1. UNCHANGED <<queue, dirty, missed>> /\ d \notin Worker
      BY <1>4, <2>1, FanoutAssumption DEF Failed
    <3> QED
      BY <1>1, <3>1
  <2>2. CASE d \notin Handler /\ redrive[drv[d].s] < MaxRedrive
    <3>1. Enqueue(drv[d].s)
      BY <1>4, <2>2 DEF Failed
    <3> QED
      BY <1>1, <3>1, EnqueueKeeps
  <2>3. CASE d \notin Handler /\ ~(redrive[drv[d].s] < MaxRedrive)
    <3>1. /\ missed' = IF Stale(drv[d].s) THEN [missed EXCEPT ![drv[d].s] = "given up"] ELSE missed
          /\ UNCHANGED <<queue, dirty>>
      BY <1>4, <2>3 DEF Failed
    <3> QED
      BY <1>1, <1>2, <3>1
  <2> QED
    BY <2>1, <2>2, <2>3
<1> QED
  BY <1>3, <1>4

\* A step that makes no view stale and loses no carrier.
LEMMA CarriesOn ==
  ASSUME StaleIsCarried,
         \A x \in Session : Stale(x)' => Stale(x),
         notices > 0 => notices' > 0 \/ ~listening',
         \A x \in matched \cup ToSet(queue) : x \in Session /\ Stale(x)' => Carried(x)',
         \A x \in Session : \A w \in Worker : Stale(x)' /\ Coming(w, x) => Carried(x)',
         \A x \in Session : Stale(x)' /\ missed[x] # None => missed'[x] # None,
         ~listening => ~listening'
  PROVE  StaleIsCarried'
<1>1. ASSUME NEW x \in Session, Stale(x)' PROVE Carried(x)'
  <2>1. Carried(x)
    BY <1>1, StaleIs
  <2>2. CASE notices > 0 \/ missed[x] # None \/ ~listening
    BY <1>1, <2>2 DEF Carried
  <2>3. CASE x \in matched \cup ToSet(queue)
    BY <1>1, <2>3
  <2>4. CASE \E w \in Worker : Coming(w, x)
    BY <1>1, <2>4
  <2> QED
    BY <2>1, <2>2, <2>3, <2>4 DEF Carried
<1> QED
  BY <1>1, StaleIs

\* A step of a driver that commits nothing: the sessions it worked for keep a carrier.
LEMMA DriverCarries ==
  ASSUME CarryInv, TypeOK', NEW d \in Driver,
         \A x \in Driver : x # d => drv'[x] = drv[x],
         UNCHANGED <<version, notices, listening>>,
         \A x \in Session : row'[x].snap = row[x].snap /\ (Mounted(x)' => Mounted(x)),
         matched' = matched,
         dirty' \subseteq ToSet(queue'), ToSet(queue) \subseteq ToSet(queue'),
         \A x \in Session : missed[x] # None => missed'[x] # None,
         At(d, "txn")' => drv'[d].snap.row.snap <= drv'[d].snap.version /\ drv'[d].snap.version <= version,
         \A x \in Session : d \in Worker /\ Coming(d, x) /\ Stale(x) =>
            Coming(d, x)' \/ x \in ToSet(queue') \/ missed'[x] # None
  PROVE  CarryInv'
<1>1. \A x \in Session : Stale(x)' => Stale(x)
  BY DEF Stale
<1>2. Worker \subseteq Driver
  BY DEF Driver
<1>3. ASSUME NEW x \in Session, NEW w \in Worker, Stale(x)', Coming(w, x) PROVE Carried(x)'
  <2>1. CASE w = d
    BY <1>1, <1>3, <2>1 DEF Carried
  <2>2. CASE w # d
    <3>1. Coming(w, x)'
      BY <1>2, <1>3, <2>2 DEF Coming
    <3> QED
      BY <3>1 DEF Carried
  <2> QED
    BY <2>1, <2>2
<1>4. \A x \in matched \cup ToSet(queue) : x \in Session /\ Stale(x)' => Carried(x)'
  BY DEF Carried
<1>5. StaleIsCarried'
  BY <1>1, <1>3, <1>4, CarriesOn DEF CarryInv
<1>6. Ordered'
  <2>1. ASSUME NEW x \in Driver, At(x, "txn")'
        PROVE  drv'[x].snap.row.snap <= drv'[x].snap.version /\ drv'[x].snap.version <= version'
    <3>1. CASE x = d
      BY <2>1, <3>1
    <3>2. CASE x # d
      BY <2>1, <3>2 DEF At, CarryInv, Ordered
    <3> QED
      BY <3>1, <3>2
  <2> QED
    BY <2>1 DEF CarryInv, Ordered
<1> QED
  BY <1>5, <1>6 DEF CarryInv

\* Nothing that StaleIsCarried is about has changed.
LEMMA NothingMoves ==
  ASSUME CarryInv, TypeOK',
         UNCHANGED <<version, row, notices, listening, index, drv, missed>>
  PROVE  CarryInv'
BY StaleIs DEF CarryInv, Ordered, Stale, Mounted, Carried, Coming, At, index

LEMMA PostCarries ==
  ASSUME CarryInv, TypeOK', NEW h \in Handler, NEW s \in Watched, Post(h, s) PROVE CarryInv'
<1>1. h \in Driver /\ h \notin Worker /\ s \in Session /\ TypeOK
  BY FanoutAssumption DEF Driver, CarryInv
<1>2. PICK msg : drv' = [drv EXCEPT ![h] = Job(s, "arm", page[s].seq, msg)]
  BY DEF Post
<1>3. drv \in [Driver -> Jobs \cup {None}]
  BY <1>1 DEF TypeOK
<1>4. drv'[h].pc = "arm" /\ \A x \in Driver : x # h => drv'[x] = drv[x]
  BY <1>1, <1>2, <1>3 DEF Job
<1>5. UNCHANGED <<version, row, notices, listening, matched, queue, dirty, missed>>
  BY DEF Post, index
<1> QED
  BY <1>1, <1>4, <1>5, DriverCarries DEF CarryInv, Ordered, At, Mounted

LEMMA PopCarries ==
  ASSUME CarryInv, TypeOK', NEW w \in Worker, Pop(w) PROVE CarryInv'
<1>1. /\ w \in Driver /\ queue # <<>> /\ queue' = Tail(queue) /\ dirty' = dirty \ {Head(queue)}
      /\ drv[w] = None /\ drv' = [drv EXCEPT ![w] = Job(Head(queue), "read", 0, "invalidate")]
      /\ UNCHANGED <<version, row, notices, listening, matched, missed>>
  BY DEF Pop, Driver
<1>2. queue \in Seq(Session) /\ drv \in [Driver -> Jobs \cup {None}] /\ dirty \subseteq ToSet(queue)
  BY DEF CarryInv, TypeOK, Ordered
<1>3. Head(queue) \in Session /\ ToSet(queue) = {Head(queue)} \cup ToSet(Tail(queue))
  BY <1>1, <1>2, HeadTailProperties, QueueTail
<1>4. /\ drv'[w].pc = "read" /\ drv'[w].s = Head(queue) /\ drv'[w] # None
      /\ \A x \in Driver : x # w => drv'[x] = drv[x]
  BY <1>1, <1>2, <1>3, JobIs
<1>5. ASSUME NEW x \in Session, x = Head(queue) PROVE Coming(w, x)'
  BY <1>1, <1>4, <1>5 DEF Coming
<1>6. \A x \in matched \cup ToSet(queue) : x \in Session /\ Stale(x)' => Carried(x)'
  BY <1>1, <1>3, <1>5 DEF Carried
<1>7. ASSUME NEW x \in Session, NEW u \in Worker, Coming(u, x) PROVE Carried(x)'
  <2>1. u # w /\ u \in Driver
    BY <1>1, <1>7 DEF Coming, Driver
  <2>2. Coming(u, x)'
    BY <1>1, <1>4, <1>7, <2>1 DEF Coming
  <2> QED
    BY <2>2 DEF Carried
<1>8. StaleIsCarried'
  BY <1>1, <1>6, <1>7, CarriesOn DEF CarryInv, Stale, Mounted
<1>9. Ordered'
  <2>1. dirty' \subseteq ToSet(queue')
    BY <1>1, <1>2, <1>3
  <2>2. \A d \in Driver : At(d, "txn")' => At(d, "txn") /\ drv'[d] = drv[d]
    BY <1>4 DEF At
  <2> QED
    BY <1>1, <2>1, <2>2 DEF CarryInv, Ordered
<1> QED
  BY <1>8, <1>9 DEF CarryInv

\* The drive is over, one way or another; the row may have been armed or not.
LEMMA EndCarries ==
  ASSUME CarryInv, TypeOK', NEW d \in Driver, drv[d] # None, Dropped(d) \/ Failed(d),
         UNCHANGED <<version, row, notices, listening>>
  PROVE  CarryInv'
<1>1. TypeOK /\ Ordered
  BY DEF CarryInv
<1>2. drv' = [drv EXCEPT ![d] = None] /\ matched' = matched
  BY <1>1, EndTypes
<1>3. drv'[d] = None /\ \A x \in Driver : x # d => drv'[x] = drv[x]
  BY <1>1, <1>2 DEF TypeOK
<1>4. /\ dirty' \subseteq ToSet(queue') /\ ToSet(queue) \subseteq ToSet(queue')
      /\ \A x \in Session : missed[x] # None => missed'[x] # None
      /\ d \in Worker /\ Stale(drv[d].s) => drv[d].s \in ToSet(queue') \/ missed'[drv[d].s] # None
  BY <1>1, EndKeeps
<1>5. \A x \in Session : Coming(d, x) => x = drv[d].s
  BY DEF Coming
<1>6. ~At(d, "txn")'
  BY <1>3 DEF At
<1> QED
  BY <1>2, <1>3, <1>4, <1>5, <1>6, DriverCarries DEF Mounted

\* The drive goes on to its next step.
LEMMA NextCarries ==
  ASSUME CarryInv, TypeOK', NEW d \in Driver, drv[d] # None, NEW j \in Jobs, j.s = drv[d].s,
         drv' = [drv EXCEPT ![d] = j],
         \/ j.pc \in {"arm", "begin"}
         \/ j.pc = "txn" /\ j.snap = [row |-> row[drv[d].s], version |-> version],
         \A x \in Session : row'[x].snap = row[x].snap /\ (Mounted(x)' => Mounted(x)),
         UNCHANGED <<version, notices, listening, index, missed>>
  PROVE  CarryInv'
<1>1. TypeOK /\ Ordered /\ drv[d].s \in Session /\ j # None
  BY JobOf, FanoutAssumption DEF CarryInv
<1>2. drv'[d] = j /\ \A x \in Driver : x # d => drv'[x] = drv[x]
  BY <1>1 DEF TypeOK
<1>3. version \in Nat /\ row[drv[d].s].snap <= version
  BY <1>1 DEF TypeOK, Ordered
<1>4. At(d, "txn")' => drv'[d].snap.row.snap <= drv'[d].snap.version /\ drv'[d].snap.version <= version
  BY <1>2, <1>3 DEF At
<1>5. \A x \in Session : Coming(d, x) => Coming(d, x)'
  BY <1>1, <1>2 DEF Coming
<1>6. dirty' \subseteq ToSet(queue') /\ ToSet(queue) \subseteq ToSet(queue')
      /\ UNCHANGED <<version, notices, listening, matched>>
      /\ \A x \in Session : missed[x] # None => missed'[x] # None
  BY <1>1 DEF Ordered, index
<1> QED
  BY <1>2, <1>4, <1>5, <1>6, DriverCarries

LEMMA ReadSeqCarries ==
  ASSUME CarryInv, TypeOK', NEW w \in Worker, ReadSeq(w) PROVE CarryInv'
<1>1. /\ w \in Driver /\ drv[w] # None /\ UNCHANGED <<version, row, notices, listening>> /\ TypeOK
  BY DEF ReadSeq, Driver, At, CarryInv
<1>2. CASE Mounted(drv[w].s)
  <2> DEFINE j == [drv[w] EXCEPT !.pc = "arm", !.at = row[drv[w].s].seq]
  <2>1. drv' = [drv EXCEPT ![w] = j] /\ UNCHANGED <<index, missed>>
    BY <1>2 DEF ReadSeq
  <2>2. drv[w] \in Jobs /\ row[drv[w].s] \in Rows
    BY <1>1, JobOf DEF TypeOK
  <2>3. j \in Jobs /\ j.pc = "arm" /\ j.s = drv[w].s
    BY <2>2 DEF Jobs, Rows
  <2> HIDE DEF j
  <2> QED
    BY <1>1, <2>1, <2>3, NextCarries DEF Mounted
<1>3. CASE ~Mounted(drv[w].s)
  BY <1>1, <1>3, EndCarries DEF ReadSeq
<1> QED
  BY <1>2, <1>3

LEMMA ArmCarries ==
  ASSUME CarryInv, TypeOK', NEW d \in Driver, Arm(d) PROVE CarryInv'
<1>1. drv[d] # None /\ UNCHANGED <<version, notices, listening>> /\ TypeOK
  BY DEF Arm, At, CarryInv
<1>2. drv[d] \in Jobs /\ drv[d].s \in Session /\ row \in [Session -> Rows]
  BY <1>1, JobOf DEF TypeOK
<1>3. CASE Mounted(drv[d].s) /\ row[drv[d].s].seq = drv[d].at
  <2> DEFINE j == [drv[d] EXCEPT !.pc = "begin"]
  <2>1. /\ drv' = [drv EXCEPT ![d] = j] /\ UNCHANGED <<index, missed>>
        /\ row' = [row EXCEPT ![drv[d].s].status = "ready"]
    BY <1>3 DEF Arm
  <2>2. j \in Jobs /\ j.pc = "begin" /\ j.s = drv[d].s
    BY <1>2 DEF Jobs
  <2> HIDE DEF j
  <2>3. ASSUME NEW x \in Session PROVE row'[x].snap = row[x].snap /\ (Mounted(x)' => Mounted(x))
    <3>1. CASE x = drv[d].s
      BY <1>2, <1>3, <2>1, <3>1 DEF Rows
    <3>2. CASE x # drv[d].s
      BY <1>2, <2>1, <3>2 DEF Mounted
    <3> QED
      BY <3>1, <3>2
  <2> QED
    BY <1>1, <2>1, <2>2, <2>3, NextCarries
<1>4. CASE ~(Mounted(drv[d].s) /\ row[drv[d].s].seq = drv[d].at)
  <2>1. Dropped(d) /\ row' = row
    BY <1>4 DEF Arm
  <2> QED
    BY <1>1, <2>1, EndCarries
<1> QED
  BY <1>3, <1>4

LEMMA BeginCarries ==
  ASSUME CarryInv, TypeOK', NEW d \in Driver, Begin(d) PROVE CarryInv'
<1> DEFINE sn == [row |-> row[drv[d].s], version |-> version]
           j  == [drv[d] EXCEPT !.pc = "txn", !.snap = sn]
<1>1. /\ drv[d] # None /\ drv' = [drv EXCEPT ![d] = j] /\ TypeOK
      /\ UNCHANGED <<version, row, notices, listening, index, missed>>
  BY DEF Begin, At, CarryInv
<1>2. drv[d] \in Jobs /\ drv[d].s \in Session /\ row[drv[d].s] \in Rows /\ version \in Nat
  BY <1>1, JobOf DEF TypeOK
<1>3. sn \in Snaps /\ sn = [row |-> row[drv[d].s], version |-> version]
  BY <1>2 DEF Snaps
<1> HIDE DEF sn
<1>4. j \in Jobs /\ j.pc = "txn" /\ j.s = drv[d].s /\ j.snap = sn
  BY <1>2, <1>3 DEF Jobs
<1> HIDE DEF j
<1> QED
  BY <1>1, <1>3, <1>4, NextCarries DEF Mounted

LEMMA RetryCarries ==
  ASSUME CarryInv, TypeOK', NEW d \in Driver, Retry(d) PROVE CarryInv'
<1> DEFINE k == drv[d].tries + 1
           j == [drv[d] EXCEPT !.pc = "begin", !.tries = k, !.snap = None]
<1>1. drv[d] # None /\ UNCHANGED <<version, row, notices, listening>> /\ TypeOK
  BY DEF Retry, At, CarryInv
<1>2. CASE k < MaxTries
  <2>1. drv' = [drv EXCEPT ![d] = j] /\ UNCHANGED <<index, missed>>
    BY <1>2 DEF Retry
  <2>2. drv[d] \in Jobs
    BY <1>1, JobOf
  <2>3. k \in Nat
    BY <2>2 DEF Jobs
  <2> HIDE DEF k
  <2>4. j \in Jobs /\ j.pc = "begin" /\ j.s = drv[d].s
    BY <2>2, <2>3 DEF Jobs
  <2> HIDE DEF j
  <2> QED
    BY <1>1, <2>1, <2>4, NextCarries DEF Mounted
<1>3. CASE ~(k < MaxTries)
  <2>1. Failed(d)
    BY Zenon, <1>3 DEF Retry
  <2> QED
    BY <1>1, <2>1, EndCarries
<1> QED
  BY <1>2, <1>3

LEMMA PushCarries ==
  ASSUME CarryInv, TypeOK', NEW d \in Driver, Push(d) PROVE CarryInv'
<1>1. /\ TypeOK /\ Ordered /\ drv' = [drv EXCEPT ![d] = None] /\ At(d, "push")
      /\ UNCHANGED <<version, row, notices, listening, matched, queue, dirty, missed>>
  BY DEF CarryInv, Push, Done
<1>2. drv'[d] = None /\ \A x \in Driver : x # d => drv'[x] = drv[x]
  BY <1>1 DEF TypeOK
<1>3. ~At(d, "txn")' /\ \A x \in Session : ~Coming(d, x)
  BY <1>1, <1>2 DEF At, Coming
<1> QED
  BY <1>1, <1>2, <1>3, DriverCarries DEF Ordered, Mounted

\* A commit: whoever is made stale by a write has its notice, and a view that was rendered
\* from an old snapshot was stale before and keeps the carrier it had.
LEMMA CommitCarries ==
  ASSUME CarryInv, TypeOK', NEW d \in Driver, At(d, "txn"), Claims(d), Commit(d),
         ~At(d, "txn")', \A x \in Driver : x # d => drv'[x] = drv[x],
         missed' = Refreshed(d), UNCHANGED <<listening, index>>
  PROVE  CarryInv'
<1>s. PICK s : s = drv[d].s
  OBVIOUS
<1>n. PICK sn : sn = drv[d].snap
  OBVIOUS
<1>v. PICK v : v = Effect(d).v
  OBVIOUS
<1>1. TypeOK /\ Ordered
  BY DEF CarryInv
<1>2. /\ s \in Session /\ sn \in Snaps /\ v \in Nat
      /\ row[s] = sn.row /\ row[s].status = "ready"
      /\ \/ v = sn.version /\ version' = version
         \/ v = version + 1 /\ version' = version + 1 /\ (notices' > 0 \/ ~listening)
      /\ notices' \in {notices, notices + 1}
      /\ row' = [row EXCEPT ![s] = row'[s]] /\ row'[s].snap = v
  BY <1>1, <1>s, <1>n, <1>v, CommitIs
<1>3. sn.row.snap <= sn.version /\ sn.version <= version /\ sn.version \in Nat /\ sn.row.snap \in Nat
  BY <1>1, <1>2, <1>n DEF Ordered, Snaps, Rows
<1>4. version \in Nat /\ notices \in Nat /\ row \in [Session -> Rows]
      /\ missed \in [Session -> Reasons \cup {None}]
  BY <1>1 DEF TypeOK
<1>5. missed' = [missed EXCEPT ![s] = IF v = version' THEN None ELSE missed[s]]
  BY <1>s, <1>v DEF Refreshed
<1>6. At(d, "txn") /\ drv[d].snap = sn /\ drv[d].s = s
  BY <1>s, <1>n
<1>7. \A x \in Session : x # s => row'[x] = row[x] /\ missed'[x] = missed[x]
  BY <1>2, <1>4, <1>5
<1>8. \A x \in Session : row'[x].snap <= version'
  <2>1. v <= version'
    BY <1>2, <1>3, <1>4
  <2>2. version <= version'
    BY <1>2, <1>4
  <2>3. ASSUME NEW x \in Session, x # s PROVE row'[x].snap <= version'
    <3>1. row[x].snap <= version /\ row[x].snap \in Nat
      BY <1>1, <1>4 DEF Ordered, Rows
    <3> QED
      BY <1>2, <1>4, <1>7, <2>2, <2>3, <3>1
  <2> QED
    BY <1>2, <2>1, <2>3
<1>9. Ordered'
  <2>1. ASSUME NEW x \in Driver, At(x, "txn")'
        PROVE  drv'[x].snap.row.snap <= drv'[x].snap.version /\ drv'[x].snap.version <= version'
    <3>1. drv'[x] = drv[x] /\ At(x, "txn")
      BY <2>1 DEF At
    <3>2. drv[x].snap.row.snap <= drv[x].snap.version /\ drv[x].snap.version <= version
          /\ drv[x].snap.version \in Nat
      BY <1>1, <3>1 DEF Ordered, TypeOK, Snaps
    <3> QED
      BY <1>2, <1>4, <3>1, <3>2
  <2> QED
    BY <1>1, <1>8, <2>1 DEF Ordered, index
<1>10. CASE version' # version
  <2>1. notices' > 0 \/ ~listening'
    BY <1>2, <1>4, <1>10 DEF index
  <2>2. StaleIsCarried'
    BY <2>1 DEF StaleIsCarried
  <2> QED
    BY <1>9, <2>2 DEF CarryInv
<1>11. CASE version' = version
  <2>1. v = sn.version
    BY <1>2, <1>4, <1>11
  <2>2. Stale(s)' => v # version
    BY <1>2, <1>11 DEF Stale
  <2>3. v # version => Stale(s)
    <3>1. v # version => row[s].snap # version
      BY <1>2, <1>3, <1>4, <2>1
    <3> QED
      BY <1>2, <3>1 DEF Stale, Mounted
  <2>4. \A x \in Session : Stale(x)' => Stale(x)
    BY <1>7, <1>11, <2>2, <2>3 DEF Stale, Mounted
  <2>5. \A x \in Session : Stale(x)' /\ missed[x] # None => missed'[x] # None
    BY <1>4, <1>5, <1>7, <1>11, <2>2
  <2>6. ASSUME NEW x \in Session, NEW w \in Worker, Stale(x)', Coming(w, x) PROVE Carried(x)'
    <3>1. CASE w = d
      <4>1. x = s /\ sn.version = version
        BY <1>6, <2>6, <3>1 DEF Coming, At
      <4> QED
        BY <2>1, <2>2, <2>6, <4>1
    <3>2. CASE w # d
      <4>1. drv'[w] = drv[w]
        BY <3>2 DEF Driver
      <4>2. Coming(w, x)'
        BY <1>11, <2>6, <4>1 DEF Coming
      <4> QED
        BY <4>2 DEF Carried
    <3> QED
      BY <3>1, <3>2
  <2>7. \A x \in matched \cup ToSet(queue) : x \in Session /\ Stale(x)' => Carried(x)'
    BY DEF Carried, index
  <2>8. notices > 0 => notices' > 0 \/ ~listening'
    BY <1>2, <1>4
  <2>9. StaleIsCarried'
    BY <2>4, <2>5, <2>6, <2>7, <2>8, CarriesOn DEF CarryInv
  <2> QED
    BY <1>9, <2>9 DEF CarryInv
<1> QED
  BY <1>10, <1>11

LEMMA StepCarries ==
  ASSUME CarryInv, TypeOK', NEW d \in Driver, Step(d) PROVE CarryInv'
<1>1. /\ At(d, "txn") /\ Claims(d) /\ Commit(d) /\ missed' = Refreshed(d)
      /\ UNCHANGED <<listening, index>> /\ TypeOK
  BY DEF Step, CarryInv
<1>2. PICK f : drv' = [drv EXCEPT ![d] = [drv[d] EXCEPT !.pc = "push", !.frame = f]]
  BY DEF Step
<1>3. drv[d] \in Jobs /\ drv \in [Driver -> Jobs \cup {None}]
  BY <1>1, JobOf DEF At, TypeOK
<1>4. ~At(d, "txn")' /\ \A x \in Driver : x # d => drv'[x] = drv[x]
  BY <1>2, <1>3 DEF At, Jobs
<1> QED
  BY <1>1, <1>4, CommitCarries

LEMMA StepUnansweredCarries ==
  ASSUME CarryInv, TypeOK', NEW d \in Driver, StepUnanswered(d) PROVE CarryInv'
<1>1. /\ At(d, "txn") /\ Claims(d) /\ Commit(d) /\ missed' = Refreshed(d)
      /\ UNCHANGED <<listening, index>> /\ TypeOK /\ drv' = [drv EXCEPT ![d] = None]
  BY DEF StepUnanswered, CarryInv
<1>2. ~At(d, "txn")' /\ \A x \in Driver : x # d => drv'[x] = drv[x]
  BY <1>1 DEF At, TypeOK
<1> QED
  BY <1>1, <1>2, CommitCarries

\* A session that failed needs no carrier; what its step had written has its NOTIFY.
LEMMA StepFaultedCarries ==
  ASSUME CarryInv, TypeOK', NEW d \in Driver, StepFaulted(d) PROVE CarryInv'
<1>s. PICK s : s = drv[d].s
  OBVIOUS
<1>1. TypeOK /\ Ordered
  BY DEF CarryInv
<1>2. /\ s \in Session
      /\ row' = [row EXCEPT ![s] = row'[s]]
      /\ row'[s].status = "failed" /\ row'[s].snap = row[s].snap
      /\ notices' \in {notices, notices + 1}
      /\ version' = version \/ (version' = version + 1 /\ (notices' > 0 \/ ~listening))
      /\ drv' = [drv EXCEPT ![d] = None]
      /\ UNCHANGED <<listening, matched, queue, dirty, missed>>
  BY <1>1, <1>s, FaultedIs
<1>3. version \in Nat /\ notices \in Nat /\ row \in [Session -> Rows] /\ drv \in [Driver -> Jobs \cup {None}]
  BY <1>1 DEF TypeOK
<1>4. /\ \A x \in Session : x # s => row'[x] = row[x]
      /\ drv'[d] = None /\ \A x \in Driver : x # d => drv'[x] = drv[x]
  BY <1>2, <1>3
<1>5. ~Stale(s)'
  BY <1>2 DEF Stale, Mounted
<1>6. Ordered'
  <2>1. ASSUME NEW x \in Session PROVE row'[x].snap <= version'
    <3>1. row[x].snap <= version /\ row[x].snap \in Nat /\ row'[x].snap = row[x].snap
      BY <1>1, <1>2, <1>3, <1>4 DEF Ordered, Rows
    <3> QED
      BY <1>2, <1>3, <3>1
  <2>2. ASSUME NEW x \in Driver, At(x, "txn")'
        PROVE  drv'[x].snap.row.snap <= drv'[x].snap.version /\ drv'[x].snap.version <= version'
    <3>1. drv'[x] = drv[x] /\ At(x, "txn")
      BY <1>4, <2>2 DEF At
    <3>2. drv[x].snap.row.snap <= drv[x].snap.version /\ drv[x].snap.version <= version
          /\ drv[x].snap.version \in Nat
      BY <1>1, <3>1 DEF Ordered, TypeOK, Snaps
    <3> QED
      BY <1>2, <1>3, <3>1, <3>2
  <2> QED
    BY <1>1, <1>2, <2>1, <2>2 DEF Ordered
<1>7. CASE version' # version
  <2>1. notices' > 0 \/ ~listening'
    BY <1>2, <1>7
  <2>2. StaleIsCarried'
    BY <2>1, StaleIs DEF Carried
  <2> QED
    BY <1>6, <2>2 DEF CarryInv
<1>8. CASE version' = version
  <2>1. \A x \in Session : Stale(x)' => Stale(x)
    BY <1>4, <1>5, <1>8 DEF Stale, Mounted
  <2>2. ASSUME NEW x \in Session, NEW w \in Worker, Stale(x)', Coming(w, x) PROVE Carried(x)'
    <3>1. w # d
      BY <1>5, <1>s, <2>2 DEF Coming
    <3>2. drv'[w] = drv[w]
      BY <1>4, <3>1 DEF Driver
    <3>3. Coming(w, x)'
      BY <1>8, <2>2, <3>2 DEF Coming
    <3> QED
      BY <3>3 DEF Carried
  <2>3. \A x \in matched \cup ToSet(queue) : x \in Session /\ Stale(x)' => Carried(x)'
    BY <1>2 DEF Carried
  <2>4. /\ notices > 0 => notices' > 0 \/ ~listening'
        /\ \A x \in Session : Stale(x)' /\ missed[x] # None => missed'[x] # None
        /\ ~listening => ~listening'
    BY <1>2, <1>3
  <2>5. StaleIsCarried'
    BY <2>1, <2>2, <2>3, <2>4, CarriesOn DEF CarryInv
  <2> QED
    BY <1>6, <2>5 DEF CarryInv
<1> QED
  BY <1>7, <1>8

\* A NOTIFY that is dropped, a listener that ends: what was stale then is on record.
LEMMA MissAllCarries ==
  ASSUME TypeOK, NEW why \in Reasons, MissAll(why)
  PROVE  \A x \in Session : Stale(x) => missed'[x] # None
BY Why DEF MissAll

LEMMA ListenCarries ==
  ASSUME CarryInv, TypeOK', Listen PROVE CarryInv'
<1>1. TypeOK /\ Ordered /\ StaleIsCarried
  BY DEF CarryInv
<1>2. CASE Match
  <2>1. UNCHANGED <<version, row, queue, dirty, drv>> /\ matched' = {s \in Session : Subscribed(s)}
    BY <1>2 DEF Match
  <2>2. StaleIsCarried'
    BY <2>1, StaleIs DEF Stale, Subscribed, Mounted, Carried
  <2>3. Ordered'
    BY <1>1, <2>1 DEF Ordered, At
  <2> QED
    BY <2>2, <2>3 DEF CarryInv
<1>3. CASE MatchFails \/ ListenEnds
  <2>1. UNCHANGED <<version, row, queue, dirty, drv>> /\ (MissAll("match") \/ MissAll("deaf"))
    BY <1>3 DEF MatchFails, ListenEnds, index
  <2>2. \A x \in Session : Stale(x) => missed'[x] # None
    BY <1>1, <2>1, MissAllCarries DEF Reasons
  <2>3. StaleIsCarried'
    BY <2>1, <2>2, StaleIs DEF Stale, Mounted, Carried
  <2>4. Ordered'
    BY <1>1, <2>1 DEF Ordered, At
  <2> QED
    BY <2>3, <2>4 DEF CarryInv
<1>4. ASSUME NEW s \in Session, EnqueueNext(s) PROVE CarryInv'
  <2>1. /\ s \in matched /\ matched' = matched \ {s} /\ Enqueue(s)
        /\ UNCHANGED <<version, row, notices, listening, drv>>
    BY <1>4 DEF EnqueueNext
  <2>2. /\ dirty' \subseteq ToSet(queue') /\ ToSet(queue) \subseteq ToSet(queue')
        /\ \A x \in Session : missed[x] # None => missed'[x] # None
        /\ Stale(s) => s \in ToSet(queue') \/ missed'[s] # None
    BY <1>1, <2>1, EnqueueKeeps
  <2>3. \A x \in Session : Stale(x)' <=> Stale(x)
    BY <2>1 DEF Stale, Mounted
  <2>4. \A x \in Session : \A w \in Worker : Coming(w, x)' <=> Coming(w, x)
    BY <2>1 DEF Coming
  <2>5. \A x \in matched \cup ToSet(queue) : x \in Session /\ Stale(x)' => Carried(x)'
    BY <2>1, <2>2, <2>3 DEF Carried
  <2>6. StaleIsCarried'
    BY <1>1, <2>1, <2>2, <2>3, <2>4, <2>5, CarriesOn DEF Carried
  <2>7. Ordered'
    BY <1>1, <2>1, <2>2 DEF Ordered, At
  <2> QED
    BY <2>6, <2>7 DEF CarryInv
<1> QED
  BY <1>2, <1>3, <1>4 DEF Listen

LEMMA WriteElsewhereCarries ==
  ASSUME CarryInv, TypeOK', WriteElsewhere PROVE CarryInv'
<1>1. /\ version' = version + 1 /\ Notify /\ UNCHANGED <<row, listening, index, drv>>
      /\ TypeOK /\ Ordered
  BY DEF WriteElsewhere, CarryInv
<1>2. version \in Nat /\ notices \in Nat /\ row \in [Session -> Rows]
  BY <1>1 DEF TypeOK
<1>3. notices' > 0 \/ ~listening'
  BY <1>1, <1>2 DEF Notify
<1>4. Ordered'
  <2>1. \A s \in Session : row[s].snap \in Nat
    BY <1>2 DEF Rows
  <2>2. \A d \in Driver : At(d, "txn") => drv[d].snap.version \in Nat
    BY <1>1 DEF TypeOK, Snaps
  <2>3. \A s \in Session : row'[s].snap <= version'
    BY <1>1, <1>2, <2>1 DEF Ordered
  <2>4. \A d \in Driver : At(d, "txn")' =>
          drv'[d].snap.row.snap <= drv'[d].snap.version /\ drv'[d].snap.version <= version'
    BY <1>1, <1>2, <2>2 DEF Ordered, At
  <2> QED
    BY <1>1, <2>3, <2>4 DEF Ordered, index
<1> QED
  BY <1>3, <1>4 DEF CarryInv, StaleIsCarried

LEMMA RenderCarries ==
  ASSUME CarryInv, TypeOK', NEW s \in Session, Render(s) PROVE CarryInv'
<1>1. /\ row' = [row EXCEPT ![s] = [row[s] EXCEPT !.status = "mounting", !.snap = version, !.base = version]]
      /\ UNCHANGED <<version, notices, listening, index, drv, missed>> /\ TypeOK /\ Ordered
  BY DEF Render, CarryInv
<1>2. row \in [Session -> Rows] /\ version \in Nat
  BY <1>1 DEF TypeOK
<1>3. /\ row'[s].status = "mounting" /\ row'[s].snap = version
      /\ \A x \in Session : x # s => row'[x] = row[x]
  BY <1>1, <1>2 DEF Rows
<1>4. \A x \in Session : Stale(x)' => Stale(x)
  BY <1>1, <1>3 DEF Stale, Mounted
<1>5. \A x \in Session : \A w \in Worker : Coming(w, x)' <=> Coming(w, x)
  BY <1>1 DEF Coming
<1>6. StaleIsCarried'
  BY <1>1, <1>4, <1>5, CarriesOn DEF CarryInv, Carried, index
<1>7. Ordered'
  BY <1>1, <1>2, <1>3 DEF Ordered, At, index
<1> QED
  BY <1>6, <1>7 DEF CarryInv

LEMMA InsertCarries ==
  ASSUME CarryInv, TypeOK', NEW s \in Session, Insert(s) PROVE CarryInv'
<1>1. /\ row' = [row EXCEPT ![s].status = "sleeping"]
      /\ missed' = IF row[s].snap # version /\ notices = 0 THEN [missed EXCEPT ![s] = "mount"] ELSE missed
      /\ UNCHANGED <<version, notices, listening, index, drv>> /\ TypeOK /\ Ordered
  BY DEF Insert, CarryInv
<1>2. /\ row \in [Session -> Rows] /\ version \in Nat /\ notices \in Nat
      /\ missed \in [Session -> Reasons \cup {None}] /\ "mount" # None
  BY <1>1, Why DEF TypeOK, Reasons
<1>3. row'[s].snap = row[s].snap /\ \A x \in Session : x # s => row'[x] = row[x]
  BY <1>1, <1>2 DEF Rows
<1>4. ASSUME NEW x \in Session, Stale(x)' PROVE Carried(x)'
  <2>1. CASE x = s
    <3>1. row[s].snap # version
      BY <1>1, <1>3, <1>4, <2>1 DEF Stale
    <3>2. notices' > 0 \/ missed'[s] # None
      BY <1>1, <1>2, <3>1
    <3> QED
      BY <2>1, <3>2 DEF Carried
  <2>2. CASE x # s
    <3>1. Stale(x) /\ missed'[x] = missed[x]
      BY <1>1, <1>2, <1>3, <1>4, <2>2 DEF Stale, Mounted
    <3>2. Carried(x)
      BY <3>1, StaleIs DEF CarryInv
    <3> QED
      BY <1>1, <3>1, <3>2 DEF Carried, Coming, index
  <2> QED
    BY <2>1, <2>2
<1>5. Ordered'
  BY <1>1, <1>2, <1>3 DEF Ordered, At, index
<1> QED
  BY <1>4, <1>5, StaleIs DEF CarryInv

LEMMA SweepCarries ==
  ASSUME CarryInv, TypeOK', NEW s \in Session, Sweep(s) PROVE CarryInv'
<1>1. /\ row' = [row EXCEPT ![s].status = "gone"] /\ matched' = matched \ {s}
      /\ UNCHANGED <<version, notices, listening, queue, dirty, drv, missed>> /\ TypeOK /\ Ordered
  BY DEF Sweep, CarryInv
<1>2. row \in [Session -> Rows]
  BY <1>1 DEF TypeOK
<1>3. /\ row'[s].snap = row[s].snap /\ row'[s].status = "gone"
      /\ \A x \in Session : x # s => row'[x] = row[x]
  BY <1>1, <1>2 DEF Rows
<1>4. \A x \in Session : Stale(x)' => Stale(x) /\ x # s
  BY <1>1, <1>3 DEF Stale, Mounted
<1>5. \A x \in Session : \A w \in Worker : Coming(w, x)' <=> Coming(w, x)
  BY <1>1 DEF Coming
<1>6. StaleIsCarried'
  BY <1>1, <1>4, <1>5, CarriesOn DEF CarryInv, Carried
<1>7. Ordered'
  BY <1>1, <1>2, <1>3 DEF Ordered, At
<1> QED
  BY <1>6, <1>7 DEF CarryInv

LEMMA RestartCarries ==
  ASSUME CarryInv, TypeOK', Restart PROVE CarryInv'
<1>1. /\ row' = [s \in Session |-> IF row[s].status = "mounting" THEN [row[s] EXCEPT !.status = "none"]
                                   ELSE row[s]]
      /\ drv' = [d \in Driver |-> None] /\ dirty' = {} /\ version' = version /\ MissAll("restart")
      /\ TypeOK /\ Ordered
  BY DEF Restart, CarryInv
<1>2. \A s \in Session : row[s] \in Rows
  BY <1>1 DEF TypeOK
<1>3. \A s \in Session : row'[s].snap = row[s].snap /\ (Mounted(s)' => Mounted(s))
  BY <1>1, <1>2 DEF Mounted, Rows
<1>4. \A s \in Session : Stale(s) => missed'[s] # None
  BY <1>1, MissAllCarries DEF Reasons
<1>5. StaleIsCarried'
  BY <1>1, <1>3, <1>4, StaleIs DEF Stale, Carried
<1>6. Ordered'
  BY <1>1, <1>3 DEF Ordered, At
<1> QED
  BY <1>5, <1>6 DEF CarryInv

LEMMA CarryInit == Init => CarryInv
<1> SUFFICES ASSUME Init PROVE CarryInv
  OBVIOUS
<1>1. TypeOK
  BY TypeInit
<1>2. Ordered
  BY DEF Init, Ordered, NewRow, At
<1>3. StaleIsCarried
  BY StaleIs DEF Init, Stale, Mounted, NewRow
<1> QED
  BY <1>1, <1>2, <1>3 DEF CarryInv

LEMMA CarryStep == ASSUME CarryInv, [Next]_vars PROVE CarryInv'
<1>1. TypeOK'
  BY TypeStep DEF CarryInv
<1>2. ASSUME NEW s \in Session, Render(s) \/ Insert(s) \/ Sweep(s) PROVE CarryInv'
  BY <1>1, <1>2, RenderCarries, InsertCarries, SweepCarries
<1>3. ASSUME NEW s \in Watched, Browse(s) PROVE CarryInv'
  <2>1. Quiet
    BY <1>3 DEF Browse, Connect, Disconnect, Receive, ResyncRead, ResyncAdopt, ResyncRejected
  <2> QED
    BY SMTT(60), <1>1, <2>1, NothingMoves DEF Quiet
<1>4. ASSUME NEW s \in Watched, NEW h \in Handler, Post(h, s) PROVE CarryInv'
  BY <1>1, <1>4, PostCarries
<1>5. ASSUME NEW w \in Worker, Pop(w) \/ ReadSeq(w) PROVE CarryInv'
  BY <1>1, <1>5, PopCarries, ReadSeqCarries
<1>6. ASSUME NEW d \in Driver, ClaimLost(d) \/ StepFails(d) PROVE CarryInv'
  <2>1. drv[d] # None /\ (Dropped(d) \/ Failed(d)) /\ UNCHANGED <<version, row, notices, listening>>
    BY <1>6 DEF ClaimLost, StepFails, At
  <2> QED
    BY <1>1, <2>1, EndCarries
<1>7. ASSUME NEW d \in Driver, Drive(d) PROVE CarryInv'
  BY <1>1, <1>6, <1>7, ArmCarries, BeginCarries, StepCarries, StepUnansweredCarries, RetryCarries,
     StepFaultedCarries, PushCarries DEF Drive
<1>8. CASE UNCHANGED vars
  BY <1>1, <1>8, NothingMoves DEF vars
<1> QED
  BY <1>1, <1>2, <1>3, <1>4, <1>5, <1>7, <1>8, ListenCarries, WriteElsewhereCarries,
     RestartCarries DEF Next

\* Dependency-exact invalidation: a session whose view is stale has its refresh in the channel,
\* in the listener, in the queue or in a worker's hands, or the place where it was given up is
\* known, or the listener is dead, or a step of the session failed in a way that is committed;
\* however mounts, writes, drives and faults overlap.
THEOREM RefreshIsCarried == Spec => []StaleIsCarried
<1>1. Init => CarryInv
  BY CarryInit
<1>2. CarryInv /\ [Next]_vars => CarryInv'
  BY CarryStep
<1>3. CarryInv => StaleIsCarried
  BY DEF CarryInv
<1> QED
  BY <1>1, <1>2, <1>3, PTL DEF Spec

----------------------------------------------------------------------------
(* A quiet browser agrees with its session *)

\* The frames of s that are committed and not yet pushed.
Flight(s) == {drv[d].frame : d \in {e \in Driver : At(e, "push") /\ drv[e].s = s}}

\* No frame is ahead of its row, and the last one shows what the row shows.
Good(f, s) == /\ 1 <= f.seq /\ f.seq <= row[s].seq
              /\ f.seq = row[s].seq => f.to = Shown(row[s].snap)

\* The view is that of the row, or the row is of older data.
Right(v, s) == v = Shown(row[s].snap) \/ row[s].snap # version

\* Frames, cursors and answers on their way to a browser never run ahead of the row.
FramesOK(s) ==
  /\ \A f \in Flight(s) : Good(f, s)
  /\ \A i \in DOMAIN ring[s] : Good(ring[s][i], s)
  /\ row[s].status \in {"none", "mounting"} => row[s].seq = 0 /\ page[s] = None
  /\ page[s] # None =>
       /\ \A i \in DOMAIN page[s].back : Good(page[s].back[i], s)
       /\ \A i \in DOMAIN page[s].live : Good(page[s].live[i], s)
       /\ page[s].last <= row[s].seq /\ page[s].seq <= row[s].seq
       /\ Mounted(s) /\ ~page[s].conn => page[s].back = <<>> /\ page[s].live = <<>>
       /\ page[s].sync = "answered" =>
            /\ page[s].fresh.seq <= row[s].seq
            /\ page[s].fresh.seq = row[s].seq /\ page[s].fresh.view # Wiped => Right(page[s].fresh.view, s)

TopFlies(s) == \E f \in Flight(s) : f.seq = row[s].seq
RingTop(s) == ring[s] # <<>> /\ Last(ring[s]).seq = row[s].seq
Pending(s) == page[s].back \o page[s].live

\* Unless its last frame is still to be pushed, it closes the ring and the stream, or the
\* browser has had it.
InOrder(s) ==
  /\ Flight(s) # {} => RingTop(s)
  /\ page[s].conn => IF Pending(s) = <<>> THEN page[s].last = row[s].seq
                     ELSE Last(Pending(s)).seq = row[s].seq
  /\ (page[s].last = row[s].seq /\ Pending(s) = <<>>) \/ RingTop(s)

StreamOK(s) ==
  page[s] # None /\ astray[s] = None /\ Mounted(s) =>
    /\ page[s].last <= page[s].seq
    /\ page[s].sync = "no" /\ page[s].last = row[s].seq => Right(page[s].view, s)
    /\ ~TopFlies(s) => InOrder(s)

StreamInv == CarryInv /\ \A s \in Session : FramesOK(s) /\ StreamOK(s)

\* A session that a step does not touch, but for the data that may have moved on.
LEMMA SameSession ==
  ASSUME StreamInv, TypeOK', NEW s \in Session, Flight(s)' = Flight(s),
         ring'[s] = ring[s], page'[s] = page[s], astray'[s] = astray[s],
         row'[s].seq = row[s].seq, row'[s].snap = row[s].snap, Mounted(s)' <=> Mounted(s),
         row'[s].status \in {"none", "mounting"} => row[s].status \in {"none", "mounting"},
         version' \in {version, version + 1}
  PROVE  FramesOK(s)' /\ StreamOK(s)'
<1>1. FramesOK(s) /\ StreamOK(s) /\ row[s].snap <= version /\ TypeOK
  BY DEF StreamInv, CarryInv, Ordered
<1>2. row[s].snap \in Nat /\ version \in Nat
  BY <1>1 DEF TypeOK, Rows
<1>3. row[s].snap # version => row'[s].snap # version'
  BY <1>1, <1>2
<1>4. \A f : Good(f, s)' <=> Good(f, s)
  BY DEF Good
<1>5. \A v : Right(v, s) => Right(v, s)'
  BY <1>3 DEF Right
<1>6. FramesOK(s)'
  BY <1>1, <1>4, <1>5 DEF FramesOK
<1>7. (TopFlies(s)' <=> TopFlies(s)) /\ (InOrder(s)' <=> InOrder(s))
  BY DEF TopFlies, InOrder, RingTop, Pending
<1>8. StreamOK(s)'
  BY <1>1, <1>5, <1>7 DEF StreamOK
<1> QED
  BY <1>6, <1>8

\* Drivers that push go on pushing, and no other begins.
LEMMA SameFlight ==
  ASSUME \A d \in Driver : /\ At(d, "push")' <=> At(d, "push")
                           /\ At(d, "push") => drv'[d] = drv[d],
         NEW s
  PROVE  Flight(s)' = Flight(s)
<1>1. \A d \in Driver : (At(d, "push") /\ drv[d].s = s)' <=> (At(d, "push") /\ drv[d].s = s)
  OBVIOUS
<1> QED
  BY <1>1 DEF Flight

\* A step that commits nothing and pushes nothing.
LEMMA QuietStep ==
  ASSUME StreamInv, CarryInv', UNCHANGED <<ring, page, astray>>,
         \A s \in Session : /\ row'[s].seq = row[s].seq /\ row'[s].snap = row[s].snap
                            /\ Mounted(s)' <=> Mounted(s)
                            /\ row'[s].status \in {"none", "mounting"} => row[s].status \in {"none", "mounting"},
         version' \in {version, version + 1},
         \A d \in Driver : /\ At(d, "push")' <=> At(d, "push")
                           /\ At(d, "push") => drv'[d] = drv[d]
  PROVE  StreamInv'
<1>1. ASSUME NEW s \in Session PROVE FramesOK(s)' /\ StreamOK(s)'
  <2>1. Flight(s)' = Flight(s) /\ TypeOK'
    BY SameFlight DEF CarryInv
  <2> QED
    BY <2>1, SameSession
<1> QED
  BY <1>1 DEF StreamInv

\* The driver that has just been changed is not at its push, and was not.
LEMMA OneDriver ==
  ASSUME TypeOK, NEW d \in Driver, NEW j, drv' = [drv EXCEPT ![d] = j],
         ~At(d, "push"), j # None => j.pc # "push"
  PROVE  \A x \in Driver : /\ At(x, "push")' <=> At(x, "push")
                           /\ At(x, "push") => drv'[x] = drv[x]
<1>1. drv'[d] = j /\ \A x \in Driver : x # d => drv'[x] = drv[x]
  BY DEF TypeOK
<1> QED
  BY <1>1 DEF At

LEMMA DriversQuiet ==
  ASSUME StreamInv, CarryInv', NEW d \in Driver,
         \/ \E s \in Watched : d \in Handler /\ Post(d, s)
         \/ d \in Worker /\ (Pop(d) \/ ReadSeq(d))
         \/ Arm(d) \/ Begin(d) \/ ClaimLost(d) \/ Retry(d) \/ StepFails(d)
  PROVE  StreamInv'
<1>1. TypeOK
  BY DEF StreamInv, CarryInv
<1>2. UNCHANGED <<version, ring, page, astray>>
  BY DEF Post, Pop, ReadSeq, Arm, Begin, ClaimLost, Retry, StepFails
<1>3. \E j : drv' = [drv EXCEPT ![d] = j] /\ (j # None => j.pc # "push") /\ ~At(d, "push")
  <2>1. CASE \E s \in Watched : d \in Handler /\ Post(d, s)
    BY <2>1 DEF Post, Job, At
  <2>2. CASE d \in Worker /\ Pop(d)
    BY <2>2 DEF Pop, Job, At
  <2>3. CASE drv[d] # None /\ drv[d].pc # "push" /\ (Dropped(d) \/ Failed(d))
    BY <1>1, <2>3, EndTypes DEF At
  <2>4. CASE d \in Worker /\ ReadSeq(d)
    <3>1. drv[d] \in Jobs /\ drv[d].pc = "read" /\ drv[d] # None
      BY <1>1, <2>4, JobOf DEF ReadSeq, At
    <3>2. CASE Mounted(drv[d].s)
      BY <2>4, <3>1, <3>2 DEF ReadSeq, At, Jobs
    <3>3. CASE ~Mounted(drv[d].s)
      BY <2>3, <2>4, <3>1, <3>3 DEF ReadSeq
    <3> QED
      BY <3>2, <3>3
  <2>5. CASE Arm(d)
    <3>1. drv[d] \in Jobs /\ drv[d].pc = "arm" /\ drv[d] # None
      BY <1>1, <2>5, JobOf DEF Arm, At
    <3>2. CASE drv' = [drv EXCEPT ![d].pc = "begin"]
      BY <3>1, <3>2 DEF At, Jobs
    <3>3. CASE Dropped(d)
      BY <2>3, <3>1, <3>3
    <3> QED
      BY <2>5, <3>2, <3>3 DEF Arm
  <2>6. CASE Begin(d)
    <3>1. drv[d] \in Jobs /\ drv[d].pc = "begin" /\ drv[d] # None
      BY <1>1, <2>6, JobOf DEF Begin, At
    <3> QED
      BY <2>6, <3>1 DEF Begin, At, Jobs
  <2>7. CASE ClaimLost(d)
    BY <2>3, <2>7 DEF ClaimLost, At
  <2>8. CASE StepFails(d)
    BY <2>3, <2>8 DEF StepFails
  <2>9. CASE Retry(d)
    <3>1. drv[d] \in Jobs /\ drv[d].pc = "txn" /\ drv[d] # None
      BY <1>1, <2>9, JobOf DEF Retry, At
    <3>2. CASE drv[d].tries + 1 < MaxTries
      <4> DEFINE k == drv[d].tries + 1
                 j == [drv[d] EXCEPT !.pc = "begin", !.tries = k, !.snap = None]
      <4>1. drv' = [drv EXCEPT ![d] = j]
        BY <2>9, <3>2 DEF Retry
      <4> HIDE DEF k
      <4>2. j.pc = "begin"
        BY <3>1 DEF Jobs
      <4> HIDE DEF j
      <4> QED
        BY <3>1, <4>1, <4>2 DEF At
    <3>3. CASE ~(drv[d].tries + 1 < MaxTries)
      <4>1. Failed(d)
        BY Zenon, <2>9, <3>3 DEF Retry
      <4> QED
        BY <2>3, <3>1, <4>1
    <3> QED
      BY <3>2, <3>3
  <2> QED
    BY <2>1, <2>2, <2>4, <2>5, <2>6, <2>7, <2>8, <2>9
<1>4. \A x \in Driver : /\ At(x, "push")' <=> At(x, "push")
                        /\ At(x, "push") => drv'[x] = drv[x]
  BY <1>1, <1>3, OneDriver
<1>5. ASSUME NEW s \in Session
      PROVE  /\ row'[s].seq = row[s].seq /\ row'[s].snap = row[s].snap
             /\ Mounted(s)' <=> Mounted(s)
             /\ row'[s].status \in {"none", "mounting"} => row[s].status \in {"none", "mounting"}
  <2>1. CASE row' = row
    BY <2>1 DEF Mounted
  <2>2. CASE Arm(d) /\ Mounted(drv[d].s) /\ row' = [row EXCEPT ![drv[d].s].status = "ready"]
    <3>1. drv[d].s \in Session /\ row[s] \in Rows
      BY <1>1, <2>2, JobOf DEF Arm, At, TypeOK
    <3>2. CASE s = drv[d].s
      BY <1>1, <2>2, <3>1, <3>2 DEF Mounted, TypeOK, Rows
    <3>3. CASE s # drv[d].s
      BY <1>1, <2>2, <3>1, <3>3 DEF Mounted, TypeOK
    <3> QED
      BY <3>2, <3>3
  <2>3. row' = row \/ (Arm(d) /\ Mounted(drv[d].s) /\ row' = [row EXCEPT ![drv[d].s].status = "ready"])
    BY DEF Post, Pop, ReadSeq, Arm, Begin, ClaimLost, Retry, StepFails
  <2> QED
    BY <2>1, <2>2, <2>3
<1>6. version' \in {version, version + 1}
  BY <1>2
<1> QED
  BY <1>2, <1>4, <1>5, <1>6, QuietStep

LEMMA ListenQuiet ==
  ASSUME StreamInv, CarryInv', Listen \/ WriteElsewhere \/ UNCHANGED vars PROVE StreamInv'
<1>1. UNCHANGED <<row, ring, page, astray, drv>> /\ version' \in {version, version + 1}
  BY DEF Listen, Match, MatchFails, ListenEnds, EnqueueNext, WriteElsewhere, vars
<1> QED
  BY <1>1, QuietStep DEF At, Mounted

\* A step of the browser s: it has one new page, and every other session is as it was.
LEMMA BrowserStep ==
  ASSUME StreamInv, CarryInv', NEW s \in Session, Quiet,
         NEW n, page' = [page EXCEPT ![s] = n],
         NEW why, astray' = [astray EXCEPT ![s] = why],
         FramesOK(s)', StreamOK(s)'
  PROVE  StreamInv'
<1>1. UNCHANGED <<version, row, ring, drv>> /\ TypeOK /\ TypeOK'
  BY DEF Quiet, StreamInv, CarryInv
<1>2. ASSUME NEW x \in Session, x # s PROVE FramesOK(x)' /\ StreamOK(x)'
  <2>1. page'[x] = page[x] /\ astray'[x] = astray[x]
    BY <1>1, <1>2 DEF TypeOK
  <2>2. Flight(x)' = Flight(x)
    BY <1>1 DEF Flight, At
  <2> QED
    BY <1>1, <2>1, <2>2, SameSession DEF Mounted
<1> QED
  BY <1>2 DEF StreamInv

\* What such a step leaves of what the two invariants of s are about.
LEMMA BrowserKeeps ==
  ASSUME Quiet, NEW s \in Session
  PROVE  /\ Flight(s)' = Flight(s) /\ ring'[s] = ring[s] /\ row'[s] = row[s] /\ version' = version
         /\ Mounted(s)' <=> Mounted(s)
         /\ RingTop(s)' <=> RingTop(s)
         /\ TopFlies(s)' <=> TopFlies(s)
         /\ \A f : Good(f, s)' <=> Good(f, s)
         /\ \A v : Right(v, s)' <=> Right(v, s)
<1>1. UNCHANGED <<version, row, ring, drv>>
  BY DEF Quiet
<1>2. Flight(s)' = Flight(s)
  BY <1>1 DEF Flight, At
<1> QED
  BY <1>1, <1>2 DEF Mounted, RingTop, TopFlies, Good, Right

LEMMA ConnectStreams ==
  ASSUME StreamInv, CarryInv', NEW s \in Session, Connect(s) PROVE StreamInv'
<1>1. TypeOK /\ FramesOK(s) /\ StreamOK(s)
  BY DEF StreamInv, CarryInv
<1>2. page[s] # None /\ ~page[s].conn /\ Quiet /\ UNCHANGED <<faults, astray>>
  BY DEF Connect
<1>3. /\ page[s] \in Pages /\ ring[s] \in Seq(Frames) /\ row[s] \in Rows
      /\ page \in [Session -> Pages \cup {None}] /\ astray \in [Session -> Reasons \cup {None}]
  BY <1>1, <1>2, PageStays DEF TypeOK
<1>4. PICK back \in Past(ring[s], page[s].last) :
        LET joined == [page[s] EXCEPT !.conn = TRUE, !.back = back]
            stale  == ring[s] # <<>> /\ page[s].last + 1 < ring[s][1].seq
        IN page' = [page EXCEPT ![s] = IF stale THEN Asking(joined) ELSE joined]
  BY DEF Connect
<1> DEFINE joined == [page[s] EXCEPT !.conn = TRUE, !.back = back]
<1>5. /\ back \in Seq(Frames)
      /\ \A j \in DOMAIN back : \E i \in DOMAIN ring[s] : back[j] = ring[s][i] /\ ring[s][i].seq > page[s].last
      /\ (\A i \in DOMAIN ring[s] : ring[s][i].seq <= page[s].last) => back = <<>>
      /\ ring[s] # <<>> /\ Last(ring[s]).seq > page[s].last => back # <<>> /\ Last(back) = Last(ring[s])
  BY <1>3, <1>4, PastIs DEF Pages
<1>6. /\ joined \in Pages /\ joined.conn = TRUE /\ joined.back = back /\ joined.live = page[s].live
      /\ joined.last = page[s].last /\ joined.seq = page[s].seq /\ joined.view = page[s].view
      /\ joined.sync = page[s].sync /\ joined.fresh = page[s].fresh
  BY <1>3, <1>5 DEF Pages
<1>7. PICK n \in {joined, Asking(joined)} : page' = [page EXCEPT ![s] = n]
  BY <1>4
<1> HIDE DEF joined
<1>8. /\ n \in Pages /\ n.conn = TRUE /\ n.back = back /\ n.live = page[s].live
      /\ n.last = page[s].last /\ n.seq = page[s].seq /\ n.view = page[s].view /\ n.fresh = page[s].fresh
      /\ n.sync = "no" => page[s].sync = "no"
      /\ n.sync = "answered" => page[s].sync = "answered"
  BY <1>6, <1>7, AskingIs
<1>9. page'[s] = n /\ n # None /\ astray'[s] = astray[s] /\ astray' = [astray EXCEPT ![s] = astray[s]]
  BY <1>2, <1>3, <1>7, <1>8, FanoutAssumption
<1>10. /\ Flight(s)' = Flight(s) /\ ring'[s] = ring[s] /\ row'[s] = row[s]
       /\ Mounted(s)' <=> Mounted(s)
       /\ RingTop(s)' <=> RingTop(s)
       /\ TopFlies(s)' <=> TopFlies(s)
       /\ \A f : Good(f, s)' <=> Good(f, s)
       /\ \A v : Right(v, s)' <=> Right(v, s)
  BY <1>2, BrowserKeeps
<1>11. FramesOK(s)'
  <2>1. \A i \in DOMAIN back : Good(back[i], s)
    BY <1>1, <1>5 DEF FramesOK
  <2> QED
    BY <1>1, <1>2, <1>8, <1>9, <1>10, <2>1 DEF FramesOK
<1>12. StreamOK(s)'
  <2> SUFFICES ASSUME astray[s] = None, Mounted(s)
               PROVE  /\ n.last <= n.seq
                      /\ n.sync = "no" /\ n.last = row[s].seq => Right(n.view, s)
                      /\ ~TopFlies(s) => InOrder(s)'
    BY <1>9, <1>10 DEF StreamOK
  <2>1. /\ page[s].last <= page[s].seq
        /\ page[s].sync = "no" /\ page[s].last = row[s].seq => Right(page[s].view, s)
        /\ ~TopFlies(s) => InOrder(s)
    BY <1>1, <1>2 DEF StreamOK
  <2>2. page[s].live = <<>> /\ page[s].back = <<>>
    BY <1>1, <1>2 DEF FramesOK
  <2>3. Pending(s)' = back
    <3>1. n.back = back /\ n.live = <<>>
      BY <1>8, <2>2
    <3>2. back \o <<>> = back
      BY <1>5, ConcatEmptySeq
    <3> QED
      BY <1>9, <3>1, <3>2 DEF Pending
  <2>4. ASSUME ~TopFlies(s) PROVE InOrder(s)'
    <3>1. InOrder(s)
      BY <2>1, <2>4
    <3>2. CASE page[s].last = row[s].seq
      <4>1. back = <<>>
        BY <1>1, <1>5, <3>2 DEF FramesOK, Good
      <4> QED
        BY <1>8, <1>9, <1>10, <2>3, <3>1, <3>2, <4>1 DEF InOrder
    <3>3. CASE page[s].last # row[s].seq
      <4>1. RingTop(s)
        BY <3>1, <3>3 DEF InOrder
      <4>2. page[s].last < row[s].seq
        <5>1. page[s].last <= row[s].seq /\ page[s].last \in Nat /\ row[s].seq \in Nat
          BY <1>1, <1>2, <1>3 DEF FramesOK, Pages, Rows
        <5> QED
          BY <3>3, <5>1
      <4>3. back # <<>> /\ Last(back).seq = row[s].seq
        BY <1>5, <4>1, <4>2 DEF RingTop
      <4> QED
        BY <1>8, <1>9, <1>10, <2>3, <3>1, <4>1, <4>3 DEF InOrder
    <3> QED
      BY <3>2, <3>3
  <2> QED
    BY <1>8, <2>1, <2>4
<1> QED
  BY <1>2, <1>7, <1>9, <1>11, <1>12, BrowserStep

LEMMA DisconnectStreams ==
  ASSUME StreamInv, CarryInv', NEW s \in Session, Disconnect(s) PROVE StreamInv'
<1> DEFINE n == [page[s] EXCEPT !.conn = FALSE, !.back = <<>>, !.live = <<>>]
<1>1. TypeOK /\ FramesOK(s) /\ StreamOK(s)
  BY DEF StreamInv, CarryInv
<1>2. page[s] # None /\ Quiet /\ UNCHANGED astray /\ page' = [page EXCEPT ![s] = n]
  BY DEF Disconnect
<1>3. /\ page[s] \in Pages /\ page \in [Session -> Pages \cup {None}]
      /\ astray \in [Session -> Reasons \cup {None}]
  BY <1>1, <1>2, PageStays DEF TypeOK
<1>4. /\ n \in Pages /\ n.conn = FALSE /\ n.back = <<>> /\ n.live = <<>> /\ n.last = page[s].last
      /\ n.seq = page[s].seq /\ n.view = page[s].view /\ n.sync = page[s].sync /\ n.fresh = page[s].fresh
  BY <1>3, EmptySeq DEF Pages
<1> HIDE DEF n
<1>5. page'[s] = n /\ astray'[s] = astray[s] /\ astray' = [astray EXCEPT ![s] = astray[s]]
  BY <1>2, <1>3
<1>6. /\ Flight(s)' = Flight(s) /\ ring'[s] = ring[s] /\ row'[s] = row[s]
      /\ Mounted(s)' <=> Mounted(s)
      /\ RingTop(s)' <=> RingTop(s)
      /\ TopFlies(s)' <=> TopFlies(s)
      /\ \A f : Good(f, s)' <=> Good(f, s)
      /\ \A v : Right(v, s)' <=> Right(v, s)
  BY <1>2, BrowserKeeps
<1>7. DOMAIN <<>> = {} /\ <<>> \o <<>> = <<>>
  BY EmptySeq, ConcatEmptySeq, LenProperties
<1>8. FramesOK(s)'
  BY <1>1, <1>2, <1>4, <1>5, <1>6, <1>7 DEF FramesOK
<1>9. Pending(s)' = <<>>
  BY <1>4, <1>5, <1>7 DEF Pending
<1>10. InOrder(s) => InOrder(s)'
  BY <1>4, <1>5, <1>6, <1>9 DEF InOrder
<1>11. StreamOK(s)'
  BY <1>1, <1>2, <1>4, <1>5, <1>6, <1>10 DEF StreamOK
<1> QED
  BY <1>2, <1>5, <1>8, <1>11, BrowserStep

LEMMA ReceiveStreams ==
  ASSUME StreamInv, CarryInv', NEW s \in Session, Receive(s) PROVE StreamInv'
<1>1. TypeOK /\ FramesOK(s) /\ StreamOK(s)
  BY DEF StreamInv, CarryInv
<1>p. PICK p : p = page[s]
  OBVIOUS
<1>q. PICK q : q = p.back \o p.live
  OBVIOUS
<1>f. PICK f : f = Head(q)
  OBVIOUS
<1>2. /\ p \in Pages /\ q # <<>> /\ Quiet /\ p # None
      /\ astray' = [astray EXCEPT ![s] = IF f.seq = row[s].seq /\ ~Pushing(s) /\ Len(q) = 1
                                         THEN None ELSE astray[s]]
  BY <1>1, <1>p, <1>q, <1>f, ReceiveIs, FanoutAssumption
<1>3. PICK n \in {Taken(p), Asking(Taken(p))} :
        /\ page' = [page EXCEPT ![s] = n]
        /\ n.sync = "no" => n = Taken(p) /\ Taken(p).view = f.to
  BY <1>1, <1>p, <1>q, <1>f, ReceiveIs
<1>4. page \in [Session -> Pages \cup {None}] /\ astray \in [Session -> Reasons \cup {None}] /\ row[s] \in Rows
  BY <1>1 DEF TypeOK
<1>5. /\ f \in Frames
      /\ (\E i \in DOMAIN p.back : f = p.back[i]) \/ (\E i \in DOMAIN p.live : f = p.live[i])
      /\ Taken(p).back \o Taken(p).live = Tail(q)
      /\ \A i \in DOMAIN Taken(p).back : \E j \in DOMAIN p.back : Taken(p).back[i] = p.back[j]
      /\ \A i \in DOMAIN Taken(p).live : \E j \in DOMAIN p.live : Taken(p).live[i] = p.live[j]
  BY <1>2, <1>q, <1>f, PendingIs
<1>6. /\ Taken(p) \in Pages /\ Taken(p).seq = f.seq /\ Taken(p).last = f.seq
      /\ Taken(p).conn = p.conn /\ Taken(p).sync = p.sync /\ Taken(p).fresh = p.fresh
  BY <1>2, <1>q, <1>f, TakenIs
<1>7. /\ n \in Pages /\ n.seq = f.seq /\ n.last = f.seq /\ n.conn = p.conn /\ n.fresh = p.fresh
      /\ n.back = Taken(p).back /\ n.live = Taken(p).live
      /\ n.sync = "no" => n.view = f.to
      /\ n.sync = "answered" => p.sync = "answered"
  BY <1>3, <1>6, AskingIs
<1>8. page'[s] = n
  BY <1>3, <1>4
<1>9. astray'[s] = IF f.seq = row[s].seq /\ ~Pushing(s) /\ Len(q) = 1 THEN None ELSE astray[s]
  BY <1>2, <1>4
<1>10. /\ Flight(s)' = Flight(s) /\ ring'[s] = ring[s] /\ row'[s] = row[s]
       /\ Mounted(s)' <=> Mounted(s)
       /\ RingTop(s)' <=> RingTop(s)
       /\ TopFlies(s)' <=> TopFlies(s)
       /\ \A g : Good(g, s)' <=> Good(g, s)
       /\ \A v : Right(v, s)' <=> Right(v, s)
  BY <1>2, BrowserKeeps
<1>11. /\ \A i \in DOMAIN p.back : Good(p.back[i], s)
       /\ \A i \in DOMAIN p.live : Good(p.live[i], s)
       /\ Mounted(s) /\ ~p.conn => p.back = <<>> /\ p.live = <<>>
       /\ p.sync = "answered" => /\ p.fresh.seq <= row[s].seq
                                 /\ p.fresh.seq = row[s].seq /\ p.fresh.view # Wiped
                                      => Right(p.fresh.view, s)
       /\ row[s].status \notin {"none", "mounting"}
  BY <1>1, <1>2, <1>p DEF FramesOK
<1>12. Good(f, s)
  BY <1>5, <1>11
<1>13. Mounted(s) => p.conn
  <2>1. p.back = <<>> /\ p.live = <<>> => q = <<>>
    BY <1>q, ConcatEmptySeq
  <2> QED
    BY <1>2, <1>11, <2>1
<1>14. FramesOK(s)'
  <2>1. \A i \in DOMAIN n.back : Good(n.back[i], s)
    BY <1>5, <1>7, <1>11
  <2>2. \A i \in DOMAIN n.live : Good(n.live[i], s)
    BY <1>5, <1>7, <1>11
  <2>3. f.seq <= row[s].seq
    BY <1>12 DEF Good
  <2> QED
    BY <1>1, <1>7, <1>8, <1>10, <1>11, <1>13, <2>1, <2>2, <2>3 DEF FramesOK
<1>15. Pending(s)' = Tail(q)
  BY <1>5, <1>7, <1>8 DEF Pending
<1>16. /\ q \in Seq(Frames) /\ Len(q) \in Nat /\ 1 <= Len(q) /\ f = q[1] /\ Last(q) = q[Len(q)]
       /\ Tail(q) \in Seq(Frames) /\ Len(Tail(q)) = Len(q) - 1
       /\ \A i \in 1..(Len(q) - 1) : Tail(q)[i] = q[i + 1]
  <2>1. q \in Seq(Frames)
    BY <1>2, <1>q, ConcatProperties DEF Pages
  <2> QED
    BY <1>2, <1>f, <2>1, StreamIs
<1>17. StreamOK(s)'
  <2> SUFFICES ASSUME astray'[s] = None, Mounted(s)
               PROVE  /\ n.last <= n.seq
                      /\ n.sync = "no" /\ n.last = row[s].seq => Right(n.view, s)
                      /\ ~TopFlies(s) => InOrder(s)'
    BY <1>8, <1>10 DEF StreamOK
  <2>1. n.last <= n.seq
    BY <1>5, <1>7 DEF Frames
  <2>2. n.sync = "no" /\ n.last = row[s].seq => Right(n.view, s)
    BY <1>7, <1>12 DEF Good, Right
  <2>3. CASE f.seq = row[s].seq /\ ~Pushing(s) /\ Len(q) = 1
    <3>1. Tail(q) = <<>>
      BY <1>16, <2>3, StreamIs
    <3>2. Flight(s) = {}
      BY <2>3 DEF Flight, Pushing
    <3>3. InOrder(s)'
      BY <1>7, <1>8, <1>10, <1>15, <2>3, <3>1, <3>2 DEF InOrder
    <3> QED
      BY <2>1, <2>2, <3>3
  <2>4. CASE ~(f.seq = row[s].seq /\ ~Pushing(s) /\ Len(q) = 1)
    <3>1. StreamOK(s) /\ astray[s] = None
      BY <1>1, <1>9, <2>4
    <3>2. ASSUME ~TopFlies(s) PROVE InOrder(s)'
      <4>1. InOrder(s) /\ Pending(s) = q
        BY <1>2, <1>p, <1>q, <3>1, <3>2 DEF StreamOK, Pending
      <4>2. RingTop(s) /\ Last(q).seq = row[s].seq
        BY <1>2, <1>p, <1>13, <4>1 DEF InOrder
      <4>3. CASE Len(q) = 1
        <5>1. Tail(q) = <<>> /\ f.seq = row[s].seq
          BY <1>16, <4>2, <4>3, StreamIs
        <5> QED
          BY <1>7, <1>8, <1>10, <1>15, <4>2, <5>1 DEF InOrder
      <4>4. CASE Len(q) # 1
        <5>1. Len(Tail(q)) # 0 /\ Len(q) - 1 \in 1..(Len(q) - 1) /\ (Len(q) - 1) + 1 = Len(q)
          BY <1>16, <4>4
        <5>2. Tail(q) # <<>> /\ Last(Tail(q)) = Tail(q)[Len(q) - 1]
          BY <1>16, <5>1, StreamIs
        <5>3. Last(Tail(q)) = Last(q)
          BY <1>16, <5>1, <5>2
        <5> QED
          BY <1>8, <1>10, <1>15, <4>2, <5>2, <5>3 DEF InOrder
      <4> QED
        BY <4>3, <4>4
    <3> QED
      BY <2>1, <2>2, <3>2
  <2> QED
    BY <2>3, <2>4
<1>18. \E why : astray' = [astray EXCEPT ![s] = why]
  BY <1>2
<1> QED
  BY <1>2, <1>3, <1>14, <1>17, <1>18, BrowserStep

LEMMA ResyncReadStreams ==
  ASSUME StreamInv, CarryInv', NEW s \in Session, ResyncRead(s) PROVE StreamInv'
<1>1. TypeOK /\ FramesOK(s) /\ StreamOK(s)
  BY DEF StreamInv, CarryInv
<1>p. PICK p : p = page[s]
  OBVIOUS
<1>2. Quiet /\ UNCHANGED astray /\ p # None
  BY <1>1, <1>p, ResyncReadIs
<1>3. PICK n \in Pages :
        /\ page' = [page EXCEPT ![s] = n]
        /\ n.view = p.view /\ n.seq = p.seq /\ n.last = p.last
        /\ n.conn = p.conn /\ n.back = p.back /\ n.live = p.live
        /\ n.sync = "answered" /\ n.fresh \in Answers /\ n.fresh.seq <= row[s].seq
        /\ n.fresh.view # Wiped => Right(n.fresh.view, s)
  <2>1. PICK n \in Pages :
          /\ page' = [page EXCEPT ![s] = n]
          /\ n.view = p.view /\ n.seq = p.seq /\ n.last = p.last
          /\ n.conn = p.conn /\ n.back = p.back /\ n.live = p.live
          /\ n.sync = "answered" /\ n.fresh \in Answers
          /\ \/ n.fresh = [view |-> Shown(version), seq |-> row[s].seq]
             \/ n.fresh.view = Wiped /\ n.fresh.seq = 0
    BY <1>1, <1>p, ResyncReadIs
  <2>2. /\ n.fresh.seq \in {0, row[s].seq}
        /\ n.fresh.view # Wiped => n.fresh.view = Shown(version)
    BY <2>1
  <2>3. row[s].seq \in Nat
    BY <1>1 DEF TypeOK, Rows
  <2>4. n.fresh.seq <= row[s].seq
    BY <2>2, <2>3
  <2>5. n.fresh.view # Wiped => Right(n.fresh.view, s)
    <3> SUFFICES ASSUME row[s].snap = version PROVE Shown(version) = Shown(row[s].snap)
      BY <2>2 DEF Right
    <3> QED
      OBVIOUS
  <2> QED
    BY <2>1, <2>4, <2>5
<1>4. page \in [Session -> Pages \cup {None}] /\ astray \in [Session -> Reasons \cup {None}] /\ row[s] \in Rows
  BY <1>1 DEF TypeOK
<1>5. page'[s] = n /\ astray'[s] = astray[s] /\ astray' = [astray EXCEPT ![s] = astray[s]]
  BY <1>2, <1>3, <1>4
<1>6. /\ Flight(s)' = Flight(s) /\ ring'[s] = ring[s] /\ row'[s] = row[s]
      /\ Mounted(s)' <=> Mounted(s)
      /\ RingTop(s)' <=> RingTop(s)
      /\ TopFlies(s)' <=> TopFlies(s)
      /\ \A f : Good(f, s)' <=> Good(f, s)
      /\ \A v : Right(v, s)' <=> Right(v, s)
  BY <1>2, BrowserKeeps
<1>8. FramesOK(s)'
  BY <1>1, <1>2, <1>3, <1>5, <1>6, <1>p DEF FramesOK
<1>9. Pending(s)' = Pending(s)
  BY <1>3, <1>5, <1>p DEF Pending
<1>10. InOrder(s) => InOrder(s)'
  BY <1>3, <1>5, <1>6, <1>9, <1>p DEF InOrder
<1>11. StreamOK(s)'
  BY <1>1, <1>2, <1>3, <1>5, <1>6, <1>10, <1>p DEF StreamOK
<1> QED
  BY <1>2, <1>3, <1>5, <1>8, <1>11, BrowserStep

\* An answer that does not turn the cursor back is of the row as it is, if the stream is.
LEMMA ResyncAdoptStreams ==
  ASSUME StreamInv, CarryInv', NEW s \in Session, ResyncAdopt(s) PROVE StreamInv'
<1>1. TypeOK /\ FramesOK(s) /\ StreamOK(s)
  BY DEF StreamInv, CarryInv
<1>p. PICK p : p = page[s]
  OBVIOUS
<1>2. /\ Quiet /\ p # None /\ p.sync = "answered" /\ p.fresh \in Answers
      /\ astray' = [astray EXCEPT ![s] = IF p.fresh.view = Wiped THEN "unsynced"
                                         ELSE IF p.fresh.seq < p.seq THEN "rewound" ELSE astray[s]]
  BY <1>1, <1>p, ResyncAdoptIs
<1>3. PICK n \in Pages :
        /\ page' = [page EXCEPT ![s] = n]
        /\ n.view = p.fresh.view /\ n.seq = p.fresh.seq /\ n.last = p.last
        /\ n.conn = p.conn /\ n.back = p.back /\ n.live = p.live /\ n.sync = "no"
  BY <1>1, <1>p, ResyncAdoptIs
<1>4. /\ page \in [Session -> Pages \cup {None}] /\ astray \in [Session -> Reasons \cup {None}] /\ row[s] \in Rows
      /\ p \in Pages
  BY <1>1, <1>2, <1>p DEF TypeOK
<1>5. /\ page'[s] = n
      /\ astray'[s] = IF p.fresh.view = Wiped THEN "unsynced"
                      ELSE IF p.fresh.seq < p.seq THEN "rewound" ELSE astray[s]
  BY <1>2, <1>3, <1>4
<1>6. /\ Flight(s)' = Flight(s) /\ ring'[s] = ring[s] /\ row'[s] = row[s]
      /\ Mounted(s)' <=> Mounted(s)
      /\ RingTop(s)' <=> RingTop(s)
      /\ TopFlies(s)' <=> TopFlies(s)
      /\ \A f : Good(f, s)' <=> Good(f, s)
      /\ \A v : Right(v, s)' <=> Right(v, s)
  BY <1>2, BrowserKeeps
<1>7. /\ p.fresh.seq <= row[s].seq
      /\ p.fresh.seq = row[s].seq /\ p.fresh.view # Wiped => Right(p.fresh.view, s)
  BY <1>1, <1>2, <1>p DEF FramesOK
<1>8. FramesOK(s)'
  BY <1>1, <1>2, <1>3, <1>5, <1>6, <1>7, <1>p DEF FramesOK
<1>9. Pending(s)' = Pending(s)
  BY <1>3, <1>5, <1>p DEF Pending
<1>10. InOrder(s) => InOrder(s)'
  BY <1>3, <1>5, <1>6, <1>9, <1>p DEF InOrder
<1>11. StreamOK(s)'
  <2> SUFFICES ASSUME astray'[s] = None, Mounted(s)
               PROVE  /\ n.last <= n.seq
                      /\ n.last = row[s].seq => Right(n.view, s)
                      /\ ~TopFlies(s) => InOrder(s)'
    BY <1>5, <1>6 DEF StreamOK
  <2>1. ~(p.fresh.seq < p.seq) /\ p.fresh.view # Wiped /\ astray[s] = None
    BY <1>5, Why DEF Reasons
  <2>2. p.last <= p.seq /\ (~TopFlies(s) => InOrder(s))
    BY <1>1, <1>2, <1>p, <2>1 DEF StreamOK
  <2>3. /\ p.fresh.seq \in Nat /\ p.seq \in Nat /\ p.last \in Nat /\ row[s].seq \in Nat
    BY <1>2, <1>4 DEF Answers, Pages, Rows
  <2>4. n.last <= n.seq /\ (n.last = row[s].seq => n.seq = row[s].seq)
    BY <1>3, <1>7, <2>1, <2>2, <2>3
  <2> QED
    BY <1>3, <1>7, <1>10, <2>1, <2>2, <2>4
<1> QED
  BY <1>2, <1>3, <1>8, <1>11, BrowserStep

\* A resync that is rejected leaves the page as it was: from then on it is known to be astray.
LEMMA ResyncRejectedStreams ==
  ASSUME StreamInv, CarryInv', NEW s \in Session, ResyncRejected(s) PROVE StreamInv'
<1>1. TypeOK /\ FramesOK(s)
  BY DEF StreamInv, CarryInv
<1>p. PICK p : p = page[s]
  OBVIOUS
<1>2. Quiet /\ p # None /\ astray' = [astray EXCEPT ![s] = "unsynced"]
  BY <1>1, <1>p, ResyncRejectedIs
<1>3. PICK n \in Pages :
        /\ page' = [page EXCEPT ![s] = n]
        /\ n.view = p.view /\ n.seq = p.seq /\ n.last = p.last
        /\ n.conn = p.conn /\ n.back = p.back /\ n.live = p.live /\ n.sync = "no"
  BY <1>1, <1>p, ResyncRejectedIs
<1>4. page'[s] = n /\ astray'[s] = "unsynced" /\ "unsynced" # None
  BY <1>1, <1>2, <1>3, Why DEF TypeOK, Reasons
<1>5. /\ Flight(s)' = Flight(s) /\ ring'[s] = ring[s] /\ row'[s] = row[s]
      /\ Mounted(s)' <=> Mounted(s)
      /\ \A f : Good(f, s)' <=> Good(f, s)
      /\ \A v : Right(v, s)' <=> Right(v, s)
  BY <1>2, BrowserKeeps
<1>6. FramesOK(s)'
  BY <1>1, <1>2, <1>3, <1>4, <1>5, <1>p DEF FramesOK
<1>7. StreamOK(s)'
  BY <1>4 DEF StreamOK
<1> QED
  BY <1>2, <1>3, <1>6, <1>7, BrowserStep

\* A session that has no page yet, or no more: nothing is claimed of its stream.
LEMMA NewSession ==
  ASSUME StreamInv, CarryInv', NEW s \in Session,
         \A x \in Session : x # s => /\ row'[x] = row[x] /\ ring'[x] = ring[x]
                                     /\ page'[x] = page[x] /\ astray'[x] = astray[x],
         UNCHANGED <<version, drv>>,
         FramesOK(s)', StreamOK(s)'
  PROVE  StreamInv'
<1>1. ASSUME NEW x \in Session, x # s PROVE FramesOK(x)' /\ StreamOK(x)'
  <2>1. Flight(x)' = Flight(x)
    BY DEF Flight, At
  <2>2. TypeOK'
    BY DEF CarryInv
  <2> QED
    BY <1>1, <2>1, <2>2, SameSession DEF Mounted
<1> QED
  BY <1>1 DEF StreamInv

\* A row that was never stepped has no frame anywhere.
LEMMA Unstepped ==
  ASSUME StreamInv, NEW s \in Session, row[s].status \in {"none", "mounting"}
  PROVE  /\ row[s].seq = 0 /\ page[s] = None /\ Flight(s) = {} /\ ring[s] = <<>>
<1>1. TypeOK /\ FramesOK(s)
  BY DEF StreamInv, CarryInv
<1>2. row[s].seq = 0 /\ page[s] = None
  BY <1>1 DEF FramesOK
<1>3. \A f \in Frames : ~Good(f, s)
  BY <1>2 DEF Good, Frames
<1>4. Flight(s) = {}
  <2>1. Flight(s) \subseteq Frames
    BY <1>1 DEF Flight, TypeOK
  <2> QED
    BY <1>1, <1>3, <2>1 DEF FramesOK
<1>5. ring[s] \in Seq(Frames) /\ \A i \in DOMAIN ring[s] : FALSE
  <2>1. ring[s] \in Seq(Frames)
    BY <1>1 DEF TypeOK
  <2>2. \A i \in DOMAIN ring[s] : ring[s][i] \in Frames
    BY <2>1, StreamIs
  <2> QED
    BY <1>1, <1>3, <2>1, <2>2 DEF FramesOK
<1>6. ring[s] = <<>>
  BY <1>5, StreamIs
<1> QED
  BY <1>2, <1>4, <1>6

LEMMA RenderStreams ==
  ASSUME StreamInv, CarryInv', NEW s \in Session, Render(s) PROVE StreamInv'
<1>1. /\ row[s].status = "none" /\ UNCHANGED <<version, drv, ring, page, astray>>
      /\ row' = [row EXCEPT ![s] = [row[s] EXCEPT !.status = "mounting", !.snap = version, !.base = version]]
  BY DEF Render
<1>2. row \in [Session -> Rows]
  BY DEF StreamInv, CarryInv, TypeOK
<1>3. row'[s].seq = row[s].seq /\ \A x \in Session : x # s => row'[x] = row[x]
  BY <1>1, <1>2 DEF Rows
<1>4. row[s].seq = 0 /\ page[s] = None /\ Flight(s) = {} /\ ring[s] = <<>>
  BY <1>1, Unstepped
<1>5. Flight(s)' = Flight(s)
  BY <1>1 DEF Flight, At
<1>6. DOMAIN <<>> = {}
  BY EmptySeq, LenProperties
<1>7. FramesOK(s)' /\ StreamOK(s)'
  BY <1>1, <1>3, <1>4, <1>5, <1>6 DEF FramesOK, StreamOK
<1> QED
  BY <1>1, <1>3, <1>7, NewSession

LEMMA InsertStreams ==
  ASSUME StreamInv, CarryInv', NEW s \in Session, Insert(s) PROVE StreamInv'
<1>1. /\ row[s].status = "mounting" /\ UNCHANGED <<version, drv, ring, astray>>
      /\ row' = [row EXCEPT ![s].status = "sleeping"]
      /\ page' \in {page, [page EXCEPT ![s] = Blank(s)]}
  BY DEF Insert
<1>2. row \in [Session -> Rows] /\ page \in [Session -> Pages \cup {None}]
  BY DEF StreamInv, CarryInv, TypeOK
<1>3. /\ row'[s].seq = row[s].seq /\ row'[s].snap = row[s].snap /\ row'[s].status = "sleeping"
      /\ \A x \in Session : x # s => row'[x] = row[x]
  BY <1>1, <1>2 DEF Rows
<1>4. page'[s] \in {page[s], Blank(s)} /\ \A x \in Session : x # s => page'[x] = page[x]
  BY <1>1, <1>2
<1>5. row[s].seq = 0 /\ page[s] = None /\ Flight(s) = {} /\ ring[s] = <<>>
  BY <1>1, Unstepped
<1>6. Flight(s)' = Flight(s)
  BY <1>1 DEF Flight, At
<1>7. DOMAIN <<>> = {} /\ <<>> \o <<>> = <<>>
  BY EmptySeq, LenProperties, ConcatEmptySeq
<1>8. /\ Blank(s).view = Shown(row[s].snap) /\ Blank(s).seq = 0 /\ Blank(s).last = 0 /\ Blank(s).conn = FALSE
      /\ Blank(s).back = <<>> /\ Blank(s).live = <<>> /\ Blank(s).sync = "no"
  BY DEF Blank
<1>9. page'[s] = None \/ /\ page'[s].view = Shown(row[s].snap) /\ page'[s].seq = 0 /\ page'[s].last = 0
                         /\ page'[s].conn = FALSE /\ page'[s].back = <<>> /\ page'[s].live = <<>>
                         /\ page'[s].sync = "no"
  BY <1>4, <1>5, <1>8
<1>10. FramesOK(s)'
  BY <1>1, <1>3, <1>5, <1>6, <1>7, <1>9 DEF FramesOK
<1>11. StreamOK(s)'
  BY <1>1, <1>3, <1>5, <1>6, <1>7, <1>9 DEF StreamOK, Right, InOrder, Pending
<1> QED
  BY <1>1, <1>3, <1>4, <1>10, <1>11, NewSession

LEMMA SweepStreams ==
  ASSUME StreamInv, CarryInv', NEW s \in Session, Sweep(s) PROVE StreamInv'
<1> DEFINE n == [page[s] EXCEPT !.conn = FALSE]
<1>1. /\ row' = [row EXCEPT ![s].status = "gone"] /\ ring' = [ring EXCEPT ![s] = <<>>]
      /\ UNCHANGED <<version, drv, astray>>
      /\ page' = IF page[s] = None THEN page ELSE [page EXCEPT ![s] = n]
  BY DEF Sweep
<1>2. /\ row \in [Session -> Rows] /\ page \in [Session -> Pages \cup {None}]
      /\ ring \in [Session -> Seq(Frames)] /\ FramesOK(s)
  BY DEF StreamInv, CarryInv, TypeOK
<1>3. /\ row'[s].seq = row[s].seq /\ row'[s].snap = row[s].snap /\ row'[s].status = "gone"
      /\ \A x \in Session : x # s => row'[x] = row[x]
  BY <1>1, <1>2 DEF Rows
<1>4. page[s] # None =>
        /\ n.back = page[s].back /\ n.live = page[s].live /\ n.last = page[s].last /\ n.seq = page[s].seq
        /\ n.sync = page[s].sync /\ n.fresh = page[s].fresh
  BY <1>2 DEF Pages
<1> HIDE DEF n
<1>5. /\ page[s] = None => page'[s] = None
      /\ page[s] # None => page'[s] = n
      /\ \A x \in Session : x # s => page'[x] = page[x] /\ ring'[x] = ring[x]
      /\ ring'[s] = <<>>
  BY <1>1, <1>2
<1>6. Flight(s)' = Flight(s) /\ ~Mounted(s)'
  BY <1>1, <1>3 DEF Flight, At, Mounted
<1>7. DOMAIN <<>> = {}
  BY EmptySeq, LenProperties
<1>8. (\A f : Good(f, s)' <=> Good(f, s)) /\ (\A v : Right(v, s)' <=> Right(v, s))
  BY <1>1, <1>3 DEF Good, Right
<1>9. FramesOK(s)'
  BY <1>2, <1>3, <1>4, <1>5, <1>6, <1>7, <1>8 DEF FramesOK
<1>10. StreamOK(s)'
  BY <1>6 DEF StreamOK
<1> QED
  BY <1>1, <1>3, <1>5, <1>9, <1>10, NewSession

LEMMA RestartStreams ==
  ASSUME StreamInv, CarryInv', Restart PROVE StreamInv'
<1> SUFFICES ASSUME NEW s \in Session PROVE FramesOK(s)' /\ StreamOK(s)'
  BY DEF StreamInv
<1> DEFINE n == [page[s] EXCEPT !.conn = FALSE, !.back = <<>>, !.live = <<>>, !.sync = "no", !.fresh = None]
<1>1. /\ row'[s] = IF row[s].status = "mounting" THEN [row[s] EXCEPT !.status = "none"] ELSE row[s]
      /\ drv' = [d \in Driver |-> None] /\ ring'[s] = <<>> /\ version' = version
      /\ page'[s] = IF page[s] = None THEN None ELSE n
      /\ astray'[s] = IF page[s] # None THEN "restart" ELSE astray[s]
  BY DEF Restart
<1>2. /\ row[s] \in Rows /\ page[s] \in Pages \cup {None} /\ FramesOK(s)
  BY DEF StreamInv, CarryInv, TypeOK
<1>3. /\ row'[s].seq = row[s].seq /\ row'[s].snap = row[s].snap
      /\ row'[s].status \in {"none", "mounting"} => row[s].status \in {"none", "mounting"}
  BY <1>1, <1>2 DEF Rows
<1>4. page[s] # None =>
        /\ n.back = <<>> /\ n.live = <<>> /\ n.last = page[s].last /\ n.seq = page[s].seq /\ n.sync = "no"
  BY <1>2 DEF Pages
<1> HIDE DEF n
<1>5. Flight(s)' = {}
  BY <1>1 DEF Flight, At
<1>6. DOMAIN <<>> = {}
  BY EmptySeq, LenProperties
<1>7. FramesOK(s)'
  BY <1>1, <1>2, <1>3, <1>4, <1>5, <1>6 DEF FramesOK
<1>8. StreamOK(s)'
  BY <1>1, Why DEF StreamOK, Reasons
<1> QED
  BY <1>7, <1>8

\* A commit outdates every frame there is; the one it makes is in flight, or known to be lost.
LEMMA CommitStreams ==
  ASSUME StreamInv, CarryInv', NEW d \in Driver, At(d, "txn"), Claims(d), Commit(d),
         UNCHANGED <<ring, page>>,
         NEW s, s = drv[d].s,
         \A x \in Session : x # s => astray'[x] = astray[x] /\ Flight(x)' = Flight(x),
         \A g \in Flight(s)' : g \in Flight(s) \/ (g.seq = row'[s].seq /\ g.to = Shown(row'[s].snap)),
         astray'[s] = None => astray[s] = None /\ \E g \in Flight(s)' : g.seq = row'[s].seq
  PROVE  StreamInv'
<1>1. TypeOK
  BY DEF StreamInv, CarryInv
<1>v. PICK v : v = Effect(d).v
  OBVIOUS
<1>2. /\ s \in Session /\ row[s].status = "ready"
      /\ version' \in {version, version + 1}
      /\ row' = [row EXCEPT ![s] = row'[s]]
      /\ row'[s].status = "sleeping" /\ row'[s].seq = row[s].seq + 1
  BY <1>1, CommitIs
<1>3. FramesOK(s) /\ StreamOK(s) /\ row[s] \in Rows /\ row \in [Session -> Rows]
  BY <1>1, <1>2 DEF StreamInv, TypeOK
<1>4. row[s].seq \in Nat /\ Mounted(s) /\ Mounted(s)'
  BY <1>2, <1>3 DEF Mounted, Rows
<1>5. ASSUME NEW g \in Frames, Good(g, s) PROVE Good(g, s)'
  <2>1. g.seq \in Nat /\ 1 <= g.seq /\ g.seq <= row[s].seq
    BY <1>5 DEF Good, Frames
  <2> QED
    BY <1>2, <1>4, <2>1 DEF Good
<1>6. \A g \in Flight(s)' : Good(g, s)'
  <2> SUFFICES ASSUME NEW g \in Flight(s)' PROVE Good(g, s)'
    OBVIOUS
  <2>1. CASE g \in Flight(s)
    <3>1. Flight(s) \subseteq Frames
      BY <1>1 DEF Flight, TypeOK
    <3> QED
      BY <1>3, <1>5, <2>1, <3>1 DEF FramesOK
  <2>2. CASE g.seq = row'[s].seq /\ g.to = Shown(row'[s].snap)
    BY <1>2, <1>4, <2>2 DEF Good
  <2> QED
    BY <2>1, <2>2
<1>7. \A i \in DOMAIN ring[s] : Good(ring[s][i], s)'
  <2>1. ring[s] \in Seq(Frames)
    BY <1>1, <1>2 DEF TypeOK
  <2> QED
    BY <1>3, <1>5, <2>1, StreamIs DEF FramesOK
<1>p. PICK p : p = page[s]
  OBVIOUS
<1>8. ASSUME p # None
      PROVE  /\ \A i \in DOMAIN p.back : Good(p.back[i], s)'
             /\ \A i \in DOMAIN p.live : Good(p.live[i], s)'
             /\ p.last <= row[s].seq /\ p.seq <= row[s].seq /\ p.last \in Nat /\ p.seq \in Nat
             /\ ~p.conn => p.back = <<>> /\ p.live = <<>>
             /\ p.sync = "answered" => p.fresh.seq <= row[s].seq /\ p.fresh.seq \in Nat
  <2>1. p \in Pages /\ (p.sync = "answered" => p.fresh \in Answers)
    BY <1>1, <1>2, <1>8, <1>p DEF TypeOK
  <2>2. p.back \in Seq(Frames) /\ p.live \in Seq(Frames) /\ p.last \in Nat /\ p.seq \in Nat
    BY <2>1 DEF Pages
  <2>3. (\A i \in DOMAIN p.back : p.back[i] \in Frames) /\ (\A i \in DOMAIN p.live : p.live[i] \in Frames)
    BY <2>2, StreamIs
  <2> QED
    BY <1>3, <1>4, <1>5, <1>8, <1>p, <2>1, <2>2, <2>3 DEF FramesOK, Answers
<1>9. FramesOK(s)'
  <2>1. p # None => /\ p.last <= row'[s].seq /\ p.seq <= row'[s].seq /\ p.last # row'[s].seq
                    /\ p.sync = "answered" => p.fresh.seq <= row'[s].seq /\ p.fresh.seq # row'[s].seq
    BY <1>2, <1>4, <1>8
  <2> QED
    BY <1>2, <1>6, <1>7, <1>8, <1>p, <2>1 DEF FramesOK
<1>10. StreamOK(s)'
  <2>1. p # None => p.last # row'[s].seq
    BY <1>2, <1>4, <1>8
  <2>2. astray'[s] = None => TopFlies(s)' /\ astray[s] = None
    BY DEF TopFlies
  <2> QED
    BY <1>3, <1>4, <1>p, <2>1, <2>2 DEF StreamOK
<1>11. ASSUME NEW x \in Session, x # s PROVE FramesOK(x)' /\ StreamOK(x)'
  <2>1. row'[x] = row[x] /\ TypeOK'
    BY <1>2, <1>3, <1>11 DEF CarryInv
  <2> QED
    BY <1>2, <1>11, <2>1, SameSession DEF Mounted
<1> QED
  BY <1>9, <1>10, <1>11 DEF StreamInv

LEMMA StepStreams ==
  ASSUME StreamInv, CarryInv', NEW d \in Driver, Step(d) PROVE StreamInv'
<1>s. PICK s : s = drv[d].s
  OBVIOUS
<1>f. PICK f : f = Frame(drv[d].at + 1, row[s].snap, Effect(d).v)
  OBVIOUS
<1>1. TypeOK
  BY DEF StreamInv, CarryInv
<1>2. /\ At(d, "txn") /\ Claims(d) /\ Commit(d) /\ UNCHANGED <<ring, page, astray>>
      /\ drv' = [drv EXCEPT ![d] = [drv[d] EXCEPT !.pc = "push", !.frame = f]]
  BY <1>s, <1>f DEF Step
<1>3. /\ drv[d] \in Jobs /\ s \in Session /\ row[s].seq = drv[d].at
      /\ row'[s].seq = row[s].seq + 1 /\ row'[s].snap = Effect(d).v
  BY <1>1, <1>2, <1>s, CommitIs
<1>4. f.seq = row'[s].seq /\ f.to = Shown(row'[s].snap)
  BY <1>3, <1>f DEF Frame
<1>5. /\ drv'[d] # None /\ drv'[d].pc = "push" /\ drv'[d].frame = f /\ drv'[d].s = s
      /\ \A e \in Driver : e # d => drv'[e] = drv[e]
  <2>1. [drv[d] EXCEPT !.pc = "push", !.frame = f] \in Jobs
    <3>1. f \in Frames
      <4>1. Effect(d).v \in Nat
        BY <1>1, <1>2, CommitIs
      <4>2. Shown(Effect(d).v) \in {0, 1} /\ drv[d].at + 1 \in Nat
        BY <1>3, <4>1, ShownIs DEF Jobs
      <4> QED
        BY <1>f, <4>2 DEF Frame, Frames
    <3> QED
      BY <1>3, <3>1 DEF Jobs
  <2>2. [drv[d] EXCEPT !.pc = "push", !.frame = f].pc = "push"
        /\ [drv[d] EXCEPT !.pc = "push", !.frame = f].frame = f
        /\ [drv[d] EXCEPT !.pc = "push", !.frame = f].s = s
    BY <1>3, <1>s DEF Jobs
  <2> QED
    BY <1>1, <1>2, <2>1, <2>2, FanoutAssumption DEF TypeOK
<1>6. ~At(d, "push")
  BY <1>2 DEF At
<1>7. f \in Flight(s)'
  BY <1>5 DEF Flight, At
<1>8. \A g \in Flight(s)' : g \in Flight(s) \/ g = f
  BY <1>5 DEF Flight, At
<1>9. \A x \in Session : x # s => Flight(x)' = Flight(x)
  <2> SUFFICES ASSUME NEW x \in Session, x # s PROVE Flight(x)' = Flight(x)
    OBVIOUS
  <2>1. \A e \in Driver : (At(e, "push") /\ drv[e].s = x)' <=> (At(e, "push") /\ drv[e].s = x)
    BY <1>5, <1>6 DEF At
  <2>2. \A e \in Driver : At(e, "push") /\ drv[e].s = x => drv'[e].frame = drv[e].frame
    BY <1>5, <1>6 DEF At
  <2> QED
    BY <2>1, <2>2 DEF Flight
<1> QED
  BY <1>2, <1>4, <1>7, <1>8, <1>9, <1>s, CommitStreams

LEMMA StepUnansweredStreams ==
  ASSUME StreamInv, CarryInv', NEW d \in Driver, StepUnanswered(d) PROVE StreamInv'
<1>s. PICK s : s = drv[d].s
  OBVIOUS
<1>1. TypeOK
  BY DEF StreamInv, CarryInv
<1>2. /\ At(d, "txn") /\ Claims(d) /\ Commit(d) /\ UNCHANGED <<ring, page>>
      /\ drv' = [drv EXCEPT ![d] = None] /\ astray' = [astray EXCEPT ![s] = "unpushed"]
  BY <1>s DEF StepUnanswered
<1>3. s \in Session /\ astray \in [Session -> Reasons \cup {None}]
  BY <1>1, <1>2, <1>s, CommitIs DEF TypeOK
<1>4. astray'[s] # None /\ \A x \in Session : x # s => astray'[x] = astray[x]
  BY <1>2, <1>3, Why DEF Reasons
<1>5. ~At(d, "push")
  BY <1>2 DEF At
<1>6. \A x \in Driver : /\ At(x, "push")' <=> At(x, "push")
                        /\ At(x, "push") => drv'[x] = drv[x]
  BY <1>1, <1>2, <1>5, OneDriver
<1>7. \A x : Flight(x)' = Flight(x)
  BY <1>6, SameFlight
<1> QED
  BY <1>2, <1>4, <1>7, <1>s, CommitStreams

\* A step that failed and was committed: nothing is claimed of the stream of its session.
LEMMA StepFaultedStreams ==
  ASSUME StreamInv, CarryInv', NEW d \in Driver, StepFaulted(d) PROVE StreamInv'
<1>s. PICK s : s = drv[d].s
  OBVIOUS
<1>1. TypeOK
  BY DEF StreamInv, CarryInv
<1>2. /\ s \in Session /\ row[s].status = "ready"
      /\ row' = [row EXCEPT ![s] = row'[s]]
      /\ row'[s].status = "failed" /\ row'[s].seq = row[s].seq + 1
      /\ version' \in {version, version + 1}
      /\ drv' = [drv EXCEPT ![d] = None] /\ UNCHANGED <<ring, page, astray>>
  BY <1>1, <1>s, FaultedIs
<1>3. ~At(d, "push")
  BY DEF StepFaulted, At
<1>4. \A x \in Driver : /\ At(x, "push")' <=> At(x, "push")
                        /\ At(x, "push") => drv'[x] = drv[x]
  BY <1>1, <1>2, <1>3, OneDriver
<1>5. \A x : Flight(x)' = Flight(x)
  BY <1>4, SameFlight
<1>6. FramesOK(s) /\ row[s] \in Rows /\ row[s].seq \in Nat /\ Mounted(s) /\ ~Mounted(s)'
  BY <1>1, <1>2 DEF StreamInv, TypeOK, Rows, Mounted
<1>7. ASSUME NEW g \in Frames, Good(g, s) PROVE Good(g, s)'
  <2>1. g.seq \in Nat /\ 1 <= g.seq /\ g.seq <= row[s].seq
    BY <1>7 DEF Good, Frames
  <2> QED
    BY <1>2, <1>6, <2>1 DEF Good
<1>8. \A g \in Flight(s)' : Good(g, s)'
  <2>1. Flight(s) \subseteq Frames
    BY <1>1 DEF Flight, TypeOK
  <2> QED
    BY <1>5, <1>6, <1>7, <2>1 DEF FramesOK
<1>9. \A i \in DOMAIN ring[s] : Good(ring[s][i], s)'
  <2>1. ring[s] \in Seq(Frames)
    BY <1>1, <1>2 DEF TypeOK
  <2>2. \A i \in DOMAIN ring[s] : ring[s][i] \in Frames
    BY <2>1, StreamIs
  <2>3. \A i \in DOMAIN ring[s] : Good(ring[s][i], s)
    BY <1>6 DEF FramesOK
  <2> QED
    BY <1>2, <1>7, <2>2, <2>3
<1>p. PICK p : p = page[s]
  OBVIOUS
<1>10. ASSUME p # None
       PROVE  /\ \A i \in DOMAIN p.back : Good(p.back[i], s)'
              /\ \A i \in DOMAIN p.live : Good(p.live[i], s)'
              /\ p.last <= row[s].seq /\ p.seq <= row[s].seq /\ p.last \in Nat /\ p.seq \in Nat
              /\ p.sync = "answered" => p.fresh.seq <= row[s].seq /\ p.fresh.seq \in Nat
  <2>1. p \in Pages /\ (p.sync = "answered" => p.fresh \in Answers)
    BY <1>1, <1>2, <1>10, <1>p DEF TypeOK
  <2>2. p.back \in Seq(Frames) /\ p.live \in Seq(Frames) /\ p.last \in Nat /\ p.seq \in Nat
    BY <2>1 DEF Pages
  <2>3. (\A i \in DOMAIN p.back : p.back[i] \in Frames) /\ (\A i \in DOMAIN p.live : p.live[i] \in Frames)
    BY <2>2, StreamIs
  <2> QED
    BY <1>6, <1>7, <1>10, <1>p, <2>1, <2>2, <2>3 DEF FramesOK, Answers
<1>11. FramesOK(s)'
  <2>1. p # None => /\ p.last <= row'[s].seq /\ p.seq <= row'[s].seq
                    /\ p.sync = "answered" => p.fresh.seq <= row'[s].seq /\ p.fresh.seq # row'[s].seq
    BY <1>2, <1>6, <1>10
  <2> QED
    BY <1>2, <1>6, <1>8, <1>9, <1>10, <1>p, <2>1 DEF FramesOK
<1>12. StreamOK(s)'
  BY <1>6 DEF StreamOK
<1>13. ASSUME NEW x \in Session, x # s PROVE FramesOK(x)' /\ StreamOK(x)'
  <2>1. row'[x] = row[x] /\ TypeOK'
    BY <1>1, <1>2, <1>13 DEF CarryInv, TypeOK
  <2> QED
    BY <1>2, <1>5, <1>13, <2>1, SameSession DEF Mounted
<1> QED
  BY <1>11, <1>12, <1>13 DEF StreamInv

\* A frame joins the ring and the stream at their end.
LEMMA JoinLast ==
  ASSUME NEW a \in Seq(Frames), NEW b \in Seq(Frames), b # <<>>
  PROVE  a \o b # <<>> /\ Last(a \o b) = Last(b)
<1>1. /\ a \o b \in Seq(Frames) /\ Len(a \o b) = Len(a) + Len(b)
      /\ \A i \in 1..Len(b) : (a \o b)[Len(a) + i] = b[i]
  BY JoinIs
<1>2. Len(a) \in Nat /\ Len(b) \in Nat /\ 1 <= Len(b) /\ Last(b) = b[Len(b)]
  BY StreamIs
<1>3. Len(a \o b) # 0 /\ (a \o b)[Len(a \o b)] = b[Len(b)]
  BY <1>1, <1>2
<1> HIDE DEF Last
<1> QED
  BY <1>1, <1>2, <1>3, StreamIs

\* The ring, the stream and what is still in flight after the push of f.
Pushed(s, f) ==
  /\ s \in Session /\ f \in Frames /\ f \in Flight(s)
  /\ \A x \in Session : x # s => /\ Flight(x)' = Flight(x) /\ ring'[x] = ring[x]
                                 /\ page'[x] = page[x] /\ astray'[x] = astray[x]
  /\ Flight(s)' \subseteq Flight(s) /\ Flight(s) \subseteq Flight(s)' \cup {f}
  /\ ring'[s] # <<>> /\ Last(ring'[s]) = f
  /\ \A i \in DOMAIN ring'[s] : ring'[s][i] = f \/ \E j \in DOMAIN ring[s] : ring'[s][i] = ring[s][j]
  /\ UNCHANGED <<version, row>>
  /\ astray'[s] = None => astray[s] = None /\ ~Later(s, f) /\ ~Full(s)
  /\ IF page[s] # None /\ page[s].conn /\ ~Full(s)
     THEN page'[s] = [page[s] EXCEPT !.live = Append(page[s].live, f)]
     ELSE page'[s] = page[s]

LEMMA PushedIs ==
  ASSUME TypeOK, NEW d \in Driver, Push(d), NEW s, s = drv[d].s, NEW f, f = drv[d].frame
  PROVE  Pushed(s, f)
<1>1. /\ At(d, "push") /\ s \in Session /\ f \in Frames
      /\ ring' = [ring EXCEPT ![s] = LastN(Append(ring[s], f), RingCap)]
      /\ IF page[s] # None /\ page[s].conn /\ ~Full(s)
         THEN page' = [page EXCEPT ![s] = [page[s] EXCEPT !.live = Append(page[s].live, f)]]
         ELSE page' = page
      /\ astray' = [astray EXCEPT ![s] = IF Later(s, f) THEN "swapped" ELSE IF Full(s) THEN "dropped" ELSE astray[s]]
      /\ drv' = [drv EXCEPT ![d] = None]
      /\ UNCHANGED <<version, row>>
  BY PushIs DEF Done
<1>2. /\ drv \in [Driver -> Jobs \cup {None}] /\ ring \in [Session -> Seq(Frames)]
      /\ page \in [Session -> Pages \cup {None}] /\ astray \in [Session -> Reasons \cup {None}]
  BY DEF TypeOK
<1>3. drv'[d] = None /\ \A e \in Driver : e # d => drv'[e] = drv[e]
  BY <1>1, <1>2
<1>4. f \in Flight(s)
  BY <1>1 DEF Flight
<1>5. Flight(s)' \subseteq Flight(s) /\ Flight(s) \subseteq Flight(s)' \cup {f}
  BY <1>3 DEF Flight, At
<1>6. \A x \in Session : x # s => Flight(x)' = Flight(x)
  <2> SUFFICES ASSUME NEW x \in Session, x # s PROVE Flight(x)' = Flight(x)
    OBVIOUS
  <2>1. \A e \in Driver : (At(e, "push") /\ drv[e].s = x)' <=> (At(e, "push") /\ drv[e].s = x)
    BY <1>3 DEF At
  <2>2. \A e \in Driver : At(e, "push") /\ drv[e].s = x => drv'[e].frame = drv[e].frame
    BY <1>3 DEF At
  <2> QED
    BY <2>1, <2>2 DEF Flight
<1>7. PICK q : q = Append(ring[s], f)
  OBVIOUS
<1>8. /\ q \in Seq(Frames) /\ q # <<>> /\ Last(q) = f
      /\ \A i \in DOMAIN q : q[i] = f \/ \E j \in DOMAIN ring[s] : q[i] = ring[s][j]
  BY <1>1, <1>2, <1>7, AppendIs
<1>9. /\ LastN(q, RingCap) # <<>> /\ Last(LastN(q, RingCap)) = f
      /\ \A i \in DOMAIN LastN(q, RingCap) : \E j \in DOMAIN q : LastN(q, RingCap)[i] = q[j]
  BY <1>8, LastNIs, FanoutAssumption
<1>10. ring'[s] = LastN(q, RingCap)
  BY <1>1, <1>2, <1>7
<1>11. \A i \in DOMAIN ring'[s] : ring'[s][i] = f \/ \E j \in DOMAIN ring[s] : ring'[s][i] = ring[s][j]
  <2> SUFFICES ASSUME NEW i \in DOMAIN ring'[s]
               PROVE  ring'[s][i] = f \/ \E j \in DOMAIN ring[s] : ring'[s][i] = ring[s][j]
    OBVIOUS
  <2>1. PICK k \in DOMAIN q : ring'[s][i] = q[k]
    BY <1>9, <1>10
  <2> QED
    BY <1>8, <2>1
<1>12. astray'[s] = None => astray[s] = None /\ ~Later(s, f) /\ ~Full(s)
  BY <1>1, <1>2, Why DEF Reasons
<1>13. \A x \in Session : x # s => ring'[x] = ring[x] /\ page'[x] = page[x] /\ astray'[x] = astray[x]
  BY <1>1, <1>2
<1>14. IF page[s] # None /\ page[s].conn /\ ~Full(s)
       THEN page'[s] = [page[s] EXCEPT !.live = Append(page[s].live, f)]
       ELSE page'[s] = page[s]
  BY <1>1, <1>2
<1> QED
  BY <1>1, <1>4, <1>5, <1>6, <1>9, <1>10, <1>11, <1>12, <1>13, <1>14 DEF Pushed

\* A push in its turn closes ring and stream; one out of its turn finds a later frame in the ring.
LEMMA PushStreams ==
  ASSUME StreamInv, CarryInv', NEW d \in Driver, Push(d) PROVE StreamInv'
<1>s. PICK s : s = drv[d].s
  OBVIOUS
<1>f. PICK f : f = drv[d].frame
  OBVIOUS
<1>1. TypeOK
  BY DEF StreamInv, CarryInv
<1>2. /\ s \in Session /\ f \in Frames /\ f \in Flight(s)
      /\ \A x \in Session : x # s => /\ Flight(x)' = Flight(x) /\ ring'[x] = ring[x]
                                     /\ page'[x] = page[x] /\ astray'[x] = astray[x]
      /\ Flight(s)' \subseteq Flight(s) /\ Flight(s) \subseteq Flight(s)' \cup {f}
      /\ ring'[s] # <<>> /\ Last(ring'[s]) = f
      /\ \A i \in DOMAIN ring'[s] : ring'[s][i] = f \/ \E j \in DOMAIN ring[s] : ring'[s][i] = ring[s][j]
      /\ UNCHANGED <<version, row>>
      /\ astray'[s] = None => astray[s] = None /\ ~Later(s, f) /\ ~Full(s)
      /\ IF page[s] # None /\ page[s].conn /\ ~Full(s)
         THEN page'[s] = [page[s] EXCEPT !.live = Append(page[s].live, f)]
         ELSE page'[s] = page[s]
  <2>1. Pushed(s, f)
    BY <1>1, <1>s, <1>f, PushedIs
  <2> QED
    BY <2>1 DEF Pushed
<1>3. FramesOK(s) /\ StreamOK(s) /\ Good(f, s)
  BY <1>2 DEF StreamInv, FramesOK
<1>4. /\ \A g : Good(g, s)' <=> Good(g, s)
      /\ \A v : Right(v, s)' <=> Right(v, s)
      /\ Mounted(s)' <=> Mounted(s)
  BY <1>2 DEF Good, Right, Mounted
<1>p. PICK p : p = page[s]
  OBVIOUS
<1>n. PICK n : n = page'[s]
  OBVIOUS
<1>5. p # None => /\ p \in Pages /\ p.back \in Seq(Frames) /\ p.live \in Seq(Frames)
                  /\ Append(p.live, f) \in Seq(Frames) /\ Append(p.live, f) # <<>> /\ Last(Append(p.live, f)) = f
                  /\ \A i \in DOMAIN Append(p.live, f) :
                       Append(p.live, f)[i] = f \/ \E j \in DOMAIN p.live : Append(p.live, f)[i] = p.live[j]
  <2>1. p # None => p \in Pages
    BY <1>1, <1>2, <1>p DEF TypeOK
  <2>2. p # None => p.back \in Seq(Frames) /\ p.live \in Seq(Frames)
    BY <2>1 DEF Pages
  <2> QED
    BY <1>2, <2>1, <2>2, AppendIs
<1>6. /\ n # None <=> p # None
      /\ p # None =>
           /\ n.view = p.view /\ n.seq = p.seq /\ n.last = p.last /\ n.conn = p.conn
           /\ n.back = p.back /\ n.sync = p.sync /\ n.fresh = p.fresh
           /\ IF p.conn /\ ~Full(s) THEN n.live = Append(p.live, f) ELSE n.live = p.live
  <2>1. CASE p # None /\ p.conn /\ ~Full(s)
    <3>1. n = [p EXCEPT !.live = Append(p.live, f)]
      BY <1>2, <1>p, <1>n, <2>1
    <3>2. n \in Pages
      BY <1>5, <2>1, <3>1 DEF Pages
    <3> QED
      BY <1>5, <2>1, <3>1, <3>2, FanoutAssumption DEF Pages
  <2>2. CASE ~(p # None /\ p.conn /\ ~Full(s))
    BY <1>2, <1>p, <1>n, <2>2
  <2> QED
    BY <2>1, <2>2
<1>7. FramesOK(s)'
  <2>1. \A g \in Flight(s)' : Good(g, s)'
    BY <1>2, <1>3, <1>4 DEF FramesOK
  <2>2. \A i \in DOMAIN ring'[s] : Good(ring[s][i], s)'
    <3>1. \A g : g = f \/ (\E j \in DOMAIN ring[s] : g = ring[s][j]) => Good(g, s)
      BY <1>3 DEF FramesOK
    <3>2. \A i \in DOMAIN ring'[s] : Good(ring'[s][i], s)
      BY <1>2, <3>1
    <3> QED
      BY <1>2, <3>2 DEF Good
  <2>3. n # None => \A i \in DOMAIN n.live : Good(n.live[i], s)'
    <3> SUFFICES ASSUME n # None, NEW i \in DOMAIN n.live PROVE Good(n.live[i], s)
      BY <1>4
    <3>1. p # None /\ \A j \in DOMAIN p.live : Good(p.live[j], s)
      BY <1>3, <1>6, <1>p DEF FramesOK
    <3>2. n.live = Append(p.live, f) \/ n.live = p.live
      BY <1>6, <3>1
    <3>3. n.live[i] = f \/ \E j \in DOMAIN p.live : n.live[i] = p.live[j]
      BY <1>5, <3>1, <3>2
    <3> QED
      BY <1>3, <3>1, <3>3
  <2> QED
    BY <1>2, <1>3, <1>4, <1>6, <1>p, <1>n, <2>1, <2>2, <2>3 DEF FramesOK
<1>8. StreamOK(s)'
  <2> SUFFICES ASSUME n # None, astray'[s] = None, Mounted(s)
               PROVE  /\ n.last <= n.seq
                      /\ n.sync = "no" /\ n.last = row[s].seq => Right(n.view, s)
                      /\ ~TopFlies(s)' => InOrder(s)'
    BY <1>2, <1>4, <1>n DEF StreamOK
  <2>1. /\ p.last <= p.seq
        /\ p.sync = "no" /\ p.last = row[s].seq => Right(p.view, s)
        /\ ~TopFlies(s) => InOrder(s)
        /\ ~Later(s, f) /\ ~Full(s)
    BY <1>2, <1>3, <1>6, <1>p DEF StreamOK
  <2>2. ASSUME ~TopFlies(s)' PROVE InOrder(s)'
    <3>1. f.seq = row[s].seq
      <4> SUFFICES ASSUME f.seq # row[s].seq PROVE FALSE
        OBVIOUS
      <4>1. ~TopFlies(s)
        BY <1>2, <2>2 DEF TopFlies
      <4>2. RingTop(s)
        BY <1>2, <2>1, <4>1 DEF InOrder
      <4>3. f.seq < row[s].seq
        <5>1. f.seq \in Nat /\ row[s].seq \in Nat /\ f.seq <= row[s].seq
          BY <1>1, <1>2, <1>3 DEF Good, Frames, TypeOK, Rows
        <5> QED
          BY <5>1
      <4>4. ring[s] \in Seq(Frames) /\ ring[s] # <<>> /\ Last(ring[s]).seq > f.seq
        BY <1>1, <1>2, <4>2, <4>3 DEF RingTop, TypeOK
      <4>5. Len(ring[s]) \in DOMAIN ring[s] /\ Last(ring[s]) = ring[s][Len(ring[s])]
        BY <4>4, StreamIs
      <4> QED
        BY <2>1, <4>4, <4>5 DEF Later
    <3>2. RingTop(s)'
      BY <1>2, <3>1 DEF RingTop
    <3>3. p.conn => p.back \o Append(p.live, f) # <<>> /\ Last(p.back \o Append(p.live, f)) = f
      BY <1>5, <1>6, JoinLast
    <3>4. n.conn => Pending(s)' # <<>> /\ Last(Pending(s)') = f
      BY <1>6, <1>n, <2>1, <3>3 DEF Pending
    <3> QED
      BY <1>2, <1>n, <3>1, <3>2, <3>4 DEF InOrder
  <2> QED
    BY <1>6, <2>1, <2>2
<1>9. ASSUME NEW x \in Session, x # s PROVE FramesOK(x)' /\ StreamOK(x)'
  <2>1. TypeOK'
    BY DEF CarryInv
  <2> QED
    BY <1>2, <1>9, <2>1, SameSession DEF Mounted
<1> QED
  BY <1>7, <1>8, <1>9 DEF StreamInv

LEMMA StreamInit == Init => StreamInv
<1> SUFFICES ASSUME Init, NEW s \in Session PROVE FramesOK(s) /\ StreamOK(s)
  BY CarryInit DEF StreamInv
<1>1. /\ row[s].seq = 0 /\ ring[s] = <<>> /\ page[s] = None /\ drv = [d \in Driver |-> None]
  BY DEF Init, NewRow
<1>2. Flight(s) = {} /\ DOMAIN <<>> = {}
  BY <1>1, EmptySeq, LenProperties DEF Flight, At
<1> QED
  BY <1>1, <1>2 DEF FramesOK, StreamOK

\* One case per action.
LEMMA StreamStep == ASSUME StreamInv, [Next]_vars PROVE StreamInv'
<1>1. CarryInv'
  BY CarryStep DEF StreamInv
<1>2. ASSUME NEW s \in Session, Render(s) \/ Insert(s) \/ Sweep(s) PROVE StreamInv'
  BY <1>1, <1>2, RenderStreams, InsertStreams, SweepStreams
<1>3. ASSUME NEW s \in Watched, Browse(s) PROVE StreamInv'
  BY <1>1, <1>3, ConnectStreams, DisconnectStreams, ReceiveStreams, ResyncReadStreams,
     ResyncAdoptStreams, ResyncRejectedStreams, FanoutAssumption DEF Browse
<1>4. ASSUME NEW d \in Driver,
             \/ \E s \in Watched : d \in Handler /\ Post(d, s)
             \/ d \in Worker /\ (Pop(d) \/ ReadSeq(d))
             \/ Arm(d) \/ Begin(d) \/ ClaimLost(d) \/ Retry(d) \/ StepFails(d)
      PROVE  StreamInv'
  BY <1>1, <1>4, DriversQuiet
<1>5. ASSUME NEW d \in Driver, Step(d) \/ StepUnanswered(d) \/ StepFaulted(d) \/ Push(d) PROVE StreamInv'
  BY <1>1, <1>5, StepStreams, StepUnansweredStreams, StepFaultedStreams, PushStreams
<1>6. CASE Listen \/ WriteElsewhere \/ UNCHANGED vars
  BY <1>1, <1>6, ListenQuiet
<1>7. CASE Restart
  BY <1>1, <1>7, RestartStreams
<1>8. Handler \subseteq Driver /\ Worker \subseteq Driver
  BY DEF Driver
<1> QED
  BY <1>2, <1>3, <1>4, <1>5, <1>6, <1>7, <1>8 DEF Next, Drive

\* A browser whose stream lost nothing, whose resync did not fail and whose session did not: with
\* nothing on its way it holds the step_seq of its session, so that its next event is accepted, and
\* shows what the session last rendered; for any sessions, drivers and capacities, however drives
\* overtake each other between commit and push.
THEOREM QuietClientsAgree == Spec => []QuietClientAgrees
<1>1. Init => StreamInv
  BY StreamInit
<1>2. StreamInv /\ [Next]_vars => StreamInv'
  BY StreamStep
<1>3. StreamInv => QuietClientAgrees
  <2> SUFFICES ASSUME StreamInv, NEW s \in Watched, page[s] # None, page[s].conn, Pending(s) = <<>>,
                      page[s].sync = "no", Mounted(s), ~Pushing(s), astray[s] = None
               PROVE  page[s].seq = row[s].seq /\ (page[s].view = Shown(row[s].snap) \/ Stale(s))
    BY DEF QuietClientAgrees, Pending, Subscribed
  <2>1. s \in Session /\ TypeOK /\ FramesOK(s) /\ StreamOK(s)
    BY FanoutAssumption DEF StreamInv, CarryInv
  <2>2. Flight(s) = {}
    BY DEF Flight, Pushing
  <2>3. page[s].last = row[s].seq /\ page[s].last <= page[s].seq /\ Right(page[s].view, s)
    BY <2>1, <2>2 DEF StreamOK, InOrder, TopFlies
  <2>4. page[s].seq <= row[s].seq /\ page[s].seq \in Nat /\ row[s].seq \in Nat
    BY <2>1 DEF FramesOK, TypeOK, Pages, Rows
  <2>5. page[s].seq = row[s].seq
    BY <2>3, <2>4
  <2> QED
    BY <2>3, <2>5 DEF Right, Stale
<1> QED
  BY <1>1, <1>2, <1>3, PTL DEF Spec
=============================================================================
