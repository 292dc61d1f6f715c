--------------------------- MODULE ConnPoolProofs ---------------------------
(***************************************************************************)
(* The books of the connection pool, for any number of requests,           *)
(* connections, nested acquires and faults.  PoolInv is inductive whatever *)
(* the watchers do: each connection has one owner (Owned), each waiter one *)
(* thing it waits for (Queue), and numOpen is the sum of what is owned and *)
(* dialed for (Counted).  CancelInv adds what the mark of a cancelled      *)
(* connection buys, however late watchers fire.  WaitersKept says that     *)
(* nobody is forgotten in the queue, from which the pool deadlocks in      *)
(* three states only.  Liveness (WaitersServed) stays with TLC.            *)
(***************************************************************************)
EXTENDS ConnPool, TLAPS, FiniteSetTheorems, SequenceTheorems

Carried == {r \in Req : chan[r] \in Conn}
Holding == {r \in Req : conn[r] \in Conn}

\* A request is in the queue, or a goroutine dials for it, or its channel holds an answer,
\* and never two of them; only one that waits, or that left too late for the answer.
Queue ==
  /\ \A i, j \in 1..Len(waiters) : waiters[i] = waiters[j] => i = j
  /\ \A i \in 1..Len(waiters) : /\ pc[waiters[i]] \in {"waiting", "leaving"}
                                /\ waiters[i] \notin redial /\ chan[waiters[i]] = None
  /\ \A r \in redial : chan[r] = None /\ pc[r] \in {"waiting", "leaving", "draining", "done"}
  /\ \A r \in Req : chan[r] # None => pc[r] \in {"waiting", "leaving", "draining", "done"}

\* Every connection has one owner.
Owned ==
  /\ \A i, j \in 1..Len(idle) : idle[i] = idle[j] => i = j
  /\ \A r, q \in Req : conn[r] \in Conn /\ conn[r] = conn[q] => r = q
  /\ \A r, q \in Req : chan[r] \in Conn /\ chan[r] = chan[q] => r = q
  /\ \A i \in 1..Len(idle) : \A r \in Req : idle[i] # conn[r] /\ idle[i] # chan[r]
  /\ \A r, q \in Req : conn[r] \in Conn => conn[r] # chan[q]

Alive ==
  /\ \A i \in 1..Len(idle) : life[idle[i]] = "clean"
  /\ \A r \in Req : chan[r] \in Conn => life[chan[r]] = "clean"
  /\ \A r \in Req : conn[r] \in Conn => life[conn[r]] # "gone"

\* The connections and dials there are, by their owners.
InUse == Len(idle) + Cardinality(Carried) + Cardinality(Holding)
           + Cardinality(Dialing) + Cardinality(redial)

Counted == /\ numOpen <= Size /\ numOpen >= InUse /\ (~closed => numOpen = InUse)

PoolInv == TypeOK /\ Queue /\ Owned /\ Alive /\ Counted

----------------------------------------------------------------------------
(* Counting *)

LEMMA CountMove ==
  ASSUME NEW S, NEW T, NEW c, IsFiniteSet(S), S \ {c} = T \ {c}
  PROVE  /\ IsFiniteSet(T) /\ Cardinality(S) \in Nat /\ Cardinality(T) \in Nat
         /\ Cardinality(T) + (IF c \in S THEN 1 ELSE 0) = Cardinality(S) + (IF c \in T THEN 1 ELSE 0)
<1> DEFINE R == S \ {c}
<1>1. IsFiniteSet(R)
  BY FS_Subset
<1>2. c \notin R
  OBVIOUS
<1>3. /\ IsFiniteSet(R \cup {c}) /\ Cardinality(R \cup {c}) = Cardinality(R) + 1
      /\ Cardinality(R) \in Nat
  BY <1>1, <1>2, FS_AddElement, FS_CardinalityType
<1>4. S = IF c \in S THEN R \cup {c} ELSE R
  OBVIOUS
<1>5. T = IF c \in T THEN R \cup {c} ELSE R
  OBVIOUS
<1> HIDE DEF R
<1>6. Cardinality(S) = Cardinality(R) + (IF c \in S THEN 1 ELSE 0)
  BY <1>3, <1>4
<1>7. Cardinality(T) = Cardinality(R) + (IF c \in T THEN 1 ELSE 0) /\ IsFiniteSet(T)
  BY <1>1, <1>3, <1>5
<1> QED
  BY <1>3, <1>6, <1>7

\* Of the requests that satisfy something, one more, one less or the same.
LEMMA ReqCount ==
  ASSUME NEW S \in SUBSET Req, NEW T \in SUBSET Req, NEW r, S \ {r} = T \ {r}
  PROVE  /\ Cardinality(S) \in Nat /\ Cardinality(T) \in Nat
         /\ r \in S /\ r \notin T => Cardinality(T) = Cardinality(S) - 1
         /\ r \notin S /\ r \in T => Cardinality(T) = Cardinality(S) + 1
<1>1. IsFiniteSet(S)
  BY PoolAssumption, FS_Subset
<1> QED
  BY <1>1, CountMove

LEMMA Sizes ==
  ASSUME TypeOK
  PROVE  /\ Cardinality(Carried) \in Nat /\ Cardinality(Holding) \in Nat
         /\ Cardinality(Dialing) \in Nat /\ Cardinality(redial) \in Nat
         /\ Len(idle) \in Nat /\ Len(waiters) \in Nat /\ Size \in Nat
<1>1. /\ Carried \in SUBSET Req /\ Holding \in SUBSET Req /\ Dialing \in SUBSET Req
      /\ redial \in SUBSET Req /\ idle \in Seq(Conn) /\ waiters \in Seq(Req)
  BY DEF TypeOK, Carried, Holding, Dialing
<1>2. Size \in Nat
  BY PoolAssumption
<1>3. \A S \in SUBSET Req : Cardinality(S) \in Nat
  BY ReqCount
<1> QED
  BY <1>1, <1>2, <1>3

LEMMA TopIs ==
  ASSUME TypeOK
  PROVE  /\ Top \in 0..Len(idle) /\ Unfit = Len(idle) - Top /\ Unfit \in Nat
         /\ Top > 0 => life[idle[Top]] = "clean" /\ idle[Top] \in Conn
<1>1. Len(idle) \in Nat /\ DOMAIN idle = 1..Len(idle)
  BY DEF TypeOK
<1>2. Top = 0 \/ Top \in Fit
  BY DEF Top, LastFit
<1>3. Fit \subseteq 1..Len(idle) /\ \A i \in Fit : life[idle[i]] = "clean"
  BY <1>1 DEF Fit
<1>4. \A i \in 1..Len(idle) : idle[i] \in Conn
  BY DEF TypeOK
<1>5. Top \in 0..Len(idle) /\ (Top > 0 => Top \in Fit)
  <2>1. CASE Top = 0
    BY <1>1, <2>1
  <2>2. CASE Top \in Fit
    BY <1>1, <1>3, <2>2
  <2> QED
    BY <1>2, <2>1, <2>2
<1>6. Top > 0 => life[idle[Top]] = "clean" /\ idle[Top] \in Conn
  BY <1>3, <1>4, <1>5
<1> QED
  BY <1>1, <1>5, <1>6 DEF Unfit

LEMMA PoolInit == Init => PoolInv
<1> SUFFICES ASSUME Init PROVE PoolInv
  OBVIOUS
<1>1. /\ idle = <<>> /\ numOpen = 0 /\ waiters = <<>> /\ redial = {}
      /\ \A r \in Req : pc[r] = "new" /\ conn[r] = None /\ chan[r] = None
  BY DEF Init
<1>2. None \notin Conn /\ Size \in Nat
  BY PoolAssumption
<1>3. TypeOK
  <2>1. /\ pc \in [Req -> PC] /\ conn \in [Req -> Conn \cup {None}]
        /\ chan \in [Req -> Conn \cup {None, Nil}]
        /\ life \in [Conn -> {"gone", "clean", "dirty", "dead"}]
    BY DEF Init, PC
  <2>2. \A r \in Req : pc[r] = "held" <=> conn[r] # None
    BY <1>1
  <2>3. idle \in Seq(Conn) /\ waiters \in Seq(Req)
    BY <1>1
  <2> QED
    <3>1. /\ closed \in BOOLEAN /\ tainted \subseteq Conn /\ faults \in Nat
          /\ firing \subseteq Req \X Conn /\ cancels \subseteq Req \X Conn /\ late \subseteq Req \X Conn
      BY DEF Init
    <3> QED
      BY <1>1, <2>1, <2>2, <2>3, <3>1 DEF TypeOK
<1>4. Carried = {} /\ Holding = {} /\ Dialing = {} /\ Len(idle) = 0 /\ Len(waiters) = 0
  BY <1>1, <1>2 DEF Carried, Holding, Dialing
<1>5. Counted
  BY <1>1, <1>2, <1>4, FS_EmptySet DEF Counted, InUse
<1>6. Queue /\ Owned /\ Alive
  BY <1>1, <1>2, <1>4 DEF Queue, Owned, Alive
<1> QED
  BY <1>3, <1>5, <1>6 DEF PoolInv

----------------------------------------------------------------------------
(* The steps of Acquire *)

LEMMA ClosedInv == ASSUME PoolInv, NEW r \in Req, AcquireClosed(r) PROVE PoolInv'
<1>1. /\ pc[r] = "new" /\ pc' = [pc EXCEPT ![r] = "done"] /\ pc \in [Req -> PC]
      /\ UNCHANGED <<pool, conn, chan, redial, wire, faults>>
  BY DEF AcquireClosed, MayAcquire, Goto, PoolInv, TypeOK
<1>2. TypeOK'
  BY <1>1 DEF PoolInv, TypeOK, PC, pool, wire
<1>3. Queue'
  BY <1>1 DEF PoolInv, TypeOK, Queue, pool
<1>4. Dialing' = Dialing
  BY <1>1 DEF Dialing
<1>5. Counted'
  BY <1>1, <1>4 DEF PoolInv, Counted, InUse, Carried, Holding, pool
<1> QED
  BY <1>1, <1>2, <1>3, <1>5 DEF PoolInv, Owned, Alive, pool, wire

LEMMA AcquireIdleInv == ASSUME PoolInv, NEW r \in Req, AcquireIdle(r) PROVE PoolInv'
<1> DEFINE c == idle[Top]
<1>1. /\ pc[r] = "new" /\ conn[r] = None /\ Top \in 1..Len(idle) /\ Len(idle) \in Nat
      /\ c \in Conn /\ Unfit = Len(idle) - Top
  BY TopIs DEF AcquireIdle, MayAcquire, PoolInv, TypeOK
<1>2. /\ conn' = [conn EXCEPT ![r] = c] /\ pc' = [pc EXCEPT ![r] = "held"]
      /\ idle' = SubSeq(idle, 1, Top - 1) /\ numOpen' = numOpen - Unfit
      /\ life' = [d \in Conn |-> IF d \in Destroyed THEN "gone" ELSE life[d]]
      /\ UNCHANGED <<waiters, closed, chan, redial, tainted, firing, cancels, late, faults>>
  BY DEF AcquireIdle, Goto
<1>3. /\ pc \in [Req -> PC] /\ conn \in [Req -> Conn \cup {None}] /\ idle \in Seq(Conn)
      /\ chan \in [Req -> Conn \cup {None, Nil}] /\ numOpen \in Nat
      /\ life \in [Conn -> {"gone", "clean", "dirty", "dead"}]
  BY DEF PoolInv, TypeOK
<1>4. /\ idle' \in Seq(Conn) /\ Len(idle') = Top - 1
      /\ \A i \in 1..(Top - 1) : i \in 1..Len(idle) /\ idle'[i] = idle[i]
  BY SMTT(60), <1>1, <1>2, <1>3
<1>5. \A d \in Destroyed : \E i \in 1..Len(idle) : i > Top /\ d = idle[i]
  BY <1>1 DEF Destroyed
<1>6. /\ \A i, j \in 1..Len(idle) : idle[i] = idle[j] => i = j
      /\ \A i \in 1..Len(idle) : \A q \in Req : idle[i] # conn[q] /\ idle[i] # chan[q]
  BY DEF PoolInv, Owned
<1>7. /\ c \notin Destroyed /\ \A i \in 1..Len(idle') : idle'[i] \notin Destroyed
      /\ \A q \in Req : conn[q] \notin Destroyed /\ chan[q] \notin Destroyed
  BY SMTT(60), <1>1, <1>4, <1>5, <1>6
<1>8. None \notin Conn
  BY PoolAssumption
<1>9. numOpen' \in Nat /\ numOpen' = numOpen - (Len(idle) - Top)
  <2>1. numOpen >= Len(idle)
    BY <1>3, Sizes DEF PoolInv, Counted, InUse
  <2> QED
    BY <1>1, <1>2, <1>3, <2>1
<1>10. TypeOK'
  <2>1. pc' \in [Req -> PC] /\ conn' \in [Req -> Conn \cup {None}]
    BY <1>1, <1>2, <1>3 DEF PC
  <2>2. \A q \in Req : pc'[q] = "held" <=> conn'[q] # None
    BY <1>1, <1>2, <1>3, <1>8 DEF PoolInv, TypeOK
  <2>3. life' \in [Conn -> {"gone", "clean", "dirty", "dead"}]
    BY <1>2, <1>3
  <2> QED
    BY <1>2, <1>4, <1>9, <2>1, <2>2, <2>3 DEF PoolInv, TypeOK
<1>11. Queue'
  <2>1. /\ \A i \in 1..Len(waiters) : waiters[i] # r
        /\ r \notin redial /\ chan[r] = None /\ \A i \in 1..Len(waiters) : waiters[i] \in Req
    BY <1>1 DEF PoolInv, Queue, TypeOK
  <2> QED
    BY <1>2, <1>3, <2>1 DEF PoolInv, Queue
<1>12. Owned'
  <2>1. \A q \in Req \ {r} : conn'[q] = conn[q] /\ conn[q] # c
    BY <1>1, <1>2, <1>3, <1>6
  <2>2. conn'[r] = c /\ \A q \in Req : chan[q] # c
    BY <1>1, <1>2, <1>3, <1>6
  <2>3. \A i \in 1..Len(idle') : idle'[i] # c
    BY SMTT(60), <1>1, <1>4, <1>6
  <2>4. \A i \in 1..Len(idle') : \A q \in Req : idle'[i] # conn'[q] /\ idle'[i] # chan'[q]
    BY <1>2, <1>4, <1>6, <2>1, <2>2, <2>3
  <2>5. \A i, j \in 1..Len(idle') : idle'[i] = idle'[j] => i = j
    BY <1>4, <1>6
  <2> HIDE DEF c
  <2>6. \A p, q \in Req : conn'[p] \in Conn => conn'[p] # chan[q]
    BY <2>1, <2>2 DEF PoolInv, Owned
  <2>7. \A p, q \in Req : conn'[p] \in Conn /\ conn'[p] = conn'[q] => p = q
    BY <2>1, <2>2 DEF PoolInv, Owned
  <2> QED
    BY ZenonT(90), <1>2, <2>4, <2>5, <2>6, <2>7 DEF PoolInv, Owned
<1>13. Alive'
  <2>1. \A d \in Conn \ Destroyed : life'[d] = life[d]
    BY <1>2
  <2>2. \A i \in 1..Len(idle') : life'[idle'[i]] = "clean"
    BY <1>3, <1>4, <1>7, <2>1 DEF PoolInv, Alive
  <2>3. \A q \in Req : chan'[q] \in Conn => life'[chan'[q]] = "clean"
    BY <1>2, <1>7, <2>1 DEF PoolInv, Alive
  <2>4. life[c] = "clean"
    BY <1>1 DEF PoolInv, Alive
  <2>5. \A q \in Req : conn'[q] \in Conn => life'[conn'[q]] # "gone"
    BY <1>1, <1>2, <1>3, <1>7, <2>1, <2>4 DEF PoolInv, Alive
  <2> QED
    BY <2>2, <2>3, <2>5 DEF Alive
<1>14. Counted'
  <2>1. Carried' = Carried /\ redial' = redial
    BY <1>2 DEF Carried
  <2>2. Dialing' = Dialing
    BY <1>1, <1>2, <1>3 DEF Dialing
  <2>3. Cardinality(Holding') = Cardinality(Holding) + 1
    <3>1. /\ Holding \in SUBSET Req /\ Holding' \in SUBSET Req /\ r \notin Holding /\ r \in Holding'
          /\ Holding \ {r} = Holding' \ {r}
      BY <1>1, <1>2, <1>3, <1>8 DEF Holding
    <3> QED
      BY <3>1, ReqCount
  <2>4. InUse' = InUse - Unfit
    BY SMTT(60), <1>1, <1>4, <2>1, <2>2, <2>3, Sizes DEF InUse, PoolInv
  <2> QED
    BY SMTT(60), <1>1, <1>2, <1>3, <2>4, Sizes DEF PoolInv, Counted, InUse
<1> QED
  BY <1>10, <1>11, <1>12, <1>13, <1>14 DEF PoolInv

LEMMA AcquireNewInv == ASSUME PoolInv, NEW r \in Req, AcquireNew(r) PROVE PoolInv'
<1>1. /\ pc[r] = "new" /\ conn[r] = None /\ Top = 0 /\ Len(idle) \in Nat /\ Unfit = Len(idle)
      /\ pc \in [Req -> PC] /\ idle \in Seq(Conn) /\ waiters \in Seq(Req) /\ numOpen \in Nat
      /\ life \in [Conn -> {"gone", "clean", "dirty", "dead"}]
  BY TopIs DEF AcquireNew, MayAcquire, PoolInv, TypeOK
<1>2. /\ idle' = <<>> /\ life' = [d \in Conn |-> IF d \in Destroyed THEN "gone" ELSE life[d]]
      /\ UNCHANGED <<closed, conn, chan, redial, tainted, firing, cancels, late, faults>>
      /\ \/ /\ numOpen - Len(idle) < Size /\ numOpen' = numOpen - Len(idle) + 1
            /\ pc' = [pc EXCEPT ![r] = "dialing"] /\ waiters' = waiters
         \/ /\ numOpen' = numOpen - Len(idle)
            /\ pc' = [pc EXCEPT ![r] = "waiting"] /\ waiters' = Append(waiters, r)
  BY <1>1 DEF AcquireNew, Goto
<1>3. \A d \in Destroyed : \E i \in 1..Len(idle) : d = idle[i]
  BY <1>1 DEF Destroyed
<1>4. \A q \in Req : conn[q] \notin Destroyed /\ chan[q] \notin Destroyed
  BY <1>3 DEF PoolInv, Owned
<1>5. Len(idle') = 0 /\ idle' \in Seq(Conn)
  BY <1>2
<1>6. numOpen - Len(idle) \in Nat /\ numOpen' \in Nat
  <2>1. numOpen >= Len(idle)
    BY <1>1, Sizes DEF PoolInv, Counted, InUse
  <2> QED
    BY <1>1, <1>2, <2>1
<1>7. TypeOK'
  <2>0. {"dialing", "waiting"} \subseteq PC
    BY DEF PC
  <2>1. pc' \in [Req -> PC] /\ waiters' \in Seq(Req)
    <3>1. pc' \in [Req -> PC]
      BY <1>1, <1>2, <2>0
    <3>2. waiters' \in Seq(Req)
      <4>1. waiters' = waiters \/ waiters' = Append(waiters, r)
        BY <1>2
      <4> QED
        BY <1>1, <4>1
    <3> QED
      BY <3>1, <3>2
  <2>2. \A q \in Req : pc'[q] = "held" <=> conn'[q] # None
    BY <1>1, <1>2 DEF PoolInv, TypeOK
  <2>3. life' \in [Conn -> {"gone", "clean", "dirty", "dead"}]
    BY <1>1, <1>2
  <2> QED
    BY <1>2, <1>5, <1>6, <2>1, <2>2, <2>3 DEF PoolInv, TypeOK
<1>8. Queue'
  <2>1. /\ \A i \in 1..Len(waiters) : waiters[i] # r
        /\ r \notin redial /\ chan[r] = None /\ \A i \in 1..Len(waiters) : waiters[i] \in Req
    BY <1>1 DEF PoolInv, Queue, TypeOK
  <2>2. CASE pc' = [pc EXCEPT ![r] = "dialing"] /\ waiters' = waiters
    BY <1>1, <1>2, <2>1, <2>2 DEF PoolInv, Queue
  <2>3. CASE pc' = [pc EXCEPT ![r] = "waiting"] /\ waiters' = Append(waiters, r)
    <3>1. /\ Len(waiters') = Len(waiters) + 1 /\ Len(waiters) \in Nat
          /\ waiters'[Len(waiters) + 1] = r
          /\ \A i \in 1..Len(waiters) : waiters'[i] = waiters[i]
      BY <1>1, <2>3
    <3>2. \A i \in 1..Len(waiters') : i \in 1..Len(waiters) \/ i = Len(waiters) + 1
      BY <3>1
    <3>3. \A i, j \in 1..Len(waiters') : waiters'[i] = waiters'[j] => i = j
      BY <2>1, <3>1, <3>2 DEF PoolInv, Queue
    <3>4. \A i \in 1..Len(waiters') : /\ pc'[waiters'[i]] \in {"waiting", "leaving"}
                                      /\ waiters'[i] \notin redial /\ chan[waiters'[i]] = None
      BY <1>1, <2>1, <2>3, <3>1, <3>2 DEF PoolInv, Queue
    <3> QED
      BY <1>1, <1>2, <2>1, <2>3, <3>3, <3>4 DEF PoolInv, Queue
  <2> QED
    BY <1>2, <2>2, <2>3
<1>9. Owned'
  BY <1>2, <1>5 DEF PoolInv, Owned
<1>10. Alive'
  BY <1>2, <1>4, <1>5 DEF PoolInv, Alive
<1>11. Counted'
  <2>1. Carried' = Carried /\ redial' = redial /\ Holding' = Holding
    BY <1>2 DEF Carried, Holding
  <2>2. CASE numOpen - Len(idle) < Size /\ numOpen' = numOpen - Len(idle) + 1
             /\ pc' = [pc EXCEPT ![r] = "dialing"]
    <3>1. Cardinality(Dialing') = Cardinality(Dialing) + 1
      <4>1. /\ Dialing \in SUBSET Req /\ Dialing' \in SUBSET Req /\ r \notin Dialing /\ r \in Dialing'
            /\ Dialing \ {r} = Dialing' \ {r}
        BY <1>1, <2>2 DEF Dialing
      <4> QED
        BY <4>1, ReqCount
    <3>2. InUse' = InUse - Len(idle) + 1 /\ InUse \in Nat
      <4>1. InUse' = 0 + Cardinality(Carried) + Cardinality(Holding)
                       + (Cardinality(Dialing) + 1) + Cardinality(redial)
        BY <1>5, <2>1, <3>1 DEF InUse
      <4> QED
        BY SMTT(60), <4>1, Sizes DEF InUse, PoolInv
    <3> QED
      BY <1>1, <1>2, <2>2, <3>2, Sizes DEF PoolInv, Counted
  <2>3. CASE numOpen' = numOpen - Len(idle) /\ pc' = [pc EXCEPT ![r] = "waiting"]
    <3>1. Dialing' = Dialing
      BY <1>1, <2>3 DEF Dialing
    <3>2. InUse' = InUse - Len(idle) /\ InUse \in Nat
      BY <1>5, <2>1, <3>1, Sizes DEF InUse, PoolInv
    <3> QED
      BY <1>1, <1>2, <2>3, <3>2, Sizes DEF PoolInv, Counted
  <2> QED
    BY <1>2, <2>2, <2>3
<1> QED
  BY <1>7, <1>8, <1>9, <1>10, <1>11 DEF PoolInv

\* A connection that is gone is in no place.
LEMMA GoneIsLoose ==
  ASSUME PoolInv, NEW c \in Conn, life[c] = "gone"
  PROVE  /\ \A i \in 1..Len(idle) : idle[i] # c
         /\ \A r \in Req : conn[r] # c /\ chan[r] # c
BY DEF PoolInv, Alive

LEMMA DialOkInv == ASSUME PoolInv, NEW r \in Req, NEW c \in Conn, DialOk(r, c) PROVE PoolInv'
<1>1. /\ pc[r] = "dialing" /\ conn[r] = None /\ life[c] = "gone"
      /\ pc \in [Req -> PC] /\ conn \in [Req -> Conn \cup {None}]
      /\ life \in [Conn -> {"gone", "clean", "dirty", "dead"}]
  BY DEF DialOk, Connect, Fresh, PoolInv, TypeOK
<1>2. /\ conn' = [conn EXCEPT ![r] = c] /\ pc' = [pc EXCEPT ![r] = "held"]
      /\ life' = [life EXCEPT ![c] = "clean"] /\ tainted' = tainted \ {c}
      /\ late' = late \ (Req \X {c})
      /\ UNCHANGED <<pool, chan, redial, firing, cancels, faults>>
  BY DEF DialOk, Connect, Goto
<1>3. None \notin Conn
  BY PoolAssumption
<1>4. /\ \A i \in 1..Len(idle) : idle[i] # c
      /\ \A q \in Req : conn[q] # c /\ chan[q] # c
  BY <1>1, GoneIsLoose
<1>5. TypeOK'
  <2>1. pc' \in [Req -> PC] /\ conn' \in [Req -> Conn \cup {None}]
    BY <1>1, <1>2 DEF PC
  <2>2. \A q \in Req : pc'[q] = "held" <=> conn'[q] # None
    BY <1>1, <1>2, <1>3 DEF PoolInv, TypeOK
  <2>3. life' \in [Conn -> {"gone", "clean", "dirty", "dead"}]
    BY <1>1, <1>2
  <2> QED
    BY <1>2, <2>1, <2>2, <2>3 DEF PoolInv, TypeOK, pool
<1>6. Queue'
  <2>1. /\ \A i \in 1..Len(waiters) : waiters[i] # r
        /\ r \notin redial /\ chan[r] = None /\ \A i \in 1..Len(waiters) : waiters[i] \in Req
    BY <1>1 DEF PoolInv, Queue, TypeOK
  <2> QED
    BY <1>1, <1>2, <2>1 DEF PoolInv, Queue, pool
<1>7. Owned'
  <2>1. conn'[r] = c /\ \A q \in Req \ {r} : conn'[q] = conn[q]
    BY <1>1, <1>2
  <2> QED
    BY <1>2, <1>4, <2>1 DEF PoolInv, Owned, pool
<1>8. Alive'
  <2>1. conn'[r] = c /\ \A q \in Req \ {r} : conn'[q] = conn[q]
    BY <1>1, <1>2
  <2>2. life'[c] = "clean" /\ \A d \in Conn \ {c} : life'[d] = life[d]
    BY <1>1, <1>2
  <2>3. \A i \in 1..Len(idle) : idle[i] \in Conn
    BY DEF PoolInv, TypeOK
  <2> QED
    BY <1>2, <1>4, <2>1, <2>2, <2>3 DEF PoolInv, Alive, pool
<1>9. Counted'
  <2>1. Carried' = Carried /\ redial' = redial /\ idle' = idle
    BY <1>2 DEF Carried, pool
  <2>2. Cardinality(Dialing') = Cardinality(Dialing) - 1
    <3>1. /\ Dialing \in SUBSET Req /\ Dialing' \in SUBSET Req /\ r \in Dialing /\ r \notin Dialing'
          /\ Dialing \ {r} = Dialing' \ {r}
      BY <1>1, <1>2 DEF Dialing
    <3> QED
      BY <3>1, ReqCount
  <2>3. Cardinality(Holding') = Cardinality(Holding) + 1
    <3>1. /\ Holding \in SUBSET Req /\ Holding' \in SUBSET Req /\ r \notin Holding /\ r \in Holding'
          /\ Holding \ {r} = Holding' \ {r}
      BY <1>1, <1>2, <1>3 DEF Holding
    <3> QED
      BY <3>1, ReqCount
  <2>4. InUse' = InUse
    BY <2>1, <2>2, <2>3, Sizes DEF InUse, PoolInv
  <2> QED
    BY <1>2, <2>4 DEF PoolInv, Counted, pool
<1> QED
  BY <1>5, <1>6, <1>7, <1>8, <1>9 DEF PoolInv

LEMMA DialFailsInv == ASSUME PoolInv, NEW r \in Req, DialFails(r) PROVE PoolInv'
<1>1. /\ pc[r] = "dialing" /\ conn[r] = None /\ pc \in [Req -> PC] /\ numOpen \in Nat /\ faults \in Nat
  BY DEF DialFails, PoolInv, TypeOK
<1>2. /\ pc' = [pc EXCEPT ![r] = "done"] /\ numOpen' = numOpen - 1 /\ faults' = faults + 1
      /\ UNCHANGED <<idle, waiters, closed, conn, chan, redial, wire>>
  BY DEF DialFails, Goto, Fault
<1>3. Cardinality(Dialing') = Cardinality(Dialing) - 1
  <2>1. /\ Dialing \in SUBSET Req /\ Dialing' \in SUBSET Req /\ r \in Dialing /\ r \notin Dialing'
        /\ Dialing \ {r} = Dialing' \ {r}
    BY <1>1, <1>2 DEF Dialing
  <2> QED
    BY <2>1, ReqCount
<1>4. InUse' = InUse - 1 /\ InUse \in Nat /\ InUse' \in Nat
  <2>1. Carried' = Carried /\ redial' = redial /\ Holding' = Holding /\ Dialing' \in SUBSET Req
    BY <1>2 DEF Carried, Holding, Dialing
  <2>2. Cardinality(Dialing') \in Nat
    BY <2>1, ReqCount
  <2>3. InUse' = Len(idle) + Cardinality(Carried) + Cardinality(Holding)
                   + (Cardinality(Dialing) - 1) + Cardinality(redial)
    BY <1>2, <1>3, <2>1 DEF InUse
  <2>4. Cardinality(Dialing) - 1 \in Nat
    BY <1>3, <2>2
  <2> QED
    BY SMTT(60), <2>3, <2>4, Sizes DEF InUse, PoolInv
<1>5. Counted' /\ numOpen' \in Nat
  BY <1>1, <1>2, <1>4, Sizes DEF PoolInv, Counted
<1>6. TypeOK'
  <2>1. pc' \in [Req -> PC]
    BY <1>1, <1>2 DEF PC
  <2>2. \A q \in Req : pc'[q] = "held" <=> conn'[q] # None
    BY <1>1, <1>2 DEF PoolInv, TypeOK
  <2> QED
    BY <1>1, <1>2, <1>5, <2>1, <2>2 DEF PoolInv, TypeOK, wire
<1>7. Queue'
  BY <1>1, <1>2 DEF PoolInv, Queue, TypeOK
<1> QED
  BY <1>2, <1>5, <1>6, <1>7 DEF PoolInv, Owned, Alive, wire

LEMMA ReceiveInv == ASSUME PoolInv, NEW r \in Req, Receive(r) PROVE PoolInv'
<1>1. /\ pc[r] = "waiting" /\ conn[r] = None /\ chan[r] \in Conn \cup {Nil} /\ chan[r] # None
      /\ pc \in [Req -> PC] /\ conn \in [Req -> Conn \cup {None}] /\ numOpen \in Nat
      /\ chan \in [Req -> Conn \cup {None, Nil}]
      /\ life \in [Conn -> {"gone", "clean", "dirty", "dead"}]
  BY DEF Receive, PoolInv, TypeOK
<1>2. None \notin Conn /\ Nil \notin Conn
  BY PoolAssumption
<1>3. /\ chan' = [chan EXCEPT ![r] = None]
      /\ UNCHANGED <<idle, waiters, closed, redial, tainted, firing, cancels, late, faults>>
      /\ \/ chan[r] = Nil /\ pc' = [pc EXCEPT ![r] = "done"] /\ UNCHANGED <<conn, numOpen, life>>
         \/ /\ chan[r] \in Conn /\ pc' = [pc EXCEPT ![r] = "held"] /\ conn' = [conn EXCEPT ![r] = chan[r]]
            /\ UNCHANGED <<numOpen, life>>
  BY <1>1 DEF Receive, Goto, PoolInv, Alive
<1>4. /\ \A i \in 1..Len(waiters) : waiters[i] # r /\ waiters[i] \in Req
      /\ r \notin redial
  BY <1>1 DEF PoolInv, Queue, TypeOK
<1>5. Queue'
  BY <1>1, <1>3, <1>4 DEF PoolInv, Queue, TypeOK
<1>6. chan' \in [Req -> Conn \cup {None, Nil}] /\ chan'[r] = None
      /\ \A q \in Req \ {r} : chan'[q] = chan[q]
  BY <1>1, <1>3
<1>7. Dialing' = Dialing
  BY <1>1, <1>3 DEF Dialing
<1>8. CASE chan[r] = Nil /\ pc' = [pc EXCEPT ![r] = "done"] /\ UNCHANGED <<conn, numOpen, life>>
  <2>1. TypeOK'
    <3>1. pc' \in [Req -> PC]
      BY <1>1, <1>8 DEF PC
    <3>2. \A q \in Req : pc'[q] = "held" <=> conn'[q] # None
      BY <1>1, <1>8 DEF PoolInv, TypeOK
    <3> QED
      BY <1>3, <1>6, <1>8, <3>1, <3>2 DEF PoolInv, TypeOK
  <2>2. Carried' = Carried /\ Holding' = Holding
    BY <1>2, <1>3, <1>6, <1>8 DEF Carried, Holding
  <2>3. Counted'
    BY <1>3, <1>7, <1>8, <2>2 DEF PoolInv, Counted, InUse
  <2>4. \A q \in Req : chan'[q] = chan[q] \/ chan'[q] = None
    BY <1>6
  <2>5. Owned'
    <3>1. \A i \in 1..Len(idle) : idle[i] \in Conn
      BY DEF PoolInv, TypeOK
    <3> QED
      BY <1>2, <1>3, <1>8, <2>4, <3>1 DEF PoolInv, Owned
  <2>6. Alive'
    BY <1>2, <1>3, <1>8, <2>4 DEF PoolInv, Alive
  <2> QED
    BY <1>5, <2>1, <2>3, <2>5, <2>6 DEF PoolInv
<1>9. CASE /\ chan[r] \in Conn /\ pc' = [pc EXCEPT ![r] = "held"] /\ conn' = [conn EXCEPT ![r] = chan[r]]
           /\ UNCHANGED <<numOpen, life>>
  <2> DEFINE c == chan[r]
  <2>0. conn'[r] = c /\ \A q \in Req \ {r} : conn'[q] = conn[q]
    BY <1>1, <1>9
  <2>1. TypeOK'
    <3>1. pc' \in [Req -> PC] /\ conn' \in [Req -> Conn \cup {None}]
      BY <1>1, <1>9 DEF PC
    <3>2. \A q \in Req : pc'[q] = "held" <=> conn'[q] # None
      BY <1>1, <1>2, <1>9 DEF PoolInv, TypeOK
    <3> QED
      BY <1>3, <1>6, <1>9, <3>1, <3>2 DEF PoolInv, TypeOK
  <2>2. Cardinality(Carried') = Cardinality(Carried) - 1
    <3>1. /\ Carried \in SUBSET Req /\ Carried' \in SUBSET Req /\ r \in Carried /\ r \notin Carried'
          /\ Carried \ {r} = Carried' \ {r}
      BY <1>2, <1>6, <1>9 DEF Carried
    <3> QED
      BY <3>1, ReqCount
  <2>3. Cardinality(Holding') = Cardinality(Holding) + 1
    <3>1. /\ Holding \in SUBSET Req /\ Holding' \in SUBSET Req /\ r \notin Holding /\ r \in Holding'
          /\ Holding \ {r} = Holding' \ {r}
      BY <1>1, <1>2, <1>9, <2>0 DEF Holding
    <3> QED
      BY <3>1, ReqCount
  <2>4. Counted'
    <3>1. InUse' = InUse
      BY <1>3, <1>7, <2>2, <2>3, Sizes DEF InUse, PoolInv
    <3> QED
      BY <1>3, <1>9, <3>1 DEF PoolInv, Counted
  <2>5. Owned'
    <3>1. /\ \A q \in Req : conn[q] # c /\ (q # r => chan[q] # c)
          /\ \A i \in 1..Len(idle) : idle[i] # c
          /\ chan'[r] = None /\ c \in Conn
      BY <1>1, <1>6, <1>9 DEF PoolInv, Owned
    <3> HIDE DEF c
    <3>2. \A q, p \in Req : conn'[q] \in Conn /\ conn'[q] = conn'[p] => q = p
      BY <2>0, <3>1 DEF PoolInv, Owned
    <3>3. \A q, p \in Req : chan'[q] \in Conn /\ chan'[q] = chan'[p] => q = p
      BY <1>2, <1>6, <3>1 DEF PoolInv, Owned
    <3>4. \A i \in 1..Len(idle) : \A q \in Req : idle[i] # conn'[q]
      BY <2>0, <3>1 DEF PoolInv, Owned
    <3>5. \A i \in 1..Len(idle) : \A q \in Req : idle[i] # chan'[q]
      <4>1. \A i \in 1..Len(idle) : idle[i] \in Conn
        BY DEF PoolInv, TypeOK
      <4> QED
        BY <1>2, <1>6, <4>1 DEF PoolInv, Owned
    <3>6. \A q, p \in Req : conn'[q] \in Conn => conn'[q] # chan'[p]
      BY <1>2, <1>6, <2>0, <3>1 DEF PoolInv, Owned
    <3> QED
      BY <1>3, <3>2, <3>3, <3>4, <3>5, <3>6 DEF PoolInv, Owned
  <2>6. Alive'
    BY <1>2, <1>3, <1>6, <1>9, <2>0 DEF PoolInv, Alive
  <2> QED
    BY <1>5, <2>1, <2>4, <2>5, <2>6 DEF PoolInv
<1> QED
  BY <1>3, <1>8, <1>9

----------------------------------------------------------------------------
(* The redials of wakeWaiterLocked, and a context that ends *)

LEMMA RedialOkInv == ASSUME PoolInv, NEW r \in Req, NEW c \in Conn, RedialOk(r, c) PROVE PoolInv'
<1>1. /\ r \in redial /\ life[c] = "gone" /\ chan[r] = None
      /\ pc[r] \in {"waiting", "leaving", "draining", "done"}
      /\ chan \in [Req -> Conn \cup {None, Nil}]
      /\ life \in [Conn -> {"gone", "clean", "dirty", "dead"}]
  BY DEF RedialOk, Connect, Fresh, PoolInv, TypeOK, Queue
<1>2. /\ chan' = [chan EXCEPT ![r] = c] /\ redial' = redial \ {r}
      /\ life' = [life EXCEPT ![c] = "clean"] /\ tainted' = tainted \ {c}
      /\ late' = late \ (Req \X {c})
      /\ UNCHANGED <<idle, numOpen, waiters, closed, pc, conn, firing, cancels, faults>>
  BY DEF RedialOk, Connect, pool
<1>3. None \notin Conn
  BY PoolAssumption
<1>4. /\ \A i \in 1..Len(idle) : idle[i] # c
      /\ \A q \in Req : conn[q] # c /\ chan[q] # c
  BY <1>1, GoneIsLoose
<1>5. chan'[r] = c /\ \A q \in Req \ {r} : chan'[q] = chan[q]
  BY <1>1, <1>2
<1>6. TypeOK'
  <2>1. chan' \in [Req -> Conn \cup {None, Nil}]
    BY <1>1, <1>2
  <2>2. life' \in [Conn -> {"gone", "clean", "dirty", "dead"}]
    BY <1>1, <1>2
  <2> QED
    BY <1>2, <2>1, <2>2 DEF PoolInv, TypeOK
<1>7. Queue'
  <2>1. \A i \in 1..Len(waiters) : waiters[i] # r /\ waiters[i] \in Req
    BY <1>1 DEF PoolInv, Queue, TypeOK
  <2>2. \A q \in redial' : chan'[q] = None /\ pc'[q] \in {"waiting", "leaving", "draining", "done"}
    BY <1>2, <1>5 DEF PoolInv, Queue, TypeOK
  <2>3. \A q \in Req : chan'[q] # None => pc'[q] \in {"waiting", "leaving", "draining", "done"}
    BY <1>1, <1>2, <1>5 DEF PoolInv, Queue
  <2> QED
    BY <1>2, <1>5, <2>1, <2>2, <2>3 DEF PoolInv, Queue
<1>8. Owned'
  BY <1>2, <1>4, <1>5 DEF PoolInv, Owned
<1>9. Alive'
  <2>1. life'[c] = "clean" /\ \A d \in Conn \ {c} : life'[d] = life[d]
    BY <1>1, <1>2
  <2>2. \A i \in 1..Len(idle) : idle[i] \in Conn
    BY DEF PoolInv, TypeOK
  <2> QED
    BY <1>2, <1>4, <1>5, <2>1, <2>2 DEF PoolInv, Alive
<1>10. Counted'
  <2>1. Holding' = Holding /\ Dialing' = Dialing
    BY <1>2 DEF Holding, Dialing
  <2>2. Cardinality(Carried') = Cardinality(Carried) + 1
    <3>1. /\ Carried \in SUBSET Req /\ Carried' \in SUBSET Req /\ r \notin Carried /\ r \in Carried'
          /\ Carried \ {r} = Carried' \ {r}
      BY <1>1, <1>3, <1>5 DEF Carried
    <3> QED
      BY <3>1, ReqCount
  <2>3. Cardinality(redial') = Cardinality(redial) - 1
    <3>1. /\ redial \in SUBSET Req /\ redial' \in SUBSET Req /\ r \notin redial'
          /\ redial \ {r} = redial' \ {r}
      BY <1>2 DEF PoolInv, TypeOK
    <3> QED
      BY <1>1, <3>1, ReqCount
  <2>4. InUse' = InUse
    BY SMTT(60), <1>2, <2>1, <2>2, <2>3, Sizes DEF InUse, PoolInv
  <2> QED
    BY <1>2, <2>4 DEF PoolInv, Counted
<1> QED
  BY <1>6, <1>7, <1>8, <1>9, <1>10 DEF PoolInv

LEMMA RedialFailsInv == ASSUME PoolInv, NEW r \in Req, RedialFails(r) PROVE PoolInv'
<1>1. /\ r \in redial /\ chan[r] = None /\ numOpen \in Nat /\ faults \in Nat
      /\ pc[r] \in {"waiting", "leaving", "draining", "done"}
      /\ chan \in [Req -> Conn \cup {None, Nil}]
  BY DEF RedialFails, PoolInv, TypeOK, Queue
<1>2. /\ chan' = [chan EXCEPT ![r] = Nil] /\ redial' = redial \ {r} /\ numOpen' = numOpen - 1
      /\ faults' = faults + 1
      /\ UNCHANGED <<idle, waiters, closed, pc, conn, life, tainted, firing, cancels, late>>
  BY DEF RedialFails, Fault, wire
<1>3. None \notin Conn /\ Nil \notin Conn
  BY PoolAssumption
<1>4. chan'[r] = Nil /\ \A q \in Req \ {r} : chan'[q] = chan[q]
  BY <1>1, <1>2
<1>5. Counted' /\ numOpen' \in Nat
  <2>1. Holding' = Holding /\ Dialing' = Dialing
    BY <1>2 DEF Holding, Dialing
  <2>2. Carried' = Carried
    BY <1>1, <1>3, <1>4 DEF Carried
  <2>3. Cardinality(redial') = Cardinality(redial) - 1 /\ Cardinality(redial') \in Nat
    <3>1. /\ redial \in SUBSET Req /\ redial' \in SUBSET Req /\ r \notin redial'
          /\ redial \ {r} = redial' \ {r}
      BY <1>2 DEF PoolInv, TypeOK
    <3> QED
      BY <1>1, <3>1, ReqCount
  <2>4. InUse' = Len(idle) + Cardinality(Carried) + Cardinality(Holding)
                   + Cardinality(Dialing) + (Cardinality(redial) - 1)
    BY <1>2, <2>1, <2>2, <2>3 DEF InUse
  <2>5. Cardinality(redial) - 1 \in Nat
    BY <2>3
  <2>6. InUse' = InUse - 1 /\ InUse' \in Nat /\ InUse \in Nat
    <3>1. InUse = Len(idle) + Cardinality(Carried) + Cardinality(Holding)
                    + Cardinality(Dialing) + Cardinality(redial)
      BY DEF InUse
    <3> QED
      BY SMTT(60), <2>4, <2>5, <3>1, Sizes DEF PoolInv
  <2> QED
    BY <1>1, <1>2, <2>6, Sizes DEF PoolInv, Counted
<1>6. TypeOK'
  <2>1. chan' \in [Req -> Conn \cup {None, Nil}]
    BY <1>1, <1>2
  <2> QED
    BY <1>1, <1>2, <1>5, <2>1 DEF PoolInv, TypeOK
<1>7. Queue'
  <2>1. \A i \in 1..Len(waiters) : waiters[i] # r /\ waiters[i] \in Req
    BY <1>1 DEF PoolInv, Queue, TypeOK
  <2>2. \A q \in redial' : chan'[q] = None /\ pc'[q] \in {"waiting", "leaving", "draining", "done"}
    BY <1>2, <1>4 DEF PoolInv, Queue, TypeOK
  <2>3. \A q \in Req : chan'[q] # None => pc'[q] \in {"waiting", "leaving", "draining", "done"}
    BY <1>1, <1>2, <1>4 DEF PoolInv, Queue
  <2> QED
    BY <1>2, <1>4, <2>1, <2>2, <2>3 DEF PoolInv, Queue
<1>8. \A i \in 1..Len(idle) : idle[i] \in Conn
  BY DEF PoolInv, TypeOK
<1>9. Owned'
  BY <1>2, <1>3, <1>4, <1>8 DEF PoolInv, Owned
<1>10. Alive'
  BY <1>2, <1>3, <1>4 DEF PoolInv, Alive
<1> QED
  BY <1>5, <1>6, <1>7, <1>9, <1>10 DEF PoolInv

\* A step that moves no connection and no dial.
LEMMA Still ==
  ASSUME PoolInv, UNCHANGED <<idle, numOpen, closed, conn, chan, redial, life>>,
         Dialing' = Dialing
  PROVE  Owned' /\ Alive' /\ Counted'
<1>1. Owned'
  BY DEF PoolInv, Owned
<1>2. Alive'
  BY DEF PoolInv, Alive
<1>3. Carried' = Carried /\ Holding' = Holding
  BY DEF Carried, Holding
<1> QED
  BY <1>1, <1>2, <1>3 DEF PoolInv, Counted, InUse

LEMMA GiveUpInv == ASSUME PoolInv, NEW r \in Req, GiveUp(r) PROVE PoolInv'
<1>1. /\ pc[r] = "waiting" /\ pc \in [Req -> PC] /\ pc' = [pc EXCEPT ![r] = "leaving"]
      /\ faults \in Nat /\ faults' = faults + 1
      /\ UNCHANGED <<idle, numOpen, waiters, closed, conn, chan, redial, life, tainted, firing, cancels, late>>
  BY DEF GiveUp, Fault, Goto, pool, wire, PoolInv, TypeOK
<1>2. \A q \in Req : q # r => pc'[q] = pc[q]
  BY <1>1
<1>3. pc'[r] = "leaving"
  BY <1>1
<1>4. Owned' /\ Alive' /\ Counted'
  BY <1>1, Still DEF Dialing
<1>5. TypeOK'
  <2>1. pc' \in [Req -> PC]
    BY <1>1 DEF PC
  <2>2. \A q \in Req : pc'[q] = "held" <=> conn'[q] # None
    BY <1>1 DEF PoolInv, TypeOK
  <2> QED
    BY <1>1, <2>1, <2>2 DEF PoolInv, TypeOK
<1>6. Queue'
  <2>1. (\A i \in 1..Len(waiters) : waiters[i] \in Req) /\ redial \subseteq Req
    BY DEF PoolInv, TypeOK
  <2> QED
    BY <1>1, <1>2, <1>3, <2>1 DEF PoolInv, Queue
<1> QED
  BY <1>4, <1>5, <1>6 DEF PoolInv

\* A queue without its i-th request.
LEMMA Without ==
  ASSUME NEW S, NEW q \in Seq(S), NEW i \in 1..Len(q)
  PROVE  LET t == SubSeq(q, 1, i - 1) \o SubSeq(q, i + 1, Len(q))
         IN  /\ t \in Seq(S) /\ Len(t) = Len(q) - 1
             /\ \A k \in 1..Len(t) : t[k] = IF k < i THEN q[k] ELSE q[k + 1]
<1> DEFINE a == SubSeq(q, 1, i - 1)
           b == SubSeq(q, i + 1, Len(q))
<1>0. Len(q) \in Nat /\ i \in Int
  OBVIOUS
<1>1. a \in Seq(S) /\ Len(a) = i - 1 /\ \A k \in 1..(i - 1) : a[k] = q[k]
  BY <1>0
<1>2. b \in Seq(S) /\ Len(b) = Len(q) - i /\ \A k \in 1..(Len(q) - i) : b[k] = q[k + i]
  BY <1>0
<1> HIDE DEF a, b
<1>3. /\ a \o b \in Seq(S) /\ Len(a \o b) = Len(q) - 1
  <2>1. a \o b \in Seq(S) /\ Len(a \o b) = Len(a) + Len(b)
    BY <1>1, <1>2, ConcatProperties
  <2>2. Len(a) + Len(b) = Len(q) - 1
    BY <1>0, <1>1, <1>2
  <2> QED
    BY <2>1, <2>2
<1>4. \A k \in 1..(Len(q) - 1) : (a \o b)[k] = IF k < i THEN q[k] ELSE q[k + 1]
  <2> TAKE k \in 1..(Len(q) - 1)
  <2>1. CASE k < i
    BY <1>0, <1>1, <1>2, <2>1
  <2>2. CASE ~(k < i)
    <3>1. (a \o b)[k] = b[k - (i - 1)]
      BY <1>0, <1>1, <1>2, <2>2
    <3>2. k - (i - 1) \in 1..(Len(q) - i)
      BY <1>0, <2>2
    <3>3. b[k - (i - 1)] = q[k - (i - 1) + i] /\ k - (i - 1) + i = k + 1
      BY <1>0, <1>2, <3>2
    <3> QED
      BY <2>2, <3>1, <3>3
  <2> QED
    BY <2>1, <2>2
<1> QED
  BY <1>3, <1>4 DEF a, b

LEMMA LeaveInv == ASSUME PoolInv, NEW r \in Req, Leave(r) PROVE PoolInv'
<1>1. /\ pc[r] = "leaving" /\ pc \in [Req -> PC] /\ pc' = [pc EXCEPT ![r] = "draining"]
      /\ waiters \in Seq(Req) /\ conn[r] = None
      /\ UNCHANGED <<idle, numOpen, closed, conn, chan, redial, life, tainted, firing, cancels, late, faults>>
  BY DEF Leave, Goto, wire, PoolInv, TypeOK
<1>2. pc'[r] = "draining" /\ \A q \in Req : q # r => pc'[q] = pc[q]
  BY <1>1
<1>3. Owned' /\ Alive' /\ Counted'
  BY <1>1, Still DEF Dialing
<1>4. /\ waiters' \in Seq(Req)
      /\ \A k \in 1..Len(waiters') : waiters'[k] # r
      /\ \A k \in 1..Len(waiters') : \E j \in 1..Len(waiters) : waiters'[k] = waiters[j]
      /\ \A k, l \in 1..Len(waiters') : waiters'[k] = waiters'[l] => k = l
  <2>0. /\ Len(waiters) \in Nat /\ DOMAIN waiters = 1..Len(waiters)
        /\ \A k, l \in 1..Len(waiters) : waiters[k] = waiters[l] => k = l
    BY <1>1 DEF PoolInv, Queue
  <2>1. CASE \E i \in DOMAIN waiters : waiters[i] = r
    <3>1. PICK i \in 1..Len(waiters) :
            waiters[i] = r /\ waiters' = SubSeq(waiters, 1, i - 1) \o SubSeq(waiters, i + 1, Len(waiters))
      BY <2>0, <2>1 DEF Leave
    <3>2. /\ waiters' \in Seq(Req) /\ Len(waiters') = Len(waiters) - 1
          /\ \A k \in 1..Len(waiters') : waiters'[k] = IF k < i THEN waiters[k] ELSE waiters[k + 1]
      BY <1>1, <3>1, Without
    <3>3. ASSUME NEW k \in 1..Len(waiters')
          PROVE  /\ k < i => k \in 1..Len(waiters) /\ k # i /\ waiters'[k] = waiters[k]
                 /\ ~(k < i) => k + 1 \in 1..Len(waiters) /\ k + 1 # i /\ waiters'[k] = waiters[k + 1]
      BY <2>0, <3>2
    <3>4. ASSUME NEW k \in 1..Len(waiters')
          PROVE  /\ waiters'[k] # r
                 /\ \E j \in 1..Len(waiters) : waiters'[k] = waiters[j]
      <4>1. CASE k < i
        BY <2>0, <3>1, <3>3, <4>1
      <4>2. CASE ~(k < i)
        <5>1. k + 1 \in 1..Len(waiters) /\ waiters'[k] = waiters[k + 1] /\ k + 1 # i
          BY <3>3, <4>2
        <5>2. waiters[k + 1] # r
          BY <2>0, <3>1, <5>1
        <5> QED
          BY <5>1, <5>2
      <4> QED
        BY <4>1, <4>2
    <3>5. ASSUME NEW k \in 1..Len(waiters'), NEW l \in 1..Len(waiters'), waiters'[k] = waiters'[l]
          PROVE  k = l
      BY <2>0, <3>2, <3>3, <3>5
    <3> QED
      BY <3>2, <3>4, <3>5
  <2>2. CASE ~\E i \in DOMAIN waiters : waiters[i] = r
    <3>1. waiters' = waiters
      BY <2>2 DEF Leave
    <3> QED
      BY <1>1, <2>0, <2>2, <3>1
  <2> QED
    BY <2>1, <2>2
<1>5. TypeOK'
  <2>1. pc' \in [Req -> PC]
    BY <1>1 DEF PC
  <2>2. \A q \in Req : pc'[q] = "held" <=> conn'[q] # None
    BY <1>1 DEF PoolInv, TypeOK
  <2> QED
    BY <1>1, <1>4, <2>1, <2>2 DEF PoolInv, TypeOK
<1>6. Queue'
  <2>1. (\A i \in 1..Len(waiters) : waiters[i] \in Req) /\ redial \subseteq Req
    BY DEF PoolInv, TypeOK
  <2>2. \A i \in 1..Len(waiters') : /\ pc'[waiters'[i]] \in {"waiting", "leaving"}
                                    /\ waiters'[i] \notin redial' /\ chan'[waiters'[i]] = None
    <3> TAKE i \in 1..Len(waiters')
    <3>1. PICK j \in 1..Len(waiters) : waiters'[i] = waiters[j]
      BY <1>4
    <3>2. waiters[j] # r
      BY <1>4, <3>1
    <3>3. /\ pc[waiters[j]] \in {"waiting", "leaving"} /\ waiters[j] \notin redial
          /\ chan[waiters[j]] = None /\ waiters[j] \in Req
      BY <2>1 DEF PoolInv, Queue
    <3> QED
      BY <1>1, <1>2, <3>1, <3>2, <3>3
  <2>3. \A q \in redial' : chan'[q] = None /\ pc'[q] \in {"waiting", "leaving", "draining", "done"}
    BY <1>1, <1>2, <2>1 DEF PoolInv, Queue
  <2>4. \A q \in Req : chan'[q] # None => pc'[q] \in {"waiting", "leaving", "draining", "done"}
    BY <1>1, <1>2 DEF PoolInv, Queue
  <2> QED
    BY <1>4, <2>2, <2>3, <2>4 DEF Queue
<1> QED
  BY <1>3, <1>5, <1>6 DEF PoolInv

LEMMA ExpireInv == ASSUME PoolInv, NEW r \in Req, Expire(r) PROVE PoolInv'
<1>1. /\ pc[r] = "held" /\ conn[r] # None /\ conn \in [Req -> Conn \cup {None}]
      /\ faults \in Nat /\ faults' = faults + 1 /\ firing' = firing \cup {<<r, conn[r]>>}
      /\ UNCHANGED <<idle, numOpen, waiters, closed, pc, conn, chan, redial, life, tainted, cancels, late>>
  BY DEF Expire, Fault, pool, PoolInv, TypeOK
<1>2. <<r, conn[r]>> \in Req \X Conn
  BY <1>1
<1>3. TypeOK'
  BY <1>1, <1>2 DEF PoolInv, TypeOK
<1>4. Queue'
  BY <1>1 DEF PoolInv, Queue
<1>5. Owned' /\ Alive' /\ Counted'
  BY <1>1, Still DEF Dialing
<1> QED
  BY <1>3, <1>4, <1>5 DEF PoolInv

LEMMA CancelInvs ==
  ASSUME PoolInv, NEW r \in Req, NEW c \in Conn, SendCancelRequest(r, c) \/ CancelLands(r, c)
  PROVE  PoolInv'
<1>1. /\ firing' \subseteq firing /\ cancels' \subseteq cancels \cup {<<r, c>>}
      /\ tainted' \subseteq tainted \cup {c}
      /\ late' \subseteq late \cup {<<r, c>>}
      /\ UNCHANGED <<idle, numOpen, waiters, closed, pc, conn, chan, redial, life, faults>>
  BY DEF SendCancelRequest, CancelLands, pool
<1>2. <<r, c>> \in Req \X Conn
  OBVIOUS
<1>3. TypeOK'
  BY <1>1, <1>2 DEF PoolInv, TypeOK
<1>4. Queue'
  BY <1>1 DEF PoolInv, Queue
<1>5. Owned' /\ Alive' /\ Counted'
  BY <1>1, Still DEF Dialing
<1> QED
  BY <1>3, <1>4, <1>5 DEF PoolInv

\* What a request does to its connection changes nobody else's.
LEMMA BreakInv == ASSUME PoolInv, NEW r \in Req, Break(r) PROVE PoolInv'
<1>1. /\ pc[r] = "held" /\ conn[r] # None /\ conn \in [Req -> Conn \cup {None}]
      /\ life \in [Conn -> {"gone", "clean", "dirty", "dead"}] /\ faults \in Nat
      /\ faults' = faults + 1
      /\ UNCHANGED <<idle, numOpen, waiters, closed, pc, conn, chan, redial, tainted, firing, cancels, late>>
  BY DEF Break, Fault, pool, PoolInv, TypeOK
<1>2. conn[r] \in Conn
  BY <1>1
<1>3. \E s \in {"dead", "dirty"} : life' = [life EXCEPT ![conn[r]] = s]
  BY DEF Break
<1>4. PICK s \in {"dead", "dirty"} : life' = [life EXCEPT ![conn[r]] = s]
  BY <1>3
<1>5. life'[conn[r]] = s /\ \A d \in Conn \ {conn[r]} : life'[d] = life[d]
  BY <1>1, <1>2, <1>4
<1>6. TypeOK'
  <2>1. life' \in [Conn -> {"gone", "clean", "dirty", "dead"}]
    BY <1>1, <1>4
  <2> QED
    BY <1>1, <2>1 DEF PoolInv, TypeOK
<1>7. Queue'
  BY <1>1 DEF PoolInv, Queue
<1>8. Owned'
  BY <1>1 DEF PoolInv, Owned
<1>9. Alive'
  <2>1. \A i \in 1..Len(idle) : idle[i] \in Conn
    BY DEF PoolInv, TypeOK
  <2>2. /\ \A i \in 1..Len(idle) : idle[i] # conn[r]
        /\ \A q \in Req : chan[q] # conn[r]
    BY <1>2 DEF PoolInv, Owned
  <2>3. \A i \in 1..Len(idle') : life'[idle'[i]] = "clean"
    BY <1>1, <1>5, <2>1, <2>2 DEF PoolInv, Alive
  <2>4. \A q \in Req : chan'[q] \in Conn => life'[chan'[q]] = "clean"
    BY <1>1, <1>5, <2>2 DEF PoolInv, Alive
  <2>5. \A q \in Req : conn'[q] \in Conn => life'[conn'[q]] # "gone"
    <3> TAKE q \in Req
    <3>1. CASE conn[q] = conn[r]
      BY <1>1, <1>5, <3>1
    <3>2. CASE conn[q] # conn[r]
      BY <1>1, <1>5, <3>2 DEF PoolInv, Alive
    <3> QED
      BY <3>1, <3>2
  <2> QED
    BY <2>3, <2>4, <2>5 DEF Alive
<1>10. Counted'
  BY <1>1 DEF PoolInv, Counted, InUse, Carried, Holding, Dialing
<1> QED
  BY <1>6, <1>7, <1>8, <1>9, <1>10 DEF PoolInv

LEMMA CloseInv == ASSUME PoolInv, Close PROVE PoolInv'
<1>1. /\ closed' = TRUE /\ idle' = <<>> /\ waiters' = <<>>
      /\ life' = [c \in Conn |-> IF \E i \in DOMAIN idle : idle[i] = c THEN "gone" ELSE life[c]]
      /\ chan' = [r \in Req |-> IF \E i \in DOMAIN waiters : waiters[i] = r THEN Nil ELSE chan[r]]
      /\ UNCHANGED <<numOpen, pc, conn, redial, tainted, firing, cancels, late, faults>>
  BY DEF Close
<1>2. /\ DOMAIN idle = 1..Len(idle) /\ DOMAIN waiters = 1..Len(waiters) /\ Len(idle) \in Nat
      /\ chan \in [Req -> Conn \cup {None, Nil}]
      /\ life \in [Conn -> {"gone", "clean", "dirty", "dead"}]
  BY DEF PoolInv, TypeOK
<1>3. None \notin Conn /\ Nil \notin Conn
  BY PoolAssumption
<1>4. Len(idle') = 0 /\ Len(waiters') = 0 /\ idle' \in Seq(Conn) /\ waiters' \in Seq(Req)
  BY <1>1
<1>5. \A r \in Req : \/ chan'[r] = chan[r]
                     \/ /\ chan'[r] = Nil /\ chan[r] = None /\ pc[r] \in {"waiting", "leaving"}
                        /\ r \notin redial
  BY <1>1, <1>2 DEF PoolInv, Queue
<1>6. TypeOK'
  <2>1. chan' \in [Req -> Conn \cup {None, Nil}]
    BY <1>1, <1>2
  <2>2. life' \in [Conn -> {"gone", "clean", "dirty", "dead"}]
    BY <1>1, <1>2
  <2> QED
    BY <1>1, <1>4, <2>1, <2>2 DEF PoolInv, TypeOK
<1>7. Queue'
  <2>1. redial \subseteq Req
    BY DEF PoolInv, TypeOK
  <2>2. \A r \in redial' : chan'[r] = None /\ pc'[r] \in {"waiting", "leaving", "draining", "done"}
    BY <1>1, <1>5, <2>1 DEF PoolInv, Queue
  <2>3. \A r \in Req : chan'[r] # None => pc'[r] \in {"waiting", "leaving", "draining", "done"}
    BY <1>1, <1>5 DEF PoolInv, Queue
  <2> QED
    BY <1>4, <2>2, <2>3 DEF Queue
<1>8. Owned'
  BY <1>1, <1>3, <1>4, <1>5 DEF PoolInv, Owned
<1>9. Alive'
  <2>1. \A r \in Req : conn[r] \in Conn => life'[conn[r]] = life[conn[r]]
    BY <1>1, <1>2 DEF PoolInv, Owned
  <2>2. \A r \in Req : chan[r] \in Conn => life'[chan[r]] = life[chan[r]]
    BY <1>1, <1>2 DEF PoolInv, Owned
  <2> QED
    BY SMTT(60), <1>1, <1>3, <1>4, <1>5, <2>1, <2>2 DEF PoolInv, Alive
<1>10. Counted'
  <2>1. Carried' = Carried /\ Holding' = Holding /\ Dialing' = Dialing
    BY <1>1, <1>3, <1>5 DEF Carried, Holding, Dialing
  <2>2. InUse' = 0 + Cardinality(Carried) + Cardinality(Holding)
                   + Cardinality(Dialing) + Cardinality(redial)
    BY <1>1, <1>4, <2>1 DEF InUse
  <2>3. InUse' <= InUse /\ InUse \in Nat /\ InUse' \in Nat /\ numOpen \in Nat
    <3>1. InUse = Len(idle) + Cardinality(Carried) + Cardinality(Holding)
                    + Cardinality(Dialing) + Cardinality(redial)
      BY DEF InUse
    <3>2. TypeOK /\ numOpen \in Nat
      BY DEF PoolInv, TypeOK
    <3>3. /\ Cardinality(Carried) \in Nat /\ Cardinality(Holding) \in Nat
          /\ Cardinality(Dialing) \in Nat /\ Cardinality(redial) \in Nat /\ Len(idle) \in Nat
      BY <3>2, Sizes
    <3> QED
      BY <2>2, <3>1, <3>2, <3>3
  <2> QED
    BY <1>1, <2>3, Sizes DEF PoolInv, Counted
<1> QED
  BY <1>6, <1>7, <1>8, <1>9, <1>10 DEF PoolInv

----------------------------------------------------------------------------
(* A connection that comes back: from the request that held it (Release),  *)
(* or from the channel of one that has left (Drain).                       *)

GiveBack(r, c, ch) ==
  /\ pc' = [pc EXCEPT ![r] = "done"]
  /\ \/ pc[r] = "held" /\ conn[r] = c /\ ch = chan /\ conn' = [conn EXCEPT ![r] = None]
     \/ pc[r] = "draining" /\ chan[r] = c /\ ch = [chan EXCEPT ![r] = None] /\ conn' = conn
  /\ UNCHANGED <<closed, tainted, firing, cancels, late, faults>>

Inside(ch) == {q \in Req : ch[q] \in Conn}

\* Between the two halves of the step the connection is nowhere, and one less is in use.
LEMMA LooseIs ==
  ASSUME PoolInv, NEW r \in Req, NEW c \in Conn, NEW ch, GiveBack(r, c, ch)
  PROVE  /\ ch \in [Req -> Conn \cup {None, Nil}] /\ conn' \in [Req -> Conn \cup {None}]
         /\ pc' \in [Req -> PC] /\ \A q \in Req : pc'[q] = "held" <=> conn'[q] # None
         /\ \A q \in Req : ch[q] = chan[q] \/ ch[q] = None
         /\ \A q \in Req : conn'[q] = conn[q] \/ conn'[q] = None
         /\ \A q \in Req : ch[q] # c /\ conn'[q] # c
         /\ \A i \in 1..Len(idle) : idle[i] # c
         /\ \A q \in Req : q # r => pc'[q] = pc[q]
         /\ pc'[r] = "done" /\ r \notin redial /\ \A i \in 1..Len(waiters) : waiters[i] # r
         /\ Dialing' = Dialing
         /\ Cardinality(Inside(ch)) \in Nat
         /\ Cardinality(Inside(ch)) + Cardinality(Holding') = Cardinality(Carried) + Cardinality(Holding) - 1
<1>1. /\ pc \in [Req -> PC] /\ conn \in [Req -> Conn \cup {None}]
      /\ chan \in [Req -> Conn \cup {None, Nil}]
      /\ \A q \in Req : pc[q] = "held" <=> conn[q] # None
  BY DEF PoolInv, TypeOK
<1>2. None \notin Conn /\ Nil \notin Conn
  BY PoolAssumption
<1>3. pc' = [pc EXCEPT ![r] = "done"] /\ pc'[r] = "done" /\ \A q \in Req : q # r => pc'[q] = pc[q]
  BY <1>1 DEF GiveBack
<1>4. pc' \in [Req -> PC]
  BY <1>1, <1>3 DEF PC
<1> DEFINE S == Inside(ch)
<1>5. CASE pc[r] = "held" /\ conn[r] = c /\ ch = chan /\ conn' = [conn EXCEPT ![r] = None]
  <2>1. conn'[r] = None /\ \A q \in Req : q # r => conn'[q] = conn[q]
    BY <1>1, <1>5
  <2>2. conn' \in [Req -> Conn \cup {None}]
    BY <1>1, <1>5
  <2>3. \A q \in Req : pc'[q] = "held" <=> conn'[q] # None
    BY <1>1, <1>3, <2>1
  <2>4. \A q \in Req : ch[q] # c /\ conn'[q] # c
    BY <1>2, <1>5, <2>1 DEF PoolInv, Owned
  <2>5. \A i \in 1..Len(idle) : idle[i] # c
    BY <1>5 DEF PoolInv, Owned
  <2>6. r \notin redial /\ \A i \in 1..Len(waiters) : waiters[i] # r
    BY <1>5 DEF PoolInv, Queue
  <2>7. Dialing' = Dialing
    BY <1>3, <1>5 DEF Dialing
  <2>8. S = Carried
    BY <1>5 DEF Carried, Inside
  <2>9. /\ Holding \in SUBSET Req /\ Holding' \in SUBSET Req /\ r \in Holding /\ r \notin Holding'
        /\ Holding \ {r} = Holding' \ {r}
    BY <1>2, <1>5, <2>1 DEF Holding
  <2>10. Cardinality(Holding') = Cardinality(Holding) - 1
    BY <2>9, ReqCount
  <2>11. Cardinality(S) \in Nat /\ Cardinality(Holding) \in Nat /\ Cardinality(Holding') \in Nat
    BY <2>8, <2>9, ReqCount, Sizes DEF PoolInv
  <2>12. Cardinality(S) + Cardinality(Holding') = Cardinality(Carried) + Cardinality(Holding) - 1
    BY <2>8, <2>10, <2>11
  <2> HIDE DEF S
  <2> QED
    BY <1>1, <1>3, <1>4, <1>5, <2>1, <2>2, <2>3, <2>4, <2>5, <2>6, <2>7, <2>11, <2>12 DEF S
<1>6. CASE pc[r] = "draining" /\ chan[r] = c /\ ch = [chan EXCEPT ![r] = None] /\ conn' = conn
  <2>1. ch[r] = None /\ \A q \in Req : q # r => ch[q] = chan[q]
    BY <1>1, <1>6
  <2>2. ch \in [Req -> Conn \cup {None, Nil}]
    BY <1>1, <1>6
  <2>3. \A q \in Req : pc'[q] = "held" <=> conn'[q] # None
    BY <1>1, <1>3, <1>6
  <2>4. \A q \in Req : ch[q] # c /\ conn'[q] # c
    BY <1>2, <1>6, <2>1 DEF PoolInv, Owned
  <2>5. \A i \in 1..Len(idle) : idle[i] # c
    BY <1>6 DEF PoolInv, Owned
  <2>6. r \notin redial /\ \A i \in 1..Len(waiters) : waiters[i] # r
    BY <1>2, <1>6 DEF PoolInv, Queue
  <2>7. Dialing' = Dialing
    BY <1>3, <1>6 DEF Dialing
  <2>8. Holding' = Holding
    BY <1>6 DEF Holding
  <2>9. /\ Carried \in SUBSET Req /\ S \in SUBSET Req /\ r \in Carried /\ r \notin S
        /\ Carried \ {r} = S \ {r}
    BY <1>2, <1>6, <2>1 DEF Carried, Inside
  <2> HIDE DEF S
  <2>10. Cardinality(S) = Cardinality(Carried) - 1
    BY <2>9, ReqCount
  <2>11. Cardinality(S) \in Nat /\ Cardinality(Holding) \in Nat /\ Cardinality(Carried) \in Nat
    BY <2>9, ReqCount, Sizes DEF PoolInv
  <2>12. Cardinality(S) + Cardinality(Holding') = Cardinality(Carried) + Cardinality(Holding) - 1
    BY <2>8, <2>10, <2>11
  <2>13. conn' \in [Req -> Conn \cup {None}]
    BY <1>1, <1>6
  <2> QED
    BY <1>3, <1>4, <1>6, <2>1, <2>2, <2>3, <2>4, <2>5, <2>6, <2>7, <2>11, <2>12, <2>13 DEF S
<1> QED
  BY <1>5, <1>6 DEF GiveBack

\* What Release and Drain leave to be done, and the four things that can become of it.
LEMMA ReturnInv ==
  ASSUME PoolInv, NEW r \in Req, NEW c \in Conn, NEW ch, GiveBack(r, c, ch), Return(c, ch)
  PROVE  PoolInv'
<1> DEFINE N == Cardinality(Inside(ch))
<1>1. /\ ch \in [Req -> Conn \cup {None, Nil}] /\ conn' \in [Req -> Conn \cup {None}]
      /\ pc' \in [Req -> PC] /\ \A q \in Req : pc'[q] = "held" <=> conn'[q] # None
      /\ \A q \in Req : ch[q] = chan[q] \/ ch[q] = None
      /\ \A q \in Req : conn'[q] = conn[q] \/ conn'[q] = None
      /\ \A q \in Req : ch[q] # c /\ conn'[q] # c
      /\ \A i \in 1..Len(idle) : idle[i] # c
      /\ \A q \in Req : q # r => pc'[q] = pc[q]
      /\ pc'[r] = "done" /\ r \notin redial /\ \A i \in 1..Len(waiters) : waiters[i] # r
      /\ Dialing' = Dialing
      /\ N \in Nat /\ N + Cardinality(Holding') = Cardinality(Carried) + Cardinality(Holding) - 1
  BY LooseIs
<1>2. UNCHANGED <<closed, tainted, firing, cancels, late, faults>>
  BY DEF GiveBack
<1>3. None \notin Conn /\ Nil \notin Conn
  BY PoolAssumption
<1>4. /\ idle \in Seq(Conn) /\ waiters \in Seq(Req) /\ numOpen \in Nat /\ redial \subseteq Req
      /\ life \in [Conn -> {"gone", "clean", "dirty", "dead"}]
      /\ Len(idle) \in Nat /\ Len(waiters) \in Nat
      /\ (\A i \in 1..Len(idle) : idle[i] \in Conn) /\ (\A i \in 1..Len(waiters) : waiters[i] \in Req)
      /\ closed \in BOOLEAN /\ tainted \subseteq Conn /\ faults \in Nat
      /\ firing \subseteq Req \X Conn /\ cancels \subseteq Req \X Conn /\ late \subseteq Req \X Conn
  BY DEF PoolInv, TypeOK
<1>5. /\ \A p, q \in Req : conn'[p] \in Conn /\ conn'[p] = conn'[q] => p = q
      /\ \A p, q \in Req : ch[p] \in Conn /\ ch[p] = ch[q] => p = q
      /\ \A i \in 1..Len(idle) : \A q \in Req : idle[i] # conn'[q] /\ idle[i] # ch[q]
      /\ \A p, q \in Req : conn'[p] \in Conn => conn'[p] # ch[q]
  <2>1. \A p, q \in Req : conn'[p] \in Conn /\ conn'[p] = conn'[q] => p = q
    BY <1>1, <1>3 DEF PoolInv, Owned
  <2>2. \A p, q \in Req : ch[p] \in Conn /\ ch[p] = ch[q] => p = q
    BY <1>1, <1>3 DEF PoolInv, Owned
  <2>3. \A i \in 1..Len(idle) : \A q \in Req : idle[i] # conn'[q] /\ idle[i] # ch[q]
    BY <1>1, <1>3, <1>4 DEF PoolInv, Owned
  <2>4. \A p, q \in Req : conn'[p] \in Conn => conn'[p] # ch[q]
    BY <1>1, <1>3 DEF PoolInv, Owned
  <2> QED
    BY <2>1, <2>2, <2>3, <2>4
<1>6. /\ \A i, j \in 1..Len(idle) : idle[i] = idle[j] => i = j
      /\ \A i \in 1..Len(idle) : life[idle[i]] = "clean"
      /\ \A q \in Req : ch[q] \in Conn => life[ch[q]] = "clean"
      /\ \A q \in Req : conn'[q] \in Conn => life[conn'[q]] # "gone"
  BY <1>1, <1>3 DEF PoolInv, Owned, Alive
<1>7. /\ \A i, j \in 1..Len(waiters) : waiters[i] = waiters[j] => i = j
      /\ \A i \in 1..Len(waiters) : /\ pc'[waiters[i]] \in {"waiting", "leaving"}
                                    /\ waiters[i] \notin redial /\ ch[waiters[i]] = None
  BY <1>1, <1>4 DEF PoolInv, Queue
<1>8. /\ \A q \in redial : ch[q] = None /\ pc'[q] \in {"waiting", "leaving", "draining", "done"}
      /\ \A q \in Req : ch[q] # None => pc'[q] \in {"waiting", "leaving", "draining", "done"}
  BY <1>1, <1>4 DEF PoolInv, Queue
<1>9. /\ InUse \in Nat /\ Cardinality(redial) \in Nat /\ Cardinality(Dialing) \in Nat
      /\ Cardinality(Holding') \in Nat
      /\ Len(idle) + N + Cardinality(Holding') + Cardinality(Dialing) + Cardinality(redial) = InUse - 1
  <2>1. /\ Cardinality(Carried) \in Nat /\ Cardinality(Holding) \in Nat
        /\ Cardinality(Dialing) \in Nat /\ Cardinality(redial) \in Nat
    BY Sizes DEF PoolInv
  <2>0. N + Cardinality(Holding') = Cardinality(Carried) + Cardinality(Holding) - 1 /\ N \in Nat
    BY <1>1
  <2>2. InUse = Len(idle) + Cardinality(Carried) + Cardinality(Holding)
                  + Cardinality(Dialing) + Cardinality(redial)
    BY DEF InUse
  <2>3. Holding' \in SUBSET Req
    BY DEF Holding
  <2>4. Cardinality(Holding') \in Nat
    BY <2>3, ReqCount
  <2>5. InUse \in Nat
    BY <1>4, <2>1, <2>2
  <2>6. Len(idle) + N + Cardinality(Holding') + Cardinality(Dialing) + Cardinality(redial) = InUse - 1
    <3>1. Len(idle) \in Nat /\ Len(idle) + (N + Cardinality(Holding')) + Cardinality(Dialing) + Cardinality(redial) = InUse - 1
      BY <1>4, <2>0, <2>1, <2>2
    <3> QED
      BY <2>0, <2>1, <2>4, <3>1
  <2> QED
    BY <2>1, <2>4, <2>5, <2>6
<1>10. Size \in Nat /\ numOpen <= Size /\ numOpen >= InUse /\ (~closed => numOpen = InUse)
  BY PoolAssumption DEF PoolInv, Counted
<1> HIDE DEF N
\* Into the idle set.
<1>11. CASE /\ Poolable(c) /\ idle' = Append(idle, c) /\ chan' = ch
            /\ UNCHANGED <<waiters, numOpen, redial, life>>
  <2>1. /\ idle' \in Seq(Conn) /\ Len(idle') = Len(idle) + 1 /\ idle'[Len(idle) + 1] = c
        /\ \A i \in 1..Len(idle) : idle'[i] = idle[i]
    BY <1>4, <1>11
  <2>2. \A i \in 1..Len(idle') : i \in 1..Len(idle) \/ i = Len(idle) + 1
    BY <1>4, <2>1
  <2>3. TypeOK'
    BY <1>1, <1>2, <1>4, <1>11, <2>1 DEF TypeOK
  <2>4. Queue'
    BY <1>7, <1>8, <1>11 DEF Queue
  <2>5. Owned'
    <3>1. \A i, j \in 1..Len(idle') : idle'[i] = idle'[j] => i = j
      BY <1>1, <1>6, <2>1, <2>2
    <3>2. \A i \in 1..Len(idle') : \A q \in Req : idle'[i] # conn'[q] /\ idle'[i] # ch[q]
      BY <1>1, <1>5, <2>1, <2>2
    <3> QED
      BY <1>5, <1>11, <3>1, <3>2 DEF Owned
  <2>6. Alive'
    <3>1. \A i \in 1..Len(idle') : life[idle'[i]] = "clean"
      BY <1>6, <1>11, <2>1, <2>2 DEF Poolable
    <3> QED
      BY <1>6, <1>11, <3>1 DEF Alive
  <2>7. Counted'
    <3>1. Cardinality(Carried') = N
      BY <1>11 DEF Carried, N, Inside
    <3>2. InUse' = (Len(idle) + 1) + N + Cardinality(Holding') + Cardinality(Dialing) + Cardinality(redial)
      BY <1>1, <1>11, <2>1, <3>1 DEF InUse
    <3>3. InUse' = InUse
      BY SMTT(60), <1>1, <1>4, <1>9, <3>2
    <3> QED
      BY <1>2, <1>10, <1>11, <3>3 DEF Counted
  <2> QED
    BY <2>3, <2>4, <2>5, <2>6, <2>7 DEF PoolInv
\* The first waiter, when there is one.
<1>12. ASSUME waiters # <<>>
       PROVE  /\ Head(waiters) \in Req /\ Head(waiters) = waiters[1] /\ 1 \in 1..Len(waiters)
              /\ Tail(waiters) \in Seq(Req) /\ Len(Tail(waiters)) = Len(waiters) - 1
              /\ \A i \in 1..Len(Tail(waiters)) :
                   i + 1 \in 1..Len(waiters) /\ Tail(waiters)[i] = waiters[i + 1]
              /\ \A i \in 1..Len(Tail(waiters)) : Tail(waiters)[i] # Head(waiters)
              /\ \A i, j \in 1..Len(Tail(waiters)) : Tail(waiters)[i] = Tail(waiters)[j] => i = j
  <2>1. /\ Head(waiters) = waiters[1] /\ 1 \in 1..Len(waiters)
        /\ Tail(waiters) \in Seq(Req) /\ Len(Tail(waiters)) = Len(waiters) - 1
    BY <1>4, <1>12
  <2>2. \A i \in 1..Len(Tail(waiters)) :
          i + 1 \in 1..Len(waiters) /\ Tail(waiters)[i] = waiters[i + 1]
    BY <1>4, <1>12, <2>1
  <2>3. \A i \in 1..Len(Tail(waiters)) : i \in Nat /\ i + 1 # 1
    OBVIOUS
  <2>4. \A i \in 1..Len(Tail(waiters)) : Tail(waiters)[i] # Head(waiters)
    BY <1>7, <2>1, <2>2, <2>3
  <2>5. \A i, j \in 1..Len(Tail(waiters)) : Tail(waiters)[i] = Tail(waiters)[j] => i = j
    <3> TAKE i, j \in 1..Len(Tail(waiters))
    <3> HAVE Tail(waiters)[i] = Tail(waiters)[j]
    <3>1. i + 1 = j + 1
      BY <1>7, <2>2
    <3> QED
      BY <2>3, <3>1
  <2> QED
    BY <1>4, <2>1, <2>2, <2>4, <2>5
\* To the first waiter.
<1>13. CASE /\ Poolable(c) /\ waiters # <<>> /\ chan' = [ch EXCEPT ![Head(waiters)] = c]
            /\ waiters' = Tail(waiters)
            /\ UNCHANGED <<idle, numOpen, redial, life>>
  <2>1. PICK h \in Req : h = Head(waiters)
    BY <1>12, <1>13
  <2>2. /\ chan' = [ch EXCEPT ![h] = c] /\ chan'[h] = c /\ \A q \in Req : q # h => chan'[q] = ch[q]
    BY <1>1, <1>13, <2>1
  <2>3. ch[h] = None /\ h \notin redial /\ pc'[h] \in {"waiting", "leaving"}
    BY <1>7, <1>12, <1>13, <2>1
  <2>4. TypeOK'
    <3>1. chan' \in [Req -> Conn \cup {None, Nil}]
      BY <1>1, <2>2
    <3> QED
      BY <1>1, <1>2, <1>4, <1>12, <1>13, <3>1 DEF TypeOK
  <2>5. Queue'
    <3>1. \A i \in 1..Len(waiters') : /\ pc'[waiters'[i]] \in {"waiting", "leaving"}
                                      /\ waiters'[i] \notin redial' /\ chan'[waiters'[i]] = None
      <4> TAKE i \in 1..Len(waiters')
      <4>1. /\ i + 1 \in 1..Len(waiters) /\ waiters'[i] = waiters[i + 1] /\ waiters'[i] # h
        BY <1>12, <1>13, <2>1
      <4> QED
        BY <1>4, <1>7, <1>13, <2>2, <4>1
    <3>2. \A q \in redial' : chan'[q] = None /\ pc'[q] \in {"waiting", "leaving", "draining", "done"}
      BY <1>4, <1>8, <1>13, <2>2, <2>3
    <3>3. \A q \in Req : chan'[q] # None => pc'[q] \in {"waiting", "leaving", "draining", "done"}
      BY <1>8, <2>2, <2>3
    <3>4. \A i, j \in 1..Len(waiters') : waiters'[i] = waiters'[j] => i = j
      BY <1>12, <1>13
    <3> QED
      BY <3>1, <3>2, <3>3, <3>4 DEF Queue
  <2>6. Owned'
    <3>1. \A p, q \in Req : chan'[p] \in Conn /\ chan'[p] = chan'[q] => p = q
      BY <1>1, <1>5, <2>2
    <3>2. \A i \in 1..Len(idle) : \A q \in Req : idle[i] # chan'[q]
      BY <1>1, <1>5, <2>2
    <3>3. \A p, q \in Req : conn'[p] \in Conn => conn'[p] # chan'[q]
      BY <1>1, <1>5, <2>2
    <3> QED
      BY <1>5, <1>6, <1>13, <3>1, <3>2, <3>3 DEF Owned
  <2>7. Alive'
    <3>1. \A q \in Req : chan'[q] \in Conn => life[chan'[q]] = "clean"
      BY <1>6, <1>13, <2>2 DEF Poolable
    <3> QED
      BY <1>6, <1>13, <3>1 DEF Alive
  <2>8. Counted'
    <3>1. /\ Inside(ch) \in SUBSET Req /\ Carried' \in SUBSET Req
          /\ h \notin Inside(ch) /\ h \in Carried' /\ Inside(ch) \ {h} = Carried' \ {h}
      BY <1>3, <2>2, <2>3 DEF Carried, Inside
    <3>2. Cardinality(Carried') = N + 1
      BY <3>1, ReqCount DEF N
    <3>3. InUse' = Len(idle) + (N + 1) + Cardinality(Holding') + Cardinality(Dialing) + Cardinality(redial)
      BY <1>1, <1>13, <3>2 DEF InUse
    <3>4. InUse' = InUse
      BY SMTT(60), <1>1, <1>4, <1>9, <3>3
    <3> QED
      BY <1>2, <1>10, <1>13, <3>4 DEF Counted
  <2> QED
    BY <2>4, <2>5, <2>6, <2>7, <2>8 DEF PoolInv
\* Destroyed.
<1>14. CASE life' = [life EXCEPT ![c] = "gone"] /\ chan' = ch /\ idle' = idle
  <2>1. life'[c] = "gone" /\ \A d \in Conn : d # c => life'[d] = life[d]
    BY <1>4, <1>14
  <2>2. life' \in [Conn -> {"gone", "clean", "dirty", "dead"}]
    BY <1>4, <1>14
  <2>3. Owned'
    BY <1>5, <1>6, <1>14 DEF Owned
  <2>4. Alive'
    BY <1>1, <1>4, <1>6, <1>14, <2>1 DEF Alive
  <2>5. Cardinality(Carried') = N
    BY <1>14 DEF Carried, N, Inside
  <2>6. CASE numOpen' = numOpen - 1 /\ UNCHANGED <<waiters, redial>>
    <3>1. Queue'
      BY <1>7, <1>8, <1>14, <2>6 DEF Queue
    <3>2. InUse' = Len(idle) + N + Cardinality(Holding') + Cardinality(Dialing) + Cardinality(redial)
      BY <1>1, <1>14, <2>5, <2>6 DEF InUse
    <3>3. InUse' = InUse - 1 /\ InUse' \in Nat
      BY <1>1, <1>4, <1>9, <3>2
    <3>4. numOpen' \in Nat /\ Counted'
      BY <1>2, <1>4, <1>9, <1>10, <2>6, <3>3 DEF Counted
    <3>5. TypeOK'
      BY <1>1, <1>2, <1>4, <1>14, <2>2, <2>6, <3>4 DEF TypeOK
    <3> QED
      BY <2>3, <2>4, <3>1, <3>4, <3>5 DEF PoolInv
  <2>7. CASE /\ waiters # <<>> /\ waiters' = Tail(waiters) /\ redial' = redial \cup {Head(waiters)}
             /\ numOpen' = numOpen
    <3>1. PICK h \in Req : h = Head(waiters)
      BY <1>12, <2>7
    <3>2. ch[h] = None /\ h \notin redial /\ pc'[h] \in {"waiting", "leaving"}
      BY <1>7, <1>12, <2>7, <3>1
    <3>3. TypeOK'
      BY <1>1, <1>2, <1>4, <1>12, <1>14, <2>2, <2>7 DEF TypeOK
    <3>4. Queue'
      <4>1. \A i \in 1..Len(waiters') : /\ pc'[waiters'[i]] \in {"waiting", "leaving"}
                                        /\ waiters'[i] \notin redial' /\ chan'[waiters'[i]] = None
        <5> TAKE i \in 1..Len(waiters')
        <5>1. /\ i + 1 \in 1..Len(waiters) /\ waiters'[i] = waiters[i + 1] /\ waiters'[i] # h
          BY <1>12, <2>7, <3>1
        <5> QED
          BY <1>7, <1>14, <2>7, <3>1, <5>1
      <4>2. \A q \in redial' : chan'[q] = None /\ pc'[q] \in {"waiting", "leaving", "draining", "done"}
        BY <1>8, <1>14, <2>7, <3>1, <3>2
      <4>3. \A i, j \in 1..Len(waiters') : waiters'[i] = waiters'[j] => i = j
        BY <1>12, <2>7
      <4> QED
        BY <1>8, <1>14, <4>1, <4>2, <4>3 DEF Queue
    <3>5. Counted'
      <4>1. /\ redial \in SUBSET Req /\ redial' \in SUBSET Req /\ h \notin redial /\ h \in redial'
            /\ redial \ {h} = redial' \ {h}
        BY <1>4, <2>7, <3>1, <3>2
      <4>2. Cardinality(redial') = Cardinality(redial) + 1
        BY <4>1, ReqCount
      <4>3. InUse' = Len(idle) + N + Cardinality(Holding') + Cardinality(Dialing) + (Cardinality(redial) + 1)
        BY <1>1, <1>14, <2>5, <4>2 DEF InUse
      <4>4. InUse' = InUse
        BY SMTT(60), <1>1, <1>4, <1>9, <4>3
      <4> QED
        BY <1>2, <1>10, <2>7, <4>4 DEF Counted
    <3> QED
      BY <2>3, <2>4, <3>3, <3>4, <3>5 DEF PoolInv
  <2>8. Destroy(c, ch) => \/ numOpen' = numOpen - 1 /\ UNCHANGED <<waiters, redial>>
                          \/ /\ waiters # <<>> /\ waiters' = Tail(waiters)
                             /\ redial' = redial \cup {Head(waiters)} /\ numOpen' = numOpen
    BY DEF Destroy
  <2> QED
    <3>1. CASE Destroy(c, ch)
      BY <2>6, <2>7, <2>8, <3>1
    <3>2. CASE Poolable(c) /\ HandOver(c, ch)
      <4>1. life[c] = "clean" /\ life' = life
        BY <3>2 DEF Poolable, HandOver
      <4> QED
        BY <2>1, <4>1
    <3> QED
      BY <3>1, <3>2 DEF Return
<1> QED
  <2>1. CASE Destroy(c, ch)
    BY <1>14, <2>1 DEF Destroy
  <2>2. CASE Poolable(c) /\ HandOver(c, ch)
    BY <1>11, <1>13, <2>2 DEF HandOver
  <2> QED
    BY <2>1, <2>2 DEF Return

LEMMA ReleaseInv == ASSUME PoolInv, NEW r \in Req, Release(r) PROVE PoolInv'
<1>1. pc[r] = "held" /\ conn[r] \in Conn
  BY DEF Release, MayRelease, PoolInv, TypeOK
<1>2. PICK c, ch : c = conn[r] /\ ch = chan /\ c \in Conn
  BY <1>1
<1>3. Return(c, ch)
  BY <1>2 DEF Release
<1>4. GiveBack(r, c, ch)
  BY <1>1, <1>2 DEF Release, Goto, GiveBack
<1> QED
  BY <1>2, <1>3, <1>4, ReturnInv

LEMMA DrainInv == ASSUME PoolInv, NEW r \in Req, Drain(r) PROVE PoolInv'
<1>1. /\ pc[r] = "draining" /\ pc \in [Req -> PC] /\ pc' = [pc EXCEPT ![r] = "done"]
      /\ chan \in [Req -> Conn \cup {None, Nil}]
      /\ UNCHANGED <<closed, conn, tainted, firing, cancels, late, faults>>
  BY DEF Drain, Goto, PoolInv, TypeOK
<1>2. CASE chan[r] \in Conn
  <2>1. PICK c, ch : c = chan[r] /\ ch = [chan EXCEPT ![r] = None] /\ c \in Conn
    BY <1>2
  <2>2. Return(c, ch)
    BY <1>2, <2>1 DEF Drain
  <2>3. GiveBack(r, c, ch)
    BY <1>1, <2>1 DEF GiveBack
  <2> QED
    BY <2>1, <2>2, <2>3, ReturnInv
<1>3. CASE chan[r] \notin Conn
  <2>1. chan' = [chan EXCEPT ![r] = None] /\ UNCHANGED <<idle, numOpen, waiters, redial, life>>
    BY <1>3 DEF Drain
  <2>2. chan'[r] = None /\ \A q \in Req : q # r => chan'[q] = chan[q]
    BY <1>1, <2>1
  <2>3. pc'[r] = "done" /\ \A q \in Req : q # r => pc'[q] = pc[q]
    BY <1>1
  <2>4. None \notin Conn /\ \A i \in 1..Len(idle) : idle[i] \in Conn
    BY PoolAssumption DEF PoolInv, TypeOK
  <2>5. TypeOK'
    <3>1. pc' \in [Req -> PC]
      BY <1>1 DEF PC
    <3>2. \A q \in Req : pc'[q] = "held" <=> conn'[q] # None
      BY <1>1 DEF PoolInv, TypeOK
    <3>3. chan' \in [Req -> Conn \cup {None, Nil}]
      BY <1>1, <2>1
    <3> QED
      BY <1>1, <2>1, <3>1, <3>2, <3>3 DEF PoolInv, TypeOK
  <2>6. Queue'
    <3>1. (\A i \in 1..Len(waiters) : waiters[i] \in Req) /\ redial \subseteq Req
      BY DEF PoolInv, TypeOK
    <3>2. \A i \in 1..Len(waiters') : /\ pc'[waiters'[i]] \in {"waiting", "leaving"}
                                      /\ waiters'[i] \notin redial' /\ chan'[waiters'[i]] = None
      BY <1>1, <2>1, <2>2, <2>3, <3>1 DEF PoolInv, Queue
    <3>3. \A q \in redial' : chan'[q] = None /\ pc'[q] \in {"waiting", "leaving", "draining", "done"}
      BY <2>1, <2>2, <2>3, <3>1 DEF PoolInv, Queue
    <3>4. \A q \in Req : chan'[q] # None => pc'[q] \in {"waiting", "leaving", "draining", "done"}
      BY <2>2, <2>3 DEF PoolInv, Queue
    <3> QED
      BY <2>1, <3>2, <3>3, <3>4 DEF PoolInv, Queue
  <2>7. \A q \in Req : chan'[q] = chan[q] \/ chan'[q] = None
    BY <2>2
  <2>8. Owned'
    BY <1>1, <2>1, <2>4, <2>7 DEF PoolInv, Owned
  <2>9. Alive'
    BY <1>1, <2>1, <2>4, <2>7 DEF PoolInv, Alive
  <2>10. Counted'
    <3>1. Carried' = Carried
      BY <1>3, <2>2, <2>4 DEF Carried
    <3>2. Holding' = Holding /\ Dialing' = Dialing
      BY <1>1 DEF Holding, Dialing
    <3> QED
      BY <1>1, <2>1, <3>1, <3>2 DEF PoolInv, Counted, InUse
  <2> QED
    BY <2>5, <2>6, <2>8, <2>9, <2>10 DEF PoolInv
<1> QED
  BY <1>2, <1>3

LEMMA PoolStep == PoolInv /\ [Next]_vars => PoolInv'
<1> SUFFICES ASSUME PoolInv, [Next]_vars PROVE PoolInv'
  OBVIOUS
<1>1. CASE UNCHANGED vars
  <2>1. UNCHANGED <<idle, numOpen, waiters, closed, pc, conn, chan, redial, life, tainted,
                    firing, cancels, late, faults>>
    BY <1>1 DEF vars, pool, wire
  <2>2. TypeOK' /\ Queue'
    BY <2>1 DEF PoolInv, TypeOK, Queue
  <2>3. Owned' /\ Alive' /\ Counted'
    BY <2>1, Still DEF Dialing
  <2> QED
    BY <2>2, <2>3 DEF PoolInv
<1>2. ASSUME NEW r \in Req, AcquireClosed(r) \/ AcquireIdle(r) \/ AcquireNew(r) \/ Receive(r)
      PROVE  PoolInv'
  BY <1>2, ClosedInv, AcquireIdleInv, AcquireNewInv, ReceiveInv
<1>3. ASSUME NEW r \in Req, Dial(r) PROVE PoolInv'
  <2>1. ASSUME NEW c \in Conn, DialOk(r, c) \/ RedialOk(r, c) PROVE PoolInv'
    BY <2>1, DialOkInv, RedialOkInv
  <2> QED
    BY <1>3, <2>1, DialFailsInv, RedialFailsInv DEF Dial
<1>4. ASSUME NEW r \in Req, Release(r) \/ GiveUp(r) \/ Leave(r) \/ Drain(r) PROVE PoolInv'
  BY <1>4, ReleaseInv, GiveUpInv, LeaveInv, DrainInv
<1>5. ASSUME NEW r \in Req, Expire(r) \/ Break(r) \/ Cancel(r) PROVE PoolInv'
  BY <1>5, ExpireInv, BreakInv, CancelInvs DEF Cancel
<1> QED
  BY <1>1, <1>2, <1>3, <1>4, <1>5, CloseInv DEF Next

\* Whatever the watchers do: the types, the queue and the owners are right, and numOpen counts
\* the connections and dials there are, at most Size of them, until the pool is closed.
THEOREM PoolHolds == Spec => []PoolInv
<1>1. Init => PoolInv
  BY PoolInit
<1>2. PoolInv /\ [Next]_vars => PoolInv'
  BY PoolStep
<1> QED
  BY <1>1, <1>2, PTL DEF Spec

\* The sets, queues and counters of the pool keep their types (TypeOK).
THEOREM PoolTypes == Spec => []TypeOK
<1>1. PoolInv => TypeOK
  BY DEF PoolInv
<1> QED
  BY <1>1, PoolHolds, PTL

----------------------------------------------------------------------------
(* What the counter counts *)

LEMMA ImageSize ==
  ASSUME NEW S, IsFiniteSet(S), NEW f, \A a, b \in S : f[a] = f[b] => a = b
  PROVE  IsFiniteSet({f[a] : a \in S}) /\ Cardinality({f[a] : a \in S}) = Cardinality(S)
<1> DEFINE T == {f[a] : a \in S}
           g == [a \in S |-> f[a]]
<1>1. g \in [S -> T] /\ DOMAIN g = S /\ \A a \in S : g[a] = f[a]
  OBVIOUS
<1>2. \A t \in T : \E a \in S : g[a] = t
  BY <1>1
<1>3. \A a, b \in S : g[a] = g[b] => a = b
  BY <1>1
<1> HIDE DEF T, g
<1>4. g \in Injection(S, T)
  BY <1>1, <1>3 DEF Injection, IsInjective
<1>5. g \in Surjection(S, T)
  BY <1>1, <1>2 DEF Surjection
<1>6. ExistsBijection(S, T)
  BY <1>4, <1>5 DEF ExistsBijection, Bijection
<1> QED
  BY <1>6, FS_Bijection DEF T

LEMMA PlacesCounted ==
  ASSUME PoolInv
  PROVE  Cardinality({c \in Conn : Places(c) # {}})
           = Len(idle) + Cardinality(Carried) + Cardinality(Holding)
<1> DEFINE I == {idle[i] : i \in 1..Len(idle)}
           C == {chan[r] : r \in Carried}
           H == {conn[r] : r \in Holding}
<1>1. /\ Len(idle) \in Nat /\ DOMAIN idle = 1..Len(idle)
      /\ \A i \in 1..Len(idle) : idle[i] \in Conn
  BY DEF PoolInv, TypeOK
<1>2. IsFiniteSet(1..Len(idle)) /\ Cardinality(1..Len(idle)) = Len(idle)
  <2>1. /\ IsFiniteSet(1..Len(idle))
        /\ Cardinality(1..Len(idle)) = IF 1 > Len(idle) THEN 0 ELSE Len(idle) - 1 + 1
    BY <1>1, FS_Interval
  <2> QED
    BY <1>1, <2>1
<1>3. IsFiniteSet(Carried) /\ IsFiniteSet(Holding)
  BY PoolAssumption, FS_Subset DEF Carried, Holding
<1>4. IsFiniteSet(I) /\ Cardinality(I) = Len(idle)
  <2>1. \A i, j \in 1..Len(idle) : idle[i] = idle[j] => i = j
    BY DEF PoolInv, Owned
  <2> QED
    BY <1>2, <2>1, ImageSize
<1>5. IsFiniteSet(C) /\ Cardinality(C) = Cardinality(Carried)
  <2>1. \A r, q \in Carried : chan[r] = chan[q] => r = q
    BY DEF PoolInv, Owned, Carried
  <2> QED
    BY <1>3, <2>1, ImageSize
<1>6. IsFiniteSet(H) /\ Cardinality(H) = Cardinality(Holding)
  <2>1. \A r, q \in Holding : conn[r] = conn[q] => r = q
    BY DEF PoolInv, Owned, Holding
  <2> QED
    BY <1>3, <2>1, ImageSize
<1>7. I \cap C = {} /\ (I \cup C) \cap H = {}
  BY DEF PoolInv, Owned, Carried, Holding
<1>8. {c \in Conn : Places(c) # {}} = (I \cup C) \cup H
  <2>1. ASSUME NEW c \in Conn
        PROVE  Places(c) # {} <=> c \in I \/ c \in C \/ c \in H
    <3>1. Places(c) # {} <=> \/ \E i \in 1..Len(idle) : idle[i] = c
                             \/ \E r \in Req : chan[r] = c
                             \/ \E r \in Req : conn[r] = c
      BY <1>1 DEF Places
    <3> QED
      BY <3>1 DEF Carried, Holding
  <2>2. I \subseteq Conn /\ C \subseteq Conn /\ H \subseteq Conn
    BY <1>1 DEF Carried, Holding
  <2> HIDE DEF I, C, H
  <2> QED
    BY <2>1, <2>2
<1> HIDE DEF I, C, H
<1>9. /\ IsFiniteSet(I \cup C)
      /\ Cardinality(I \cup C) = Cardinality(I) + Cardinality(C) - Cardinality(I \cap C)
  BY <1>4, <1>5, FS_Union
<1>10. Cardinality((I \cup C) \cup H)
         = Cardinality(I \cup C) + Cardinality(H) - Cardinality((I \cup C) \cap H)
  BY <1>6, <1>9, FS_Union
<1>11. Cardinality(I \cap C) = 0 /\ Cardinality((I \cup C) \cap H) = 0
  BY <1>7, FS_EmptySet
<1>12. Cardinality(I) \in Nat /\ Cardinality(C) \in Nat /\ Cardinality(H) \in Nat
  BY <1>4, <1>5, <1>6, FS_CardinalityType
<1>13. Cardinality((I \cup C) \cup H) = Cardinality(I) + Cardinality(C) + Cardinality(H)
  BY <1>9, <1>10, <1>11, <1>12
<1> QED
  BY <1>4, <1>5, <1>6, <1>8, <1>13

\* A connection has at most one owner.
LEMMA OneOwner ==
  ASSUME PoolInv, NEW c \in Conn
  PROVE  (\A p, q \in Places(c) : p = q) /\ (Places(c) # {} => life[c] # "gone")
<1>1. DOMAIN idle = 1..Len(idle)
  BY DEF PoolInv, TypeOK
<1>2. \A p \in Places(c) : \/ \E i \in 1..Len(idle) : p = <<"idle", i>> /\ idle[i] = c
                           \/ \E r \in Req : p = <<"chan", r>> /\ chan[r] = c
                           \/ \E r \in Req : p = <<"held", r>> /\ conn[r] = c
  BY <1>1 DEF Places
<1>3. \A p, q \in Places(c) : p = q
  BY <1>2 DEF PoolInv, Owned
<1>4. Places(c) # {} => life[c] # "gone"
  BY <1>2 DEF PoolInv, Alive
<1> QED
  BY <1>3, <1>4

----------------------------------------------------------------------------
(* The cancel watchers.  The backend that a CancelRequest fired in time is *)
(* on its way to is marked, and is held by the request that asked or by    *)
(* nobody: Release destroys it.  A marked backend that is idle, or handed  *)
(* over, was marked by a watcher that was late.                            *)

MarkedLate(c) == c \in tainted => \E w \in late : w[2] = c

CancelInv ==
  /\ \A w \in cancels : w[2] \in tainted
  /\ \A w \in cancels \ late : /\ \A q \in Req : conn[q] = w[2] => q = w[1]
                               /\ \A q \in Req : chan[q] # w[2]
                               /\ \A i \in 1..Len(idle) : idle[i] # w[2]
  /\ \A i \in 1..Len(idle) : MarkedLate(idle[i])
  /\ \A q \in Req : MarkedLate(chan[q])

\* A step that marks nothing, and puts in other hands only connections that are not marked.
LEMMA CancelKept ==
  ASSUME PoolInv, CancelInv, tainted' = tainted, late' = late, cancels' \subseteq cancels,
         \A i \in 1..Len(idle') : idle'[i] \notin tainted \/ \E j \in 1..Len(idle) : idle'[i] = idle[j],
         \A q \in Req : chan'[q] \notin tainted \/ chan'[q] = chan[q],
         \A q \in Req : \/ conn'[q] \notin tainted
                        \/ conn'[q] = conn[q]
                        \/ conn'[q] = chan[q]
                        \/ \E j \in 1..Len(idle) : conn'[q] = idle[j]
  PROVE  CancelInv'
<1>1. \A w \in cancels' : w[2] \in tainted'
  BY DEF CancelInv
<1>2. \A c : MarkedLate(c)' = MarkedLate(c)
  BY DEF MarkedLate
<1>3. (\A i \in 1..Len(idle') : MarkedLate(idle[i])') /\ \A q \in Req : MarkedLate(chan[q])'
  BY <1>2 DEF CancelInv, MarkedLate
<1>4. ASSUME NEW w \in cancels' \ late'
      PROVE  /\ \A q \in Req : conn'[q] = w[2] => q = w[1]
             /\ \A q \in Req : chan'[q] # w[2]
             /\ \A i \in 1..Len(idle') : idle'[i] # w[2]
  <2>1. w \in cancels \ late /\ w[2] \in tainted
    BY <1>4 DEF CancelInv
  <2>2. /\ \A q \in Req : conn[q] = w[2] => q = w[1]
        /\ \A q \in Req : chan[q] # w[2]
        /\ \A i \in 1..Len(idle) : idle[i] # w[2]
    BY <2>1 DEF CancelInv
  <2> QED
    BY <2>1, <2>2
<1> QED
  BY <1>1, <1>3, <1>4 DEF CancelInv

LEMMA NoneTainted == ASSUME PoolInv PROVE None \notin tainted /\ Nil \notin tainted
BY PoolAssumption DEF PoolInv, TypeOK

LEMMA CancelInit == Init => CancelInv
<1> SUFFICES ASSUME Init PROVE CancelInv
  OBVIOUS
<1>1. cancels = {} /\ tainted = {} /\ Len(idle) = 0
  BY DEF Init
<1> QED
  BY <1>1 DEF CancelInv, MarkedLate

LEMMA CancelAcquire ==
  ASSUME PoolInv, CancelInv, NEW r \in Req,
         AcquireClosed(r) \/ AcquireIdle(r) \/ AcquireNew(r) \/ Receive(r)
  PROVE  CancelInv'
<1>1. None \notin tainted
  BY NoneTainted
<1>2. /\ conn \in [Req -> Conn \cup {None}] /\ chan \in [Req -> Conn \cup {None, Nil}]
      /\ idle \in Seq(Conn) /\ Len(idle) \in Nat
  BY DEF PoolInv, TypeOK
<1>5. CASE AcquireClosed(r)
  BY <1>5, CancelKept DEF AcquireClosed, pool, wire
<1>6. CASE AcquireIdle(r)
  <2>1. Top \in 1..Len(idle)
    BY <1>2, <1>6, TopIs DEF AcquireIdle, PoolInv
  <2>2. \A i \in 1..Len(idle') : i \in 1..Len(idle) /\ idle'[i] = idle[i]
    BY <1>2, <1>6, <2>1 DEF AcquireIdle
  <2>3. \A q \in Req : conn'[q] = IF q = r THEN idle[Top] ELSE conn[q]
    BY <1>2, <1>6 DEF AcquireIdle
  <2>4. UNCHANGED <<chan, tainted, firing, cancels, late>>
    BY <1>6 DEF AcquireIdle
  <2> QED
    BY <2>1, <2>2, <2>3, <2>4, CancelKept
<1>7. CASE AcquireNew(r)
  <2>1. Len(idle') = 0 /\ UNCHANGED <<conn, chan, tainted, firing, cancels, late>>
    BY <1>7 DEF AcquireNew
  <2> QED
    BY <2>1, CancelKept
<1>8. CASE Receive(r)
  <2>1. \A q \in Req : chan'[q] = IF q = r THEN None ELSE chan[q]
    BY <1>2, <1>8 DEF Receive
  <2>2. conn' = conn \/ conn' = [conn EXCEPT ![r] = chan[r]]
    BY <1>8 DEF Receive
  <2>3. \A q \in Req : conn'[q] = conn[q] \/ conn'[q] = chan[q]
    BY <1>2, <2>2
  <2>4. UNCHANGED <<idle, tainted, firing, cancels, late>>
    BY <1>8 DEF Receive
  <2> QED
    BY <1>1, <2>1, <2>3, <2>4, CancelKept
<1> QED
  BY <1>5, <1>6, <1>7, <1>8

\* A new backend is not marked, and no CancelRequest is on its way to it.
LEMMA CancelDial ==
  ASSUME PoolInv, CancelInv, NEW r \in Req, Dial(r)
  PROVE  CancelInv'
<1>1. ASSUME NEW c \in Conn, DialOk(r, c) \/ RedialOk(r, c) PROVE CancelInv'
  <2>1. /\ tainted' = tainted \ {c} /\ late' = late \ (Req \X {c}) /\ UNCHANGED <<idle, cancels>>
        /\ life[c] = "gone" /\ \A q \in Req : <<q, c>> \notin cancels
    BY <1>1 DEF DialOk, RedialOk, Connect, Fresh, pool
  <2>2. /\ conn \in [Req -> Conn \cup {None}] /\ chan \in [Req -> Conn \cup {None, Nil}]
        /\ cancels \subseteq Req \X Conn /\ late \subseteq Req \X Conn
    BY DEF PoolInv, TypeOK
  <2>3. \A w \in cancels : w[2] # c
    <3> TAKE w \in cancels
    <3>1. w = <<w[1], w[2]>> /\ w[1] \in Req /\ w[2] \in Conn
      BY <2>2
    <3> QED
      BY <2>1, <3>1
  <2>4. \A q \in Req : conn'[q] = conn[q] \/ conn'[q] = c
    BY <1>1, <2>2 DEF DialOk, RedialOk
  <2>5. \A q \in Req : chan'[q] = chan[q] \/ chan'[q] = c
    BY <1>1, <2>2 DEF DialOk, RedialOk
  <2>6. \A w \in cancels' : w[2] \in tainted'
    BY <2>1, <2>3 DEF CancelInv
  <2>7. \A w \in cancels' \ late' : w \in cancels \ late /\ w[2] # c
    <3> TAKE w \in cancels' \ late'
    <3>1. w \notin Req \X {c}
      BY <2>1, <2>3
    <3> QED
      BY <2>1, <2>3, <3>1
  <2>8. \A w \in cancels' \ late' : /\ \A q \in Req : conn'[q] = w[2] => q = w[1]
                                    /\ \A q \in Req : chan'[q] # w[2]
                                    /\ \A i \in 1..Len(idle') : idle'[i] # w[2]
    BY <2>1, <2>4, <2>5, <2>7 DEF CancelInv
  <2>9. \A d : MarkedLate(d) => MarkedLate(d)'
    <3> SUFFICES ASSUME NEW d, MarkedLate(d), d \in tainted' PROVE \E w \in late' : w[2] = d
      BY DEF MarkedLate
    <3>1. PICK w \in late : w[2] = d
      BY <2>1 DEF MarkedLate
    <3>2. d # c /\ w \notin Req \X {c}
      BY <2>1, <3>1
    <3> QED
      BY <2>1, <3>1, <3>2
  <2>10. MarkedLate(c)'
    BY <2>1 DEF MarkedLate
  <2>11. \A i \in 1..Len(idle') : MarkedLate(idle[i])'
    <3> SUFFICES ASSUME NEW i \in 1..Len(idle) PROVE MarkedLate(idle[i])'
      BY <2>1
    <3>1. MarkedLate(idle[i])
      BY DEF CancelInv
    <3> QED
      BY <2>1, <2>9, <3>1
  <2>12. \A q \in Req : MarkedLate(chan[q])'
    <3> TAKE q \in Req
    <3>1. MarkedLate(chan[q])
      BY DEF CancelInv
    <3> QED
      BY <2>1, <2>5, <2>9, <2>10, <3>1 DEF MarkedLate
  <2> QED
    BY <2>6, <2>8, <2>11, <2>12 DEF CancelInv
<1>2. CASE DialFails(r) \/ RedialFails(r)
  <2>1. chan \in [Req -> Conn \cup {None, Nil}]
    BY DEF PoolInv, TypeOK
  <2>2. UNCHANGED <<idle, conn, tainted, cancels, late>>
    BY <1>2 DEF DialFails, RedialFails, wire
  <2>3. \A q \in Req : chan'[q] = chan[q] \/ chan'[q] = Nil
    BY <1>2, <2>1 DEF DialFails, RedialFails
  <2> QED
    BY <2>2, <2>3, NoneTainted, CancelKept
<1> QED
  BY <1>1, <1>2 DEF Dial

\* Poolable keeps a marked connection out of the idle set and of the channels.
LEMMA CancelReturn ==
  ASSUME PoolInv, CancelInv, NEW r \in Req, NEW c \in Conn, NEW ch, GiveBack(r, c, ch), Return(c, ch)
  PROVE  CancelInv'
<1>1. /\ UNCHANGED <<tainted, cancels, late>> /\ ch \in [Req -> Conn \cup {None, Nil}]
      /\ \A q \in Req : ch[q] = chan[q] \/ ch[q] = None
  <2>1. /\ ch \in [Req -> Conn \cup {None, Nil}]
        /\ \A q \in Req : ch[q] = chan[q] \/ ch[q] = None
    BY LooseIs
  <2> QED
    BY <2>1 DEF GiveBack
<1>2. /\ conn \in [Req -> Conn \cup {None}] /\ idle \in Seq(Conn) /\ Len(idle) \in Nat
  BY DEF PoolInv, TypeOK
<1>3. \A q \in Req : chan'[q] \notin tainted \/ chan'[q] = chan[q]
  <2>1. chan' = ch \/ (c \notin tainted /\ chan' = [ch EXCEPT ![Head(waiters)] = c])
    BY DEF Return, Destroy, HandOver, Poolable
  <2>2. \A q \in Req : chan'[q] = ch[q] \/ (c \notin tainted /\ chan'[q] = c)
    BY <1>1, <2>1
  <2> QED
    BY <1>1, <2>2, NoneTainted
<1>4. \A i \in 1..Len(idle') : idle'[i] \notin tainted \/ \E j \in 1..Len(idle) : idle'[i] = idle[j]
  <2>1. idle' = idle \/ (c \notin tainted /\ idle' = Append(idle, c))
    BY DEF Return, Destroy, HandOver, Poolable
  <2> QED
    BY <1>2, <2>1
<1>5. \A q \in Req : conn'[q] = conn[q] \/ conn'[q] = None
  BY <1>2 DEF GiveBack
<1> QED
  BY <1>1, <1>3, <1>4, <1>5, NoneTainted, CancelKept

\* The steps between Acquire and Release, and Close.
LEMMA CancelOthers ==
  ASSUME PoolInv, CancelInv, NEW r \in Req, GiveUp(r) \/ Leave(r) \/ Expire(r) \/ Break(r)
  PROVE  CancelInv'
<1>1. UNCHANGED <<idle, conn, chan, tainted, cancels, late>>
  BY DEF GiveUp, Leave, Expire, Break, pool, wire
<1> QED
  BY <1>1, CancelKept

LEMMA CancelClose ==
  ASSUME PoolInv, CancelInv, Close
  PROVE  CancelInv'
<1>1. /\ Len(idle') = 0 /\ UNCHANGED <<conn, tainted, cancels, late>>
      /\ \A q \in Req : chan'[q] = chan[q] \/ chan'[q] = Nil
  BY DEF Close
<1> QED
  BY <1>1, NoneTainted, CancelKept

\* A watcher that fires in time marks a connection its own request holds, and nobody else;
\* one that is late is remembered.
LEMMA CancelFires ==
  ASSUME PoolInv, CancelInv, NEW r \in Req, Cancel(r)
  PROVE  CancelInv'
<1>1. ASSUME NEW c \in Conn, SendCancelRequest(r, c) PROVE CancelInv'
  <2>1. /\ tainted' = tainted \cup {c} /\ cancels' = cancels \cup {<<r, c>>}
        /\ late' = IF conn[r] = c THEN late ELSE late \cup {<<r, c>>}
        /\ UNCHANGED <<idle, conn, chan>>
    BY <1>1 DEF SendCancelRequest, pool
  <2>2. /\ <<r, c>>[2] = c /\ <<r, c>>[1] = r
    OBVIOUS
  <2>3. \A w \in cancels' : w[2] \in tainted'
    BY <2>1, <2>2 DEF CancelInv
  <2>4. ASSUME conn[r] = c
        PROVE  /\ \A q \in Req : conn[q] = c => q = r
               /\ \A q \in Req : chan[q] # c
               /\ \A i \in 1..Len(idle) : idle[i] # c
    BY <2>4 DEF PoolInv, Owned
  <2>5. ASSUME NEW w \in cancels' \ late'
        PROVE  /\ \A q \in Req : conn'[q] = w[2] => q = w[1]
               /\ \A q \in Req : chan'[q] # w[2]
               /\ \A i \in 1..Len(idle') : idle'[i] # w[2]
    <3>1. CASE w = <<r, c>> /\ conn[r] = c
      BY <2>1, <2>2, <2>4, <3>1
    <3>2. CASE w \in cancels \ late
      BY <2>1, <3>2 DEF CancelInv
    <3> QED
      BY <2>1, <3>1, <3>2
  <2>6. ASSUME NEW d, MarkedLate(d), d # c \/ conn[r] # c
        PROVE  MarkedLate(d)'
    BY <2>1, <2>2, <2>6 DEF MarkedLate
  <2>7. \A i \in 1..Len(idle') : MarkedLate(idle[i])'
    <3> SUFFICES ASSUME NEW i \in 1..Len(idle) PROVE MarkedLate(idle[i])'
      BY <2>1
    <3>1. MarkedLate(idle[i])
      BY DEF CancelInv
    <3> QED
      BY <2>1, <2>4, <2>6, <3>1 DEF MarkedLate
  <2>8. \A q \in Req : MarkedLate(chan[q])'
    <3> TAKE q \in Req
    <3>1. MarkedLate(chan[q])
      BY DEF CancelInv
    <3> QED
      BY <2>1, <2>4, <2>6, <3>1 DEF MarkedLate
  <2> QED
    BY <2>3, <2>5, <2>7, <2>8 DEF CancelInv
<1>2. ASSUME NEW c \in Conn, CancelLands(r, c) PROVE CancelInv'
  <2>1. cancels' \subseteq cancels /\ UNCHANGED <<idle, conn, chan, tainted, late>>
    BY <1>2 DEF CancelLands, pool
  <2> QED
    BY <2>1, CancelKept
<1> QED
  BY <1>1, <1>2 DEF Cancel

LEMMA CancelRelease ==
  ASSUME PoolInv, CancelInv, NEW r \in Req, Release(r) \/ Drain(r)
  PROVE  CancelInv'
<1>1. CASE Release(r)
  <2>1. pc[r] = "held" /\ conn[r] \in Conn
    BY <1>1 DEF Release, MayRelease, PoolInv, TypeOK
  <2>2. PICK c, ch : c = conn[r] /\ ch = chan /\ c \in Conn
    BY <2>1
  <2>3. Return(c, ch)
    BY <1>1, <2>2 DEF Release
  <2>4. GiveBack(r, c, ch)
    BY <1>1, <2>1, <2>2 DEF Release, Goto, GiveBack
  <2> QED
    BY <2>2, <2>3, <2>4, CancelReturn
<1>2. CASE Drain(r)
  <2>1. /\ pc[r] = "draining" /\ pc' = [pc EXCEPT ![r] = "done"]
        /\ chan \in [Req -> Conn \cup {None, Nil}]
        /\ UNCHANGED <<closed, conn, tainted, firing, cancels, late, faults>>
    BY <1>2 DEF Drain, Goto, PoolInv, TypeOK
  <2>2. CASE chan[r] \in Conn
    <3>1. PICK c, ch : c = chan[r] /\ ch = [chan EXCEPT ![r] = None] /\ c \in Conn
      BY <2>2
    <3>2. Return(c, ch)
      BY <1>2, <2>2, <3>1 DEF Drain
    <3>3. GiveBack(r, c, ch)
      BY <2>1, <3>1 DEF GiveBack
    <3> QED
      BY <3>1, <3>2, <3>3, CancelReturn
  <2>3. CASE chan[r] \notin Conn
    <3>1. idle' = idle /\ \A q \in Req : chan'[q] = chan[q] \/ chan'[q] = None
      BY <1>2, <2>1, <2>3 DEF Drain
    <3> QED
      BY <2>1, <3>1, NoneTainted, CancelKept
  <2> QED
    BY <2>2, <2>3
<1> QED
  BY <1>1, <1>2

LEMMA CancelStep == PoolInv /\ CancelInv /\ [Next]_vars => CancelInv'
<1> SUFFICES ASSUME PoolInv, CancelInv, [Next]_vars PROVE CancelInv'
  OBVIOUS
<1>1. CASE UNCHANGED vars
  BY <1>1, CancelKept DEF vars, pool, wire
<1>2. ASSUME NEW r \in Req,
             \/ AcquireClosed(r) \/ AcquireIdle(r) \/ AcquireNew(r) \/ Receive(r)
             \/ Dial(r) \/ Release(r) \/ GiveUp(r) \/ Leave(r) \/ Drain(r)
             \/ Expire(r) \/ Break(r) \/ Cancel(r)
      PROVE  CancelInv'
  BY <1>2, CancelAcquire, CancelDial, CancelRelease, CancelOthers, CancelFires
<1> QED
  BY <1>1, <1>2, CancelClose DEF Next

\* What the mark is worth, whenever watchers fire.
LEMMA CancelHolds == Spec => [](PoolInv /\ CancelInv)
<1>1. Init => PoolInv /\ CancelInv
  BY PoolInit, CancelInit
<1>2. PoolInv /\ CancelInv /\ [Next]_vars => (PoolInv /\ CancelInv)'
  BY PoolStep, CancelStep
<1> QED
  BY <1>1, <1>2, PTL DEF Spec

\* numOpen counts exactly the connections and the dials there are, never above the size of the
\* pool, every connection has one owner, and what is pooled is fit unless a late watcher marked
\* it (SlotsAccounted): for any number of requests, connections and faults, however acquires nest.
THEOREM SlotsHold == Spec => []SlotsAccounted
<1>1. ASSUME PoolInv, CancelInv PROVE SlotsAccounted
  <2>1. numOpen <= Size
    BY <1>1 DEF PoolInv, Counted
  <2>2. ~closed => numOpen = Cardinality({c \in Conn : Places(c) # {}})
                               + Cardinality(Dialing) + Cardinality(redial)
    BY <1>1, PlacesCounted DEF PoolInv, Counted, InUse
  <2>3. ASSUME NEW c \in Conn
        PROVE  \A p \in Places(c) : p[1] # "held" => Poolable(c) \/ \E w \in late : w[2] = c
    <3> SUFFICES ASSUME NEW p \in Places(c), p[1] # "held" PROVE Poolable(c) \/ \E w \in late : w[2] = c
      OBVIOUS
    <3>1. DOMAIN idle = 1..Len(idle)
      BY <1>1 DEF PoolInv, TypeOK
    <3>2. (\E i \in 1..Len(idle) : idle[i] = c) \/ \E r \in Req : chan[r] = c
      BY <3>1 DEF Places
    <3>3. life[c] = "clean" /\ MarkedLate(c)
      BY <1>1, <3>2 DEF PoolInv, Alive, CancelInv
    <3> QED
      BY <3>3 DEF Poolable, MarkedLate
  <2> QED
    BY <1>1, <2>1, <2>2, <2>3, OneOwner DEF SlotsAccounted
<1>2. PoolInv /\ CancelInv => SlotsAccounted
  BY <1>1
<1> QED
  BY <1>2, CancelHolds, PTL

\* A backend that a CancelRequest is on its way to is in the hands of the request that asked or
\* of nobody, unless the watcher fired after that request gave it back (OnlyLateCancelsStray):
\* the mark leaves no second way to cancel an innocent statement.
THEOREM InnocentsSpared == Spec => []OnlyLateCancelsStray
<1>1. ASSUME PoolInv, CancelInv, NEW w \in cancels \ late, NEW p \in Places(w[2])
      PROVE  p = <<"held", w[1]>>
  <2>1. DOMAIN idle = 1..Len(idle)
    BY <1>1 DEF PoolInv, TypeOK
  <2>2. \/ \E i \in 1..Len(idle) : idle[i] = w[2]
        \/ \E r \in Req : chan[r] = w[2]
        \/ \E r \in Req : p = <<"held", r>> /\ conn[r] = w[2]
    BY <2>1 DEF Places
  <2> QED
    BY <1>1, <2>2 DEF CancelInv
<1>2. PoolInv /\ CancelInv => OnlyLateCancelsStray
  BY <1>1 DEF OnlyLateCancelsStray
<1> QED
  BY <1>2, CancelHolds, PTL

----------------------------------------------------------------------------
(* Who waits, and for whom.  The queue is complete: a request that waits   *)
(* stands in it, or a goroutine dials for it, or its answer is there; and  *)
(* nobody queues beside an idle connection or in a closed pool.            *)

Queued(r) == \E i \in 1..Len(waiters) : waiters[i] = r

AwaitsOne == \A r \in Req : pc[r] = "waiting" => Queued(r) \/ r \in redial \/ chan[r] # None
NoneBeside == waiters # <<>> => idle = <<>> /\ ~closed
WaitersKept == AwaitsOne /\ NoneBeside

\* What is left of a queue that lost its first request.
LEMMA TailKeeps ==
  ASSUME TypeOK, waiters # <<>>, waiters' = Tail(waiters), NEW q, Queued(q)
  PROVE  q = Head(waiters) \/ Queued(q)'
<1>1. PICK i \in 1..Len(waiters) : waiters[i] = q
  BY DEF Queued
<1>2. waiters \in Seq(Req) /\ Len(waiters) \in Nat
  BY DEF TypeOK
<1>3. Len(waiters') = Len(waiters) - 1 /\ \A j \in 1..(Len(waiters) - 1) : waiters'[j] = waiters[j + 1]
  BY <1>2
<1>4. CASE i = 1
  BY <1>1, <1>2, <1>4
<1>5. CASE i # 1
  <2>1. i - 1 \in 1..Len(waiters') /\ waiters'[i - 1] = waiters[i]
    BY <1>2, <1>3, <1>5
  <2> QED
    BY <1>1, <2>1 DEF Queued
<1> QED
  BY <1>4, <1>5

\* A step after which nobody new waits, and nobody who waits lost what it waits for.
LEMMA WaitersStay ==
  ASSUME WaitersKept,
         \A q \in Req : pc'[q] = "waiting" =>
           pc[q] = "waiting" /\ (chan[q] # None => chan'[q] # None)
             /\ (q \in redial => q \in redial' \/ chan'[q] # None),
         waiters' = waiters, waiters' = <<>> \/ (idle' = <<>> /\ ~closed')
  PROVE  WaitersKept'
BY DEF WaitersKept, AwaitsOne, NoneBeside, Queued

LEMMA ReturnKeepsWaiters ==
  ASSUME PoolInv, WaitersKept, NEW r \in Req, NEW c \in Conn, NEW ch, Return(c, ch), UNCHANGED closed,
         ch \in [Req -> Conn \cup {None, Nil}],
         \A q \in Req : pc'[q] = "waiting" => pc[q] = "waiting" /\ ch[q] = chan[q]
  PROVE  WaitersKept'
<1>1. \A q \in Req : pc'[q] = "waiting" => Queued(q) \/ q \in redial \/ ch[q] # None
  BY DEF WaitersKept, AwaitsOne
<1>2. None \notin Conn
  BY PoolAssumption
<1>3. waiters \in Seq(Req) /\ TypeOK
  BY DEF PoolInv, TypeOK
<1>4. CASE waiters' = waiters /\ chan' = ch /\ redial' = redial /\ (waiters = <<>> \/ idle' = idle)
  BY <1>1, <1>4 DEF WaitersKept, AwaitsOne, NoneBeside, Queued
<1>5. CASE /\ waiters # <<>> /\ waiters' = Tail(waiters) /\ idle' = idle
           /\ \/ chan' = ch /\ redial' = redial \cup {Head(waiters)}
              \/ chan' = [ch EXCEPT ![Head(waiters)] = c] /\ redial' = redial
  <2>1. ASSUME NEW q \in Req, pc'[q] = "waiting"
        PROVE  Queued(q)' \/ q \in redial' \/ chan'[q] # None
    <3>1. CASE Queued(q)
      <4>1. CASE q = Head(waiters)
        BY <1>2, <1>5, <4>1
      <4>2. CASE Queued(q)'
        BY <4>2
      <4> QED
        BY <1>3, <1>5, <3>1, <4>1, <4>2, TailKeeps
    <3>2. CASE q \in redial
      BY <1>5, <3>2
    <3>3. CASE ch[q] # None
      BY <1>2, <1>5, <3>3
    <3> QED
      BY <1>1, <2>1, <3>1, <3>2, <3>3
  <2>2. NoneBeside'
    BY <1>5 DEF WaitersKept, NoneBeside
  <2> QED
    BY <2>1, <2>2 DEF WaitersKept, AwaitsOne
<1>6. CASE ~closed /\ Poolable(c)
  <2>1. HandOver(c, ch)
    BY <1>6 DEF Return
  <2> QED
    BY <1>4, <1>5, <2>1 DEF HandOver
<1>7. CASE ~(~closed /\ Poolable(c))
  <2>1. Destroy(c, ch)
    BY <1>7 DEF Return
  <2>2. closed => waiters = <<>>
    BY DEF WaitersKept, NoneBeside
  <2> QED
    BY <1>4, <1>5, <2>1, <2>2 DEF Destroy
<1> QED
  BY <1>6, <1>7

LEMMA WaitersAcquire ==
  ASSUME PoolInv, WaitersKept, NEW r \in Req,
         AcquireClosed(r) \/ AcquireIdle(r) \/ AcquireNew(r) \/ Receive(r)
  PROVE  WaitersKept'
<1>0. pc \in [Req -> PC] /\ chan \in [Req -> Conn \cup {None, Nil}] /\ waiters \in Seq(Req)
  BY DEF PoolInv, TypeOK
<1>1. CASE AcquireClosed(r)
  <2>1. /\ pc' = [pc EXCEPT ![r] = "done"] /\ UNCHANGED <<waiters, redial, chan, idle, closed>>
    BY <1>1 DEF AcquireClosed, Goto, pool
  <2> QED
    BY <1>0, <2>1, WaitersStay DEF WaitersKept, NoneBeside
<1>2. CASE AcquireIdle(r)
  <2>1. /\ pc' = [pc EXCEPT ![r] = "held"] /\ UNCHANGED <<waiters, redial, chan, closed>>
        /\ Top > 0
    BY <1>2 DEF AcquireIdle, Goto
  <2>2. idle # <<>>
    <3>1. Top \in 0..Len(idle) /\ Len(idle) \in Nat
      BY TopIs DEF PoolInv, TypeOK
    <3> QED
      BY <2>1, <3>1
  <2>3. waiters = <<>>
    BY <2>2 DEF WaitersKept, NoneBeside
  <2> QED
    BY <1>0, <2>1, <2>3, WaitersStay
<1>3. CASE AcquireNew(r)
  <2>1. UNCHANGED <<redial, chan, closed>> /\ ~closed /\ idle' = <<>>
    BY <1>3 DEF AcquireNew
  <2>2. CASE pc' = [pc EXCEPT ![r] = "dialing"] /\ waiters' = waiters
    BY <1>0, <2>1, <2>2, WaitersStay
  <2>3. CASE pc' = [pc EXCEPT ![r] = "waiting"] /\ waiters' = Append(waiters, r)
    <3>1. /\ Len(waiters') = Len(waiters) + 1 /\ waiters'[Len(waiters) + 1] = r /\ Len(waiters) \in Nat
          /\ \A i \in 1..Len(waiters) : waiters'[i] = waiters[i]
      BY <1>0, <2>3
    <3>2. Queued(r)'
      BY <3>1 DEF Queued
    <3>3. \A q \in Req : Queued(q) => Queued(q)'
      BY <3>1 DEF Queued
    <3> QED
      BY <1>0, <2>1, <2>3, <3>2, <3>3 DEF WaitersKept, AwaitsOne, NoneBeside
  <2> QED
    BY <1>3, <2>2, <2>3 DEF AcquireNew, Goto
<1>4. CASE Receive(r)
  <2>1. /\ UNCHANGED <<waiters, redial, idle, closed>> /\ chan' = [chan EXCEPT ![r] = None]
        /\ \E s \in {"done", "held", "new"} : pc' = [pc EXCEPT ![r] = s]
    BY <1>4 DEF Receive, Goto
  <2> QED
    BY <1>0, <2>1, WaitersStay DEF WaitersKept, NoneBeside
<1> QED
  BY <1>1, <1>2, <1>3, <1>4

LEMMA WaitersDial ==
  ASSUME PoolInv, WaitersKept, NEW r \in Req, Dial(r)
  PROVE  WaitersKept'
<1>0. pc \in [Req -> PC] /\ chan \in [Req -> Conn \cup {None, Nil}]
  BY DEF PoolInv, TypeOK
<1>1. UNCHANGED <<waiters, idle, closed>>
  BY DEF Dial, DialOk, DialFails, RedialOk, RedialFails, pool
<1>2. CASE (\E c \in Conn : DialOk(r, c)) \/ DialFails(r)
  <2>1. /\ UNCHANGED <<redial, chan>>
        /\ \E s \in {"held", "done"} : pc' = [pc EXCEPT ![r] = s]
    BY <1>2 DEF DialOk, DialFails, Goto
  <2> QED
    BY <1>0, <1>1, <2>1, WaitersStay DEF WaitersKept, NoneBeside
<1>3. CASE (\E c \in Conn : RedialOk(r, c)) \/ RedialFails(r)
  <2>1. /\ UNCHANGED pc /\ redial' = redial \ {r}
        /\ \E x \in Conn \cup {Nil} : chan' = [chan EXCEPT ![r] = x]
    BY <1>3 DEF RedialOk, RedialFails
  <2>2. None \notin Conn /\ None # Nil
    BY PoolAssumption
  <2> QED
    BY <1>0, <1>1, <2>1, <2>2, WaitersStay DEF WaitersKept, NoneBeside
<1> QED
  BY <1>2, <1>3 DEF Dial

LEMMA WaitersRelease ==
  ASSUME PoolInv, WaitersKept, NEW r \in Req, Release(r) \/ Drain(r)
  PROVE  WaitersKept'
<1>0. /\ pc \in [Req -> PC] /\ chan \in [Req -> Conn \cup {None, Nil}]
      /\ conn \in [Req -> Conn \cup {None}] /\ (pc[r] = "held" <=> conn[r] # None)
  BY DEF PoolInv, TypeOK
<1>1. pc' = [pc EXCEPT ![r] = "done"] /\ UNCHANGED closed
  BY DEF Release, Drain, Goto
<1>2. CASE Release(r)
  <2>1. Return(conn[r], chan) /\ conn[r] \in Conn
    BY <1>0, <1>2 DEF Release, MayRelease
  <2> QED
    BY <1>0, <1>1, <2>1, ReturnKeepsWaiters
<1>3. CASE Drain(r)
  <2> DEFINE ch == [chan EXCEPT ![r] = None]
  <2>1. ch \in [Req -> Conn \cup {None, Nil}] /\ \A q \in Req : q # r => ch[q] = chan[q]
    BY <1>0
  <2>2. CASE chan[r] \in Conn
    <3>1. Return(chan[r], ch)
      BY <1>3, <2>2 DEF Drain
    <3> HIDE DEF ch
    <3> QED
      BY <1>0, <1>1, <2>1, <2>2, <3>1, ReturnKeepsWaiters
  <2>3. CASE chan[r] \notin Conn
    <3>1. chan' = ch /\ UNCHANGED <<idle, waiters, redial>>
      BY <1>3, <2>3 DEF Drain
    <3> QED
      BY <1>0, <1>1, <3>1, WaitersStay DEF WaitersKept, NoneBeside
  <2> QED
    BY <2>2, <2>3
<1> QED
  BY <1>2, <1>3

LEMMA WaitersLeave ==
  ASSUME PoolInv, WaitersKept, NEW r \in Req, Leave(r)
  PROVE  WaitersKept'
<1>0. pc \in [Req -> PC] /\ waiters \in Seq(Req) /\ Len(waiters) \in Nat /\ DOMAIN waiters = 1..Len(waiters)
  BY DEF PoolInv, TypeOK
<1>1. pc' = [pc EXCEPT ![r] = "draining"] /\ UNCHANGED <<redial, chan, idle, closed>>
  BY DEF Leave, Goto
<1>2. CASE \E i \in DOMAIN waiters : waiters[i] = r
  <2>1. PICK i \in 1..Len(waiters) :
          waiters[i] = r /\ waiters' = SubSeq(waiters, 1, i - 1) \o SubSeq(waiters, i + 1, Len(waiters))
    BY <1>0, <1>2 DEF Leave
  <2>2. /\ Len(waiters') = Len(waiters) - 1
        /\ \A k \in 1..Len(waiters') : waiters'[k] = IF k < i THEN waiters[k] ELSE waiters[k + 1]
    BY <1>0, <2>1, Without
  <2>3. ASSUME NEW q \in Req, q # r, Queued(q) PROVE Queued(q)'
    <3>1. PICK j \in 1..Len(waiters) : waiters[j] = q
      BY <2>3 DEF Queued
    <3>2. CASE j < i
      <4>1. j \in 1..Len(waiters') /\ waiters'[j] = waiters[j]
        BY <1>0, <2>2, <3>2
      <4> QED
        BY <3>1, <4>1 DEF Queued
    <3>3. CASE j > i
      <4>1. j - 1 \in 1..Len(waiters') /\ waiters'[j - 1] = waiters[j]
        BY <1>0, <2>2, <3>3
      <4> QED
        BY <3>1, <4>1 DEF Queued
    <3> QED
      BY <2>1, <2>3, <3>1, <3>2, <3>3
  <2>4. AwaitsOne'
    BY <1>0, <1>1, <2>3 DEF WaitersKept, AwaitsOne
  <2>5. waiters # <<>>
    BY <1>0, <2>1
  <2> QED
    BY <1>1, <2>4, <2>5 DEF WaitersKept, NoneBeside
<1>3. CASE ~\E i \in DOMAIN waiters : waiters[i] = r
  <2>1. waiters' = waiters
    BY <1>3 DEF Leave
  <2> QED
    BY <1>0, <1>1, <2>1, WaitersStay DEF WaitersKept, NoneBeside
<1> QED
  BY <1>2, <1>3

LEMMA WaitersClose == ASSUME PoolInv, WaitersKept, Close PROVE WaitersKept'
<1>1. /\ waiters' = <<>> /\ UNCHANGED <<pc, redial>> /\ DOMAIN waiters = 1..Len(waiters)
      /\ \A q \in Req : chan'[q] = IF Queued(q) THEN Nil ELSE chan[q]
  BY DEF Close, PoolInv, TypeOK, Queued
<1>2. Nil # None
  BY PoolAssumption
<1> QED
  BY <1>1, <1>2 DEF WaitersKept, AwaitsOne, NoneBeside

\* A request that waits is queued, dialed for, or has its answer, and nobody queues beside an
\* idle connection: no hand-over, redial, departure or Close forgets a waiter.
THEOREM WaitersKnown == Spec => []WaitersKept
<1>1. Init => WaitersKept
  BY DEF Init, WaitersKept, AwaitsOne, NoneBeside
<1>2. ASSUME PoolInv, WaitersKept, [Next]_vars PROVE WaitersKept'
  <2>1. CASE UNCHANGED vars
    BY <1>2, <2>1 DEF vars, pool, WaitersKept, AwaitsOne, NoneBeside, Queued
  <2>2. ASSUME NEW r \in Req, GiveUp(r) \/ Expire(r) \/ Break(r) \/ Cancel(r) PROVE WaitersKept'
    <3>1. /\ UNCHANGED <<waiters, redial, chan, idle, closed>> /\ pc \in [Req -> PC]
          /\ (pc' = pc \/ pc' = [pc EXCEPT ![r] = "leaving"])
      BY <1>2, <2>2
         DEF GiveUp, Expire, Break, Cancel, SendCancelRequest, CancelLands, Goto, pool, PoolInv, TypeOK
    <3> QED
      BY <1>2, <3>1, WaitersStay DEF WaitersKept, NoneBeside
  <2> QED
    BY <1>2, <2>1, <2>2, WaitersAcquire, WaitersDial, WaitersRelease, WaitersLeave, WaitersClose
       DEF Next
<1>3. PoolInv /\ WaitersKept /\ [Next]_vars => WaitersKept'
  BY <1>2
<1> QED
  BY <1>1, <1>3, PoolHolds, PTL DEF Spec

\* A request whose next step is its own, a dial's, or its watcher's.
CanMove(q) ==
  \/ pc[q] \in {"dialing", "leaving", "draining"} \/ q \in redial
  \/ pc[q] = "waiting" /\ chan[q] # None
  \/ MayRelease(q)
  \/ \E c \in Conn : <<q, c>> \in firing

SomebodyMoves ==
  (\E r \in Req : pc[r] = "waiting") =>
    Stranded \/ Forgotten \/ HoldAndWait \/ \E q \in Req : CanMove(q)

\* A step holds at most two connections: what is acquired under a connection has nothing under it.
OneDeep == \A r \in DOMAIN Outer : Outer[r] \notin DOMAIN Outer

LEMMA EmptyNone == ASSUME NEW S \in SUBSET Req, S = {} PROVE Cardinality(S) = 0
BY FS_EmptySet

LEMMA HoldersMove ==
  ASSUME PoolInv, OneDeep, NEW r \in Req, pc[r] = "held",
         \A q \in DOMAIN Outer : Outer[q] = r => pc[q] # "waiting"
  PROVE  \E q \in Req : CanMove(q)
<1>1. DOMAIN Outer \subseteq Req /\ pc \in [Req -> PC]
  BY PoolAssumption DEF PoolInv, TypeOK
<1>2. CASE \A q \in DOMAIN Outer : Outer[q] = r => pc[q] \in {"new", "done"}
  BY <1>2 DEF MayRelease, CanMove
<1>3. ASSUME NEW q \in DOMAIN Outer, Outer[q] = r, pc[q] \notin {"new", "done"}
      PROVE  CanMove(q)
  <2>1. pc[q] \in {"dialing", "leaving", "draining", "held"}
    BY <1>1, <1>3 DEF PC
  <2>2. \A p \in DOMAIN Outer : Outer[p] # q
    BY DEF OneDeep
  <2> QED
    BY <2>1, <2>2 DEF CanMove, MayRelease
<1> QED
  BY <1>1, <1>2, <1>3

\* While a request waits, some request, dial or watcher can take its next step, unless the pool
\* is in one of the three states WaitersServed names: there is no fourth deadlock.  For any Size
\* and any number of requests.
THEOREM NoFourthDeadlock == OneDeep /\ Spec => []SomebodyMoves
<1>1. ASSUME OneDeep, PoolInv, WaitersKept, NEW r \in Req, pc[r] = "waiting",
             ~Stranded, ~Forgotten, ~HoldAndWait, \A q \in Req : ~CanMove(q)
      PROVE  FALSE
  <2>1. Queued(r)
    BY <1>1 DEF CanMove, WaitersKept, AwaitsOne
  <2>2. waiters # <<>>
    BY <1>1, <2>1 DEF Queued, PoolInv, TypeOK
  <2>3. idle = <<>> /\ ~closed
    BY <1>1, <2>2 DEF WaitersKept, NoneBeside
  <2>4. numOpen = Size /\ Size \in Nat \ {0}
    <3>1. numOpen \in Nat /\ Size \in Nat \ {0} /\ numOpen <= Size
      BY <1>1, PoolAssumption DEF PoolInv, TypeOK, Counted
    <3> QED
      BY <1>1, <2>2, <2>3, <3>1 DEF Forgotten
  <2>5. redial = {} /\ Dialing = {}
    BY <1>1 DEF CanMove, Dialing, PoolInv, TypeOK
  <2>6. Carried = {}
    <3>1. None \notin Conn /\ Nil \notin Conn
      BY PoolAssumption
    <3>2. ASSUME NEW q \in Req, chan[q] \in Conn PROVE FALSE
      <4>1. pc[q] \in {"waiting", "leaving", "draining", "done"} /\ chan[q] # None
        BY <1>1, <3>1, <3>2 DEF PoolInv, Queue
      <4> QED
        BY <1>1, <3>2, <4>1 DEF CanMove, Stranded
    <3> QED
      BY <3>2 DEF Carried
  <2>7. Holding = {q \in Req : pc[q] = "held"}
    BY <1>1, PoolAssumption DEF Holding, PoolInv, TypeOK
  <2>8. Cardinality(Holding) = numOpen /\ Holding # {}
    <3>1. Cardinality(redial) = 0 /\ Cardinality(Dialing) = 0 /\ Cardinality(Carried) = 0
      BY <2>5, <2>6, FS_EmptySet
    <3>2. Len(idle) = 0
      BY <2>3
    <3>3. Cardinality(Holding) \in Nat
      BY <1>1, Sizes DEF PoolInv
    <3>4. numOpen = Cardinality(Holding)
      BY <1>1, <2>3, <3>1, <3>2, <3>3 DEF PoolInv, Counted, InUse
    <3> QED
      BY <2>4, <3>4, FS_EmptySet
  <2>9. PICK h \in Holding : ~\E q \in DOMAIN Outer : Outer[q] = h /\ pc[q] = "waiting"
    BY <1>1, <2>7, <2>8 DEF HoldAndWait
  <2>10. h \in Req /\ pc[h] = "held"
    BY <2>7
  <2> QED
    BY <1>1, <2>9, <2>10, HoldersMove
<1>2. ASSUME OneDeep PROVE PoolInv /\ WaitersKept => SomebodyMoves
  BY <1>1, <1>2 DEF SomebodyMoves
<1>3. ASSUME OneDeep PROVE Spec => []SomebodyMoves
  BY <1>2, <1>3, PoolHolds, WaitersKnown, PTL
<1> QED
  BY <1>3
=============================================================================
