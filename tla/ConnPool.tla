------------------------------ MODULE ConnPool ------------------------------
(***************************************************************************)
(* The bounded connection pool of internal/pgwire/pool.go and the cancel   *)
(* watchers of txn.go.  A request is one call of Acquire with the Release  *)
(* that ends it; a step that acquires a second connection while it holds   *)
(* one (finishTask under runTask, the dbReader under an evaluation) is an  *)
(* inner request.                                                          *)
(*                                                                         *)
(* Each action is one critical section of Pool.mu, or one thing a request, *)
(* a redial goroutine or a cancel watcher does between two of them.  A     *)
(* connection id names a backend: it is used again only when the backend   *)
(* is gone and no cancel is on its way to it.                              *)
(***************************************************************************)
EXTENDS Integers, Sequences, FiniteSets

CONSTANTS
  Req,          \* requests for a connection
  Outer,        \* for an inner request, the one that holds a connection meanwhile
  Conn,         \* connections
  None, Nil,    \* no connection; the nil (or close) a waiter's channel can deliver
  Size,         \* Pool.size
  Faults,       \* the faults of this model: "break", "dirty", "dial", "ctx"
  MaxFaults     \* bound: how many faults happen

ASSUME PoolAssumption ==
  /\ None # Nil /\ {None, Nil} \cap (Conn \cup Req) = {}
  /\ DOMAIN Outer \subseteq Req /\ \A r \in DOMAIN Outer : Outer[r] \in Req \ {r}
  /\ Size \in Nat \ {0} /\ IsFiniteSet(Req)
  /\ Faults \subseteq {"break", "dirty", "dial", "ctx"} /\ MaxFaults \in Nat

VARIABLES
  idle, numOpen, waiters, closed,   \* the fields of Pool
  pc,       \* how far each request has got
  conn,     \* the connection it holds
  chan,     \* what is in its waiter channel (capacity 1)
  redial,   \* requests a goroutine of wakeWaiterLocked dials for
  life,     \* each connection: "gone", "clean", "dirty" (mid-transaction), "dead"
  tainted,  \* Conn.cancelTainted
  firing,   \* watchers that have seen their context end and not yet fired
  cancels,  \* CancelRequests on their way to a backend, with who asked
  late,     \* history: who fired at a backend after giving its connection back
  faults    \* faults so far

pool == <<idle, numOpen, waiters, closed>>
wire == <<life, tainted, firing, cancels, late>>
vars == <<pool, pc, conn, chan, redial, wire, faults>>

Fault(kind) == kind \in Faults /\ faults < MaxFaults /\ faults' = faults + 1

Goto(r, s) == pc' = [pc EXCEPT ![r] = s]

Fresh(c) == /\ life[c] = "gone"
            /\ \A r \in Req : <<r, c>> \notin firing \cup cancels

\* Connect: a new backend, idle, with no cancel fired at it.
Connect(c) == /\ Fresh(c)
              /\ life' = [life EXCEPT ![c] = "clean"]
              /\ tainted' = tainted \ {c}
              /\ late' = late \ (Req \X {c})
              /\ UNCHANGED <<firing, cancels>>

---------------------------------------------------------------------------
(* Acquire.                                                                *)

MayAcquire(r) == pc[r] = "new" /\ (r \in DOMAIN Outer => pc[Outer[r]] = "held")

\* The last idle connection that is fit for use; those above it are destroyed.
Fit == {i \in DOMAIN idle : life[idle[i]] = "clean"}
LastFit == {i \in Fit : \A j \in Fit : j <= i}
Top == IF LastFit = {} THEN 0 ELSE CHOOSE i \in LastFit : TRUE
Destroyed == {idle[i] : i \in (Top + 1)..Len(idle)}
Unfit == Len(idle) - Top

AcquireClosed(r) ==
  /\ MayAcquire(r) /\ closed
  /\ Goto(r, "done")
  /\ UNCHANGED <<pool, conn, chan, redial, wire, faults>>

AcquireIdle(r) ==
  /\ MayAcquire(r) /\ ~closed /\ Top > 0
  /\ conn' = [conn EXCEPT ![r] = idle[Top]]
  /\ idle' = SubSeq(idle, 1, Top - 1)
  /\ numOpen' = numOpen - Unfit
  /\ life' = [c \in Conn |-> IF c \in Destroyed THEN "gone" ELSE life[c]]
  /\ Goto(r, "held")
  /\ UNCHANGED <<waiters, closed, chan, redial, tainted, firing, cancels, late, faults>>

\* No idle connection: reserve a slot and dial, or queue at capacity.
AcquireNew(r) ==
  /\ MayAcquire(r) /\ ~closed /\ Top = 0
  /\ idle' = <<>>
  /\ life' = [c \in Conn |-> IF c \in Destroyed THEN "gone" ELSE life[c]]
  /\ IF numOpen - Unfit < Size
     THEN numOpen' = numOpen - Unfit + 1 /\ Goto(r, "dialing") /\ UNCHANGED waiters
     ELSE numOpen' = numOpen - Unfit /\ Goto(r, "waiting") /\ waiters' = Append(waiters, r)
  /\ UNCHANGED <<closed, conn, chan, redial, tainted, firing, cancels, late, faults>>

DialOk(r, c) ==
  /\ pc[r] = "dialing"
  /\ Connect(c)
  /\ conn' = [conn EXCEPT ![r] = c]
  /\ Goto(r, "held")
  /\ UNCHANGED <<pool, chan, redial, faults>>

\* The slot is given back, and nobody is told.
DialFails(r) ==
  /\ pc[r] = "dialing"
  /\ Fault("dial")
  /\ numOpen' = numOpen - 1
  /\ Goto(r, "done")
  /\ UNCHANGED <<idle, waiters, closed, conn, chan, redial, wire>>

\* The waiter's channel delivers: nil is an error, a connection that is no longer
\* fit sends the request to the back of the queue.
Receive(r) ==
  /\ pc[r] = "waiting" /\ chan[r] # None
  /\ chan' = [chan EXCEPT ![r] = None]
  /\ IF chan[r] = Nil
     THEN Goto(r, "done") /\ UNCHANGED <<conn, numOpen, life>>
     ELSE IF life[chan[r]] = "clean"
     THEN /\ Goto(r, "held") /\ conn' = [conn EXCEPT ![r] = chan[r]]
          /\ UNCHANGED <<numOpen, life>>
     ELSE /\ Goto(r, "new") /\ life' = [life EXCEPT ![chan[r]] = "gone"]
          /\ numOpen' = numOpen - 1 /\ UNCHANGED conn
  /\ UNCHANGED <<idle, waiters, closed, redial, tainted, firing, cancels, late, faults>>

---------------------------------------------------------------------------
(* Release and the waiter it wakes.                                        *)

PooledTainted(c) == life[c] = "clean"   \* mutant: without the CancelTainted test
Poolable(c) == life[c] = "clean" /\ c \notin tainted

\* A poisoned connection is destroyed and its slot kept for the first waiter, for
\* whom a goroutine dials; ch is the state of the channels.
Destroy(c, ch) ==
  /\ life' = [life EXCEPT ![c] = "gone"]
  /\ chan' = ch
  /\ IF closed \/ waiters = <<>>
     THEN numOpen' = numOpen - 1 /\ UNCHANGED <<waiters, redial>>
     ELSE /\ waiters' = Tail(waiters)
          /\ redial' = redial \cup {Head(waiters)}
          /\ UNCHANGED numOpen
  /\ UNCHANGED idle

\* A clean connection goes to the first waiter, or into the idle set.
HandOverIdle(c, ch) ==   \* mutant: without the test for waiters
  /\ idle' = Append(idle, c) /\ chan' = ch
  /\ UNCHANGED <<waiters, numOpen, redial, life>>
HandOver(c, ch) ==
  /\ IF waiters = <<>>
     THEN idle' = Append(idle, c) /\ chan' = ch /\ UNCHANGED waiters
     ELSE /\ chan' = [ch EXCEPT ![Head(waiters)] = c]
          /\ waiters' = Tail(waiters)
          /\ UNCHANGED idle
  /\ UNCHANGED <<numOpen, redial, life>>

Return(c, ch) == IF ~closed /\ Poolable(c) THEN HandOver(c, ch) ELSE Destroy(c, ch)

\* A request ends its inner request first. It does not wait for the watcher of its
\* statement, which stop() only tells that the statement is over.
MayRelease(r) ==
  /\ pc[r] = "held"
  /\ \A q \in DOMAIN Outer : Outer[q] = r => pc[q] \in {"new", "done"}

Release(r) ==
  /\ MayRelease(r)
  /\ Return(conn[r], chan)
  /\ conn' = [conn EXCEPT ![r] = None]
  /\ Goto(r, "done")
  /\ UNCHANGED <<closed, tainted, firing, cancels, late, faults>>

RedialOk(r, c) ==
  /\ r \in redial
  /\ Connect(c)
  /\ chan' = [chan EXCEPT ![r] = c]
  /\ redial' = redial \ {r}
  /\ UNCHANGED <<pool, pc, conn, faults>>

RedialFailsKept(r) ==   \* mutant: the slot reserved for the waiter is not given back
  /\ r \in redial
  /\ Fault("dial")
  /\ chan' = [chan EXCEPT ![r] = Nil]
  /\ redial' = redial \ {r}
  /\ UNCHANGED <<idle, numOpen, waiters, closed, pc, conn, wire>>
RedialFails(r) ==
  /\ r \in redial
  /\ Fault("dial")
  /\ numOpen' = numOpen - 1
  /\ chan' = [chan EXCEPT ![r] = Nil]
  /\ redial' = redial \ {r}
  /\ UNCHANGED <<idle, waiters, closed, pc, conn, wire>>

---------------------------------------------------------------------------
(* A context that ends: while waiting, or while a statement runs.          *)

GiveUp(r) ==
  /\ pc[r] = "waiting"
  /\ Fault("ctx")
  /\ Goto(r, "leaving")
  /\ UNCHANGED <<pool, conn, chan, redial, wire>>

Leave(r) ==
  /\ pc[r] = "leaving"
  /\ waiters' = IF \E i \in DOMAIN waiters : waiters[i] = r
                THEN LET i == CHOOSE i \in DOMAIN waiters : waiters[i] = r
                     IN  SubSeq(waiters, 1, i - 1) \o SubSeq(waiters, i + 1, Len(waiters))
                ELSE waiters
  /\ Goto(r, "draining")
  /\ UNCHANGED <<idle, numOpen, closed, conn, chan, redial, wire, faults>>

\* A connection handed over meanwhile is put back.
Drain(r) ==
  /\ pc[r] = "draining"
  /\ Goto(r, "done")
  /\ IF chan[r] \in Conn
     THEN Return(chan[r], [chan EXCEPT ![r] = None])
     ELSE chan' = [chan EXCEPT ![r] = None] /\ UNCHANGED <<idle, numOpen, waiters, redial, life>>
  /\ UNCHANGED <<closed, conn, tainted, firing, cancels, late, faults>>

\* armCancel: the watcher of a statement sees the context end, then marks the
\* connection and sends the CancelRequest, whoever holds the connection by then.
Expire(r) ==
  /\ pc[r] = "held"
  /\ Fault("ctx")
  /\ firing' = firing \cup {<<r, conn[r]>>}
  /\ UNCHANGED <<pool, pc, conn, chan, redial, life, tainted, cancels, late>>

SendCancelRequest(r, c) ==
  /\ <<r, c>> \in firing
  /\ firing' = firing \ {<<r, c>>}
  /\ tainted' = tainted \cup {c}
  /\ cancels' = cancels \cup {<<r, c>>}
  /\ late' = IF conn[r] = c THEN late ELSE late \cup {<<r, c>>}
  /\ UNCHANGED <<pool, pc, conn, chan, redial, life, faults>>

\* The backend gets the CancelRequest: whatever it runs by then is interrupted.
CancelLands(r, c) ==
  /\ <<r, c>> \in cancels
  /\ cancels' = cancels \ {<<r, c>>}
  /\ UNCHANGED <<pool, pc, conn, chan, redial, life, tainted, firing, late, faults>>

\* What a request does to its connection: a socket error or a protocol desync
\* kills it, a transaction may be left open.
Break(r) ==
  /\ pc[r] = "held"
  /\ \/ Fault("break") /\ life' = [life EXCEPT ![conn[r]] = "dead"]
     \/ /\ life[conn[r]] = "clean"
        /\ Fault("dirty") /\ life' = [life EXCEPT ![conn[r]] = "dirty"]
  /\ UNCHANGED <<pool, pc, conn, chan, redial, tainted, firing, cancels, late>>

\* Close destroys what is idle and closes the channels of the queued waiters; it
\* leaves numOpen alone.
Close ==
  /\ ~closed
  /\ closed' = TRUE
  /\ life' = [c \in Conn |-> IF \E i \in DOMAIN idle : idle[i] = c THEN "gone" ELSE life[c]]
  /\ idle' = <<>>
  /\ chan' = [r \in Req |-> IF \E i \in DOMAIN waiters : waiters[i] = r THEN Nil ELSE chan[r]]
  /\ waiters' = <<>>
  /\ UNCHANGED <<numOpen, pc, conn, redial, tainted, firing, cancels, late, faults>>

Init ==
  /\ idle = <<>> /\ numOpen = 0 /\ waiters = <<>> /\ closed = FALSE
  /\ pc = [r \in Req |-> "new"]
  /\ conn = [r \in Req |-> None]
  /\ chan = [r \in Req |-> None]
  /\ redial = {}
  /\ life = [c \in Conn |-> "gone"]
  /\ tainted = {} /\ firing = {} /\ cancels = {} /\ late = {}
  /\ faults = 0

Dial(r) == (\E c \in Conn : DialOk(r, c) \/ RedialOk(r, c)) \/ DialFails(r) \/ RedialFails(r)
Cancel(r) == \E c \in Conn : SendCancelRequest(r, c) \/ CancelLands(r, c)

Next ==
  \/ \E r \in Req :
       \/ AcquireClosed(r) \/ AcquireIdle(r) \/ AcquireNew(r) \/ Receive(r)
       \/ Dial(r) \/ Release(r) \/ GiveUp(r) \/ Leave(r) \/ Drain(r)
       \/ Expire(r) \/ Break(r) \/ Cancel(r)
  \/ Close

\* Every goroutine that can run runs: a handler returns and releases, a dial
\* answers, a delivered channel is read.  Nothing obliges requests to come.
Fairness ==
  \A r \in Req : /\ WF_vars(Dial(r)) /\ WF_vars(Release(r)) /\ WF_vars(Receive(r))
                 /\ WF_vars(Leave(r)) /\ WF_vars(Drain(r)) /\ WF_vars(Cancel(r))

Spec == Init /\ [][Next]_vars
FairSpec == Spec /\ Fairness

---------------------------------------------------------------------------
PC == {"new", "dialing", "waiting", "leaving", "draining", "held", "done"}

TypeOK ==
  /\ idle \in Seq(Conn) /\ waiters \in Seq(Req)
  /\ numOpen \in Nat /\ closed \in BOOLEAN
  /\ pc \in [Req -> PC]
  /\ conn \in [Req -> Conn \cup {None}]
  /\ \A r \in Req : pc[r] = "held" <=> conn[r] # None
  /\ chan \in [Req -> Conn \cup {None, Nil}]
  /\ redial \subseteq Req
  /\ life \in [Conn -> {"gone", "clean", "dirty", "dead"}]
  /\ tainted \subseteq Conn
  /\ firing \subseteq Req \X Conn /\ cancels \subseteq Req \X Conn
  /\ late \subseteq Req \X Conn
  /\ faults \in Nat

Places(c) == {<<"idle", i>> : i \in {i \in DOMAIN idle : idle[i] = c}}
         \cup {<<"chan", r>> : r \in {r \in Req : chan[r] = c}}
         \cup {<<"held", r>> : r \in {r \in Req : conn[r] = c}}

Dialing == {r \in Req : pc[r] = "dialing"}

(* numOpen is decremented and incremented in eight places, partly by       *)
(* goroutines that run after the request they serve has gone: it always    *)
(* counts exactly the connections and the dials there are, never above the *)
(* size, so the pool neither exceeds nor forgets capacity on its own books *)
(* (Close does not count what it destroys).  And what it counts has one    *)
(* owner: a connection is idle once, or on its way to one waiter, or held  *)
(* by one request; what is pooled or handed over is fit for use, unless a  *)
(* watcher marked it after it had been given back.                         *)
SlotsAccounted ==
  /\ numOpen <= Size
  /\ ~closed => numOpen = Cardinality({c \in Conn : Places(c) # {}})
                            + Cardinality(Dialing) + Cardinality(redial)
  /\ \A c \in Conn :
       /\ \A p, q \in Places(c) : p = q
       /\ Places(c) # {} => life[c] # "gone"
       /\ \A p \in Places(c) : p[1] # "held" => Poolable(c) \/ \E w \in late : w[2] = c

(* "the conn is destroyed, never reused" (Release) is true of the cancels  *)
(* that are fired in time: as long as its CancelRequest is on the way, the *)
(* backend is in nobody's hands but the request's that asked, whatever     *)
(* became of that request, of the pool and of the requests in the queue.   *)
(* A watcher that fires after its own request gave the connection back is  *)
(* the exception, and the only one: its cancel may meet an idle backend,   *)
(* one handed to a waiter, or the statement of an innocent request.        *)
OnlyLateCancelsStray ==
  \A w \in cancels \ late : \A p \in Places(w[2]) : p = <<"held", w[1]>>

(* A slot is lost for good: a connection lies in the channel of a request  *)
(* that has left.  Acquire's ctx branch looks into the channel once, while *)
(* a goroutine still dials for this waiter.                                *)
Stranded == \E r \in Req : chan[r] \in Conn /\ pc[r] = "done"

(* A slot is free and requests wait for one all the same.                  *)
Forgotten == ~closed /\ waiters # <<>> /\ numOpen < Size

(* Every connection is held by a request that waits for a second one.      *)
HoldAndWait ==
  LET H == {r \in Req : pc[r] = "held"}
  IN  /\ H # {} /\ Cardinality(H) = numOpen
      /\ \A r \in H : \E q \in DOMAIN Outer : Outer[q] = r /\ pc[q] = "waiting"

(* A request that waits is served, refused or gives up, unless the pool is *)
(* in one of three states: a slot stranded, a free slot forgotten, or      *)
(* every holder waiting itself.  There is no fourth way to starve.         *)
WaitersServed ==
  \A r \in Req : pc[r] = "waiting" ~> pc[r] # "waiting" \/ Stranded \/ Forgotten \/ HoldAndWait
=============================================================================
