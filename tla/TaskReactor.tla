---------------------------- MODULE TaskReactor ----------------------------
(***************************************************************************)
(* The reactor of internal/kernel over the continuation store: every       *)
(* kernel drains resume tasks one batch at a time, and the reaper gives    *)
(* back the tasks whose lease ran out.                                     *)
(*                                                                         *)
(* claimTasks leases a batch; runTask runs ClaimAndStep for one task in a  *)
(* transaction of its own and then writes the task row in ANOTHER          *)
(* statement (finishTask, or deadTask, which is three statements), so a    *)
(* kernel can stop between any two of them.  heartbeatOnce renews every    *)
(* task the kernel owns, the reaper takes a task whose lease lapsed, and   *)
(* a kernel that missed its heartbeats goes on working as a zombie.        *)
(***************************************************************************)
EXTENDS ContinuationStore

CONSTANTS
  Kernel,          \* kernel ids; a restarted process has a fresh id
  DrainBatch,      \* tasks one pass claims
  AttemptCeiling,  \* attempts after which a failing task is dead
  Faults,          \* the faults of this model: "error", "abandon", "crash", "lapse"
  MaxFaults        \* bound: how many faults happen

ASSUME ReactorAssumption ==
  /\ None \notin Kernel
  /\ Faults \subseteq {"error", "abandon", "crash", "lapse"}
  /\ DrainBatch \in Nat /\ AttemptCeiling \in Nat /\ MaxFaults \in Nat

VARIABLES
  up,       \* kernels that run
  batch,    \* tasks a drain pass has claimed and not yet run, with their attempts
  cur,      \* the task in hand and the next write to its row
  direct,   \* continuations a fenced restart is about to step itself
  faults    \* faults so far

reactorVars == <<up, batch, cur, direct, faults>>
vars == <<storeVars, reactorVars>>

Ref  == Cont \X (Nat \ {0})
Row(r) == tasks[r[1]][r[2]]
Refs == UNION {{<<c, i>> : i \in DOMAIN tasks[c]} : c \in Cont}

Idle == [pc |-> "idle", ref |-> None, verdict |-> "done"]
Finishing(r, v) == [pc |-> "finish", ref |-> r, verdict |-> v]

SetRow(r, s, o) == [tasks EXCEPT ![r[1]][r[2]].status = s, ![r[1]][r[2]].owner = o]

Fault(kind) == kind \in Faults /\ faults < MaxFaults /\ faults' = faults + 1

---------------------------------------------------------------------------
(* The drain loop of kernel k.                                             *)

AtMost(n, i) == IF i < n THEN i + 1 ELSE n

\* The attempt counter saturates at the ceiling.
Leased(t, k) == [seq |-> t.seq, status |-> "running", owner |-> k,
                 attempts |-> AtMost(AttemptCeiling, t.attempts)]

\* Lease a batch of ready tasks.
ClaimTasks(k, S) ==
  /\ k \in up /\ cur[k] = Idle /\ batch[k] = {}
  /\ S # {} /\ S \subseteq {r \in Refs : Row(r).status = "ready"}
  /\ Cardinality(S) <= DrainBatch
  /\ tasks' = [c \in Cont |-> [i \in DOMAIN tasks[c] |->
                 IF <<c, i>> \in S THEN Leased(tasks[c][i], k) ELSE tasks[c][i]]]
  /\ batch' = [batch EXCEPT ![k] = {[ref |-> r, attempts |-> AtMost(AttemptCeiling, Row(r).attempts)]
                                    : r \in S}]
  /\ UNCHANGED <<status, seq, frames, wake, parent, conds, sent, claimedBy, outbox,
                 history, up, cur, direct, faults>>

InHand(k, h) == k \in up /\ cur[k] = Idle /\ h \in batch[k]

Take(k, h, next) ==
  /\ batch' = [batch EXCEPT ![k] = @ \ {h}]
  /\ cur' = [cur EXCEPT ![k] = next]

\* What runTask does with a task whose step failed: it looks at the attempts its
\* own claim returned, whoever has claimed the row since.
FailingClosed(h) == Finishing(h.ref, "done")   \* mutant: a failed task is closed
Failing(h) == IF h.attempts >= AttemptCeiling
              THEN [pc |-> "dead", ref |-> h.ref, verdict |-> "dead"]
              ELSE Finishing(h.ref, "ready")

\* ClaimAndStep commits a step.
StepTask(k, h) ==
  /\ InHand(k, h)
  /\ ClaimWins(h.ref[1], Row(h.ref).seq)
  /\ LET c == h.ref[1]
     IN  \/ ParkOutcome(c, TRUE) \/ ParkChildren(c) \/ ParkCondition(c, TRUE)
         \/ ParkFailed(c) \/ ParkCapabilityRevoked(c)
  /\ Take(k, h, Finishing(h.ref, "done"))
  /\ UNCHANGED <<up, direct, faults>>

\* ClaimAndStep commits the failure of undecodable frames and returns the error.
StepUndecodable(k, h) ==
  /\ InHand(k, h)
  /\ ClaimWins(h.ref[1], Row(h.ref).seq)
  /\ RecordUndecodable(h.ref[1])
  /\ Take(k, h, Failing(h))
  /\ UNCHANGED <<up, direct, faults>>

\* The claim CAS finds no row: a clean loss, no error.
StepLost(k, h) ==
  /\ InHand(k, h)
  /\ ~ClaimWins(h.ref[1], Row(h.ref).seq)
  /\ Take(k, h, Finishing(h.ref, "done"))
  /\ UNCHANGED <<storeVars, up, direct, faults>>

\* The step rolls back: no resolved restart to deliver, or a transient error.
StepError(k, h) ==
  /\ InHand(k, h)
  /\ \/ /\ ClaimWins(h.ref[1], Row(h.ref).seq)
        /\ frames[h.ref[1]] = "signal" /\ Resolved(h.ref[1]) = {}
        /\ UNCHANGED faults
     \/ Fault("error")
  /\ Take(k, h, Failing(h))
  /\ UNCHANGED <<storeVars, up, direct>>

\* UPDATE task ... WHERE id: whoever owns the row by now.
FinishTask(k) ==
  /\ k \in up /\ cur[k].pc = "finish"
  /\ tasks' = SetRow(cur[k].ref, cur[k].verdict, None)
  /\ cur' = [cur EXCEPT ![k] = Idle]
  /\ UNCHANGED <<status, seq, frames, wake, parent, conds, sent, claimedBy, outbox,
                 history, up, batch, direct, faults>>

\* deadTask: the row, then the condition, then its abort restart.
MarkDead(k) ==
  /\ k \in up /\ cur[k].pc = "dead"
  /\ tasks' = SetRow(cur[k].ref, "dead", None)
  /\ cur' = [cur EXCEPT ![k].pc = "signal"]
  /\ UNCHANGED <<status, seq, frames, wake, parent, conds, sent, claimedBy, outbox,
                 history, up, batch, direct, faults>>

RecordStepFailed(k) ==
  /\ k \in up /\ cur[k].pc = "signal"
  /\ conds' = Signal(cur[k].ref[1], "step.failed", FALSE)
  /\ cur' = [cur EXCEPT ![k] = [pc |-> "offer", verdict |-> "dead",
                                ref |-> <<@.ref[1], Len(conds'[@.ref[1]])>>]]
  /\ UNCHANGED <<status, seq, frames, wake, parent, tasks, sent, claimedBy, outbox,
                 history, up, batch, direct, faults>>

OfferAbort(k) ==
  /\ k \in up /\ cur[k].pc = "offer"
  /\ conds' = [conds EXCEPT ![cur[k].ref[1]][cur[k].ref[2]].offered = TRUE]
  /\ cur' = [cur EXCEPT ![k] = Idle]
  /\ UNCHANGED <<status, seq, frames, wake, parent, tasks, sent, claimedBy, outbox,
                 history, up, batch, direct, faults>>

\* A pass returns an error (a lost connection): what it had claimed stays leased.
AbandonPass(k) ==
  /\ k \in up /\ (cur[k] # Idle \/ batch[k] # {})
  /\ Fault("abandon")
  /\ cur' = [cur EXCEPT ![k] = Idle]
  /\ batch' = [batch EXCEPT ![k] = {}]
  /\ UNCHANGED <<storeVars, up, direct>>

\* The process dies, or an epoch fence drains it for good.
Crash(k) ==
  /\ k \in up /\ Cardinality(up) > 1
  /\ Fault("crash")
  /\ up' = up \ {k}
  /\ cur' = [cur EXCEPT ![k] = Idle]
  /\ batch' = [batch EXCEPT ![k] = {}]
  /\ UNCHANGED <<storeVars, direct>>

\* The reaper gives a running task back once its lease lapsed: the owner's
\* heartbeats stopped with the owner, or (a fault) did not arrive in time.
Reap(r) ==
  /\ r \in Refs /\ Row(r).status = "running"
  /\ IF Row(r).owner \in up THEN Fault("lapse") ELSE UNCHANGED faults
  /\ tasks' = SetRow(r, "ready", None)
  /\ UNCHANGED <<status, seq, frames, wake, parent, conds, sent, claimedBy, outbox,
                 history, up, batch, cur, direct>>

---------------------------------------------------------------------------
(* The rest of the world.                                                  *)

Start(c) == StartWorkflow(c) /\ UNCHANGED reactorVars
ParkRequest(c) == Park(c) /\ UNCHANGED reactorVars
Send(m) == SendChannel(m) /\ UNCHANGED reactorVars
ScanTimers == TimerOnce /\ UNCHANGED reactorVars
Mutate(t) == WakeEvents(t) /\ UNCHANGED reactorVars

\* ResolveConditionFenced: resolve, then resume at once ...
ResolveCondition(c, x, choice) ==
  /\ PickRestart(c, x, choice)
  /\ direct' = direct \cup {c}
  /\ UNCHANGED <<up, batch, cur, faults>>

\* ... by a step of its own (ClaimAndResume).  It has no interpreter to build join
\* children with, and hands a receiver nothing.
ResumeDirect(c) ==
  /\ c \in direct
  /\ status[c] = "ready"
  /\ \/ ParkOutcome(c, FALSE) \/ ParkCondition(c, FALSE) \/ ParkFailed(c)
     \/ ParkCapabilityRevoked(c) \/ RecordUndecodable(c)
  /\ direct' = direct \ {c}
  /\ UNCHANGED <<up, batch, cur, faults>>

\* It loses the claim, fails, or its process dies.
ResumeDropped(c) ==
  /\ c \in direct
  /\ direct' = direct \ {c}
  /\ UNCHANGED <<storeVars, up, batch, cur, faults>>

Init ==
  /\ StoreInit
  /\ up = Kernel
  /\ batch = [k \in Kernel |-> {}]
  /\ cur = [k \in Kernel |-> Idle]
  /\ direct = {}
  /\ faults = 0

Drain(k) ==
  \/ \E S \in SUBSET {r \in Refs : Row(r).status = "ready"} : ClaimTasks(k, S)
  \/ \E h \in batch[k] : \/ StepTask(k, h) \/ StepUndecodable(k, h)
                         \/ StepLost(k, h) \/ StepError(k, h)
  \/ FinishTask(k) \/ MarkDead(k) \/ RecordStepFailed(k) \/ OfferAbort(k)

Operator == \E c \in Cont : \/ \E x \in DOMAIN conds[c], choice \in Choice :
                                 ResolveCondition(c, x, choice)
                            \/ ResumeDirect(c) \/ ResumeDropped(c)

Next ==
  \/ \E k \in Kernel : Drain(k) \/ AbandonPass(k) \/ Crash(k)
  \/ \E r \in Refs : Reap(r)
  \/ \E c \in Cont : Start(c) \/ ParkRequest(c)
  \/ \E m \in Msg : Send(m)
  \/ ScanTimers
  \/ \E t \in Topic : Mutate(t)
  \/ Operator

\* Every loop of a kernel ticks for ever (WF of its pass); the reaper runs on
\* every kernel.  Nothing obliges clients, operators or faults to act.
Fairness ==
  /\ \A k \in Kernel : WF_vars(Drain(k))
  /\ WF_vars(\E r \in Refs : Row(r).owner \notin up /\ Reap(r))
  /\ WF_vars(ScanTimers)

Spec == Init /\ [][Next]_vars
FairSpec == Spec /\ Fairness

---------------------------------------------------------------------------
Current == [pc : {"idle", "finish", "dead", "signal", "offer"}, ref : Ref \cup {None},
            verdict : {"done", "ready", "dead"}]
Held == [ref : Ref, attempts : Nat]

TypeOK ==
  /\ StoreTypeOK(Kernel \cup {None})
  /\ up \subseteq Kernel
  /\ batch \in [Kernel -> SUBSET Held]
  /\ cur \in [Kernel -> Current]
  /\ direct \subseteq Cont
  /\ faults \in Nat

\* Task i of c can still drive the step c is ready for: it is at the current
\* step_seq, and no kernel has decided to close it.
Drives(c, i) ==
  /\ tasks[c][i].seq = seq[c]
  /\ tasks[c][i].status # "done"
  /\ \A k \in Kernel : ~(cur[k].pc = "finish" /\ cur[k].ref = <<c, i>> /\
                         cur[k].verdict = "done")

---------------------------------------------------------------------------
(* No lost wake-up: a ready continuation always has a resume task at its   *)
(* current step_seq that is not closed and that no kernel is closing, over *)
(* every interleaving of claims, zombie finishes, crashes and reaps.  Only *)
(* the attempt ceiling may have retired it ('dead').                       *)
ReadyIsDriven == \A c \in Cont : status[c] = "ready" => \E i \in DOMAIN tasks[c] : Drives(c, i)

Holds(c, m) == frames[c] = "wake" /\ wake[c].kind = "message" /\ wake[c].msg = m

(* The pin and the claim of a message agree: whoever will be handed m is   *)
(* the receiver its row names, so no two receivers are handed one message  *)
(* (deliverToOldestReceiver and claimOldestMatchingMessage write both).    *)
PinnedIsClaimed == \A c \in Cont, m \in Msg : Holds(c, m) => claimedBy[m] = c

(* A message is consumed by at most one checkpointed step, whatever is     *)
(* retried, reaped, resumed directly or re-driven by a restart.            *)
ReceivedOnce == \A m \in Msg : receipts[m] <= 1

(* No message is lost on the way: a claimed message has been consumed by a *)
(* step or is still pinned to the receiver that will be handed it.         *)
ClaimedIsDelivered ==
  \A m \in Msg : claimedBy[m] # None => receipts[m] = 1 \/ Holds(claimedBy[m], m)

(* The two halves of the rendezvous, the send that looks for receivers and *)
(* the receive that looks for messages, never pass each other: a queued    *)
(* message and a sleeping receiver that accepts it do not coexist.         *)
NoMissedRendezvous ==
  \A m \in sent : claimedBy[m] = None => Receivers(m) = {}

(* Over every interleaving a message only moves on: sent once, claimed once *)
(* and for one receiver, which no restart, revival or second receive ever  *)
(* changes, and consumed at most once, by a checkpointed step after the    *)
(* transaction that claimed it (MessageChannel).  Of continuations that    *)
(* run code: a session's row is deleted together with its claims.          *)
Channel == INSTANCE MessageChannel WITH Receiver <- Cont
ImplementsChannel == Channel!Spec

DoneChildren(p) == {x \in wake[p].children : status[x] = "done"}
Joining(p) == wake[p].kind = "join" /\ wake[p].children # {}

(* The quorum is computed by each child as it finishes: no join parent     *)
(* still sleeps once enough of its children are done, whichever order they *)
(* finish in; and none is resumed early: joinResult is built from the      *)
(* results of children that are all done (all), or of a winner that is     *)
(* (race).                                                                 *)
JoinWakesAtQuorum ==
  \A p \in Cont : Joining(p) =>
     /\ status[p] = "sleeping" => Cardinality(DoneChildren(p)) < Quorum(wake[p])
     /\ status[p] = "ready" => IF wake[p].race THEN wake[p].winner \in DoneChildren(p)
                                               ELSE DoneChildren(p) = wake[p].children

(* Once a race has its winner its other children do no more work, whoever  *)
(* holds tasks for them: settleJoinParent cancels them and the claim takes *)
(* no cancelled row.  A child that had signalled is not cancelled, so it   *)
(* alone may go on when its condition is answered.                         *)
LosersStop ==
  [][\A p \in Cont : wake[p].winner # None =>
       \A x \in wake[p].children : seq'[x] # seq[x] => conds[x] # <<>>]_vars

(* A continuation that is done or cancelled is never resumed, as long as   *)
(* no dead task has left it a condition: PickRestart sets a row ready      *)
(* whatever its status, so an answer to a late step.failed revives one.    *)
TerminalStays ==
  [][\A c \in Cont : status[c] \in {"done", "cancelled"} => status'[c] = status[c]]_vars

(* An operator can act on c: a condition of it is open with a restart.     *)
Answerable(c) == \E x \in DOMAIN conds[c] : conds[c][x].status = "open" /\ conds[c][x].offered

Holding(k) == {h.ref : h \in batch[k]} \cup {cur[k].ref}

Open(c) == {i \in DOMAIN tasks[c] : /\ tasks[c][i].seq = seq[c]
                                    /\ tasks[c][i].status \in {"ready", "running"}}

\* The two ways a step is given up in silence: each task still open was left
\* leased by a pass that lost its connection, so that the heartbeat of its live
\* kernel keeps the reaper away; or none is open and nobody is in deadTask.
GivenUp(c) ==
  /\ \E i \in DOMAIN tasks[c] : tasks[c][i].seq = seq[c] /\ tasks[c][i].status # "done"
  /\ \A i \in Open(c) : LET k == tasks[c][i].owner
                        IN  k \in up /\ <<c, i>> \notin Holding(k)
  /\ \A k \in up : cur[k].pc \in {"signal", "offer"} => cur[k].ref[1] # c

(* A ready continuation is eventually stepped, or its failure surfaces as  *)
(* a condition an operator can answer, or it was given up in one of the    *)
(* two ways above: there is no third way to stall.                         *)
ReadyIsStepped ==
  \A c \in Cont : status[c] = "ready" ~> status[c] # "ready" \/ Answerable(c) \/ GivenUp(c)

---------------------------------------------------------------------------
(* What the documents of the repository promise and the code does not do,  *)
(* refuted by a run (PROJECT.json, findings).                              *)

(* "no torn state, no double effect, no lost effect": every external       *)
(* effect a committed step performed is in the outbox.                     *)
NoLostEffect == \A e \in performed : <<e[1], e[2], "mail">> \in outbox
=============================================================================
