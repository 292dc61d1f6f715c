--------------------------- MODULE OutboxDispatch ---------------------------
(***************************************************************************)
(* The outbox dispatcher: dispatchOnce and deliverTask of                  *)
(* internal/kernel/reactor.go over the outbox of internal/cfr/dispatch.go, *)
(* pushing each recorded effect through the FileSink (a spool directory    *)
(* all kernels share) or the HTTPSink of internal/cfr/sink.go.             *)
(*                                                                         *)
(* deliverTask is a chain of separate database statements and sink calls   *)
(* with no transaction round them: load the intent, call the sink, mark    *)
(* the row, close the task.  Each is an action, so a kernel can crash, be  *)
(* reaped and go on as a zombie, or lose its connection between any two.   *)
(* The FileSink itself is two steps: it creates the file (O_EXCL), then    *)
(* writes it.  The leases are as in TaskReactor: heartbeatOnce renews      *)
(* every task of a live kernel, the reaper takes a task whose lease ran    *)
(* out, and the attempt counter saturates at the ceiling.                  *)
(***************************************************************************)
EXTENDS Integers, FiniteSets

CONSTANTS
  Intent,          \* the external effects: outbox rows
  Http,            \* those an HTTPSink requests; the others are spooled
  Kernel,          \* kernel ids; a restarted process has a fresh id
  None,            \* SQL NULL
  DrainBatch,      \* tasks one pass claims
  AttemptCeiling,  \* attempts after which a failing task is dead
  Faults,          \* the faults of this model: "sink", "abandon", "crash", "lapse"
  MaxFaults        \* bound: how many faults happen

ASSUME OutboxAssumption ==
  /\ Http \subseteq Intent
  /\ IsFiniteSet(Kernel) /\ None \notin Kernel
  /\ Faults \subseteq {"sink", "abandon", "crash", "lapse"}
  /\ DrainBatch \in Nat /\ AttemptCeiling \in Nat /\ MaxFaults \in Nat

VARIABLES
  recorded,   \* the rows of outbox
  delivered,  \* those with a delivered_at
  task,       \* the 'deliver' task of each row
  spool,      \* the file of each intent in the spool directory
  calls,      \* the requests for each intent that reached the HTTP peer
  up,         \* kernels that run
  batch,      \* tasks a dispatch pass has claimed and not yet delivered
  cur,        \* the task in hand and how far deliverTask has got
  faults      \* faults so far

vars == <<recorded, delivered, task, spool, calls, up, batch, cur, faults>>

Owner     == Kernel \cup {None}
TaskState == {"absent", "ready", "running", "done", "dead"}
Held      == [intent : Intent, attempts : Nat]
Step      == {"idle", "load", "sink", "write", "mark", "finish"}
Current   == [pc : Step, hold : Held \cup {None}, verdict : {"done", "ready", "dead"}]

Idle == [pc |-> "idle", hold |-> None, verdict |-> "done"]

Fault(kind) == kind \in Faults /\ faults < MaxFaults /\ faults' = faults + 1

AtMost(n, i) == IF i < n THEN i + 1 ELSE n

SetTask(i, s) == [task EXCEPT ![i] = [status |-> s, attempts |-> @.attempts, owner |-> None]]

At(k, pc) == k \in up /\ cur[k].pc = pc
Hand(k)   == cur[k].hold.intent
Goto(k, pc) == cur' = [cur EXCEPT ![k].pc = pc]
Finish(k, v) == cur' = [cur EXCEPT ![k] = [pc |-> "finish", hold |-> @.hold, verdict |-> v]]

---------------------------------------------------------------------------
\* writeEffects: the outbox row and its deliver task, in the step's transaction.
RecordUntasked(i) ==   \* mutant: without its task
  /\ i \notin recorded
  /\ recorded' = recorded \cup {i}
  /\ UNCHANGED <<delivered, task, spool, calls, up, batch, cur, faults>>
Record(i) ==
  /\ i \notin recorded
  /\ recorded' = recorded \cup {i}
  /\ task' = [task EXCEPT ![i] = [status |-> "ready", attempts |-> 0, owner |-> None]]
  /\ UNCHANGED <<delivered, spool, calls, up, batch, cur, faults>>

\* Lease a batch of ready deliver tasks (SKIP LOCKED).
ClaimableLeased == {i \in Intent : task[i].status \in {"ready", "running"}}   \* mutant
Claimable == {i \in Intent : task[i].status = "ready"}

ClaimDeliverTasks(k, S) ==
  /\ k \in up /\ cur[k] = Idle /\ batch[k] = {}
  /\ S # {} /\ S \subseteq Claimable
  /\ Cardinality(S) <= DrainBatch
  /\ task' = [i \in Intent |->
                IF i \in S THEN [status |-> "running", owner |-> k,
                                 attempts |-> AtMost(AttemptCeiling, task[i].attempts)]
                           ELSE task[i]]
  /\ batch' = [batch EXCEPT ![k] = {[intent |-> i, attempts |-> task'[i].attempts] : i \in S}]
  /\ UNCHANGED <<recorded, delivered, spool, calls, up, cur, faults>>

TakeTask(k) ==
  /\ k \in up /\ cur[k] = Idle
  /\ \E h \in batch[k] :
       /\ batch' = [batch EXCEPT ![k] = @ \ {h}]
       /\ cur' = [cur EXCEPT ![k] = [pc |-> "load", hold |-> h, verdict |-> "done"]]
  /\ UNCHANGED <<recorded, delivered, task, spool, calls, up, faults>>

\* An intent already delivered only has its task closed.
MarkBeforeSink(k) ==   \* mutant: the row is marked before the sink is called
  /\ At(k, "load")
  /\ delivered' = delivered \cup {Hand(k)}
  /\ Goto(k, "sink")
  /\ UNCHANGED <<recorded, task, spool, calls, up, batch, faults>>
LoadIntent(k) ==
  /\ At(k, "load")
  /\ IF Hand(k) \in delivered THEN Finish(k, "done") ELSE Goto(k, "sink")
  /\ UNCHANGED <<recorded, delivered, task, spool, calls, up, batch, faults>>

\* FileSink: a file that is there already counts as delivered.
OpenSpool(k) ==
  /\ At(k, "sink") /\ Hand(k) \notin Http
  /\ IF spool[Hand(k)] = "none"
     THEN spool' = [spool EXCEPT ![Hand(k)] = "empty"] /\ Goto(k, "write")
     ELSE UNCHANGED spool /\ Goto(k, "mark")
  /\ UNCHANGED <<recorded, delivered, task, calls, up, batch, faults>>

WriteSpool(k) ==
  /\ At(k, "write")
  /\ spool' = [spool EXCEPT ![Hand(k)] = "whole"]
  /\ Goto(k, "mark")
  /\ UNCHANGED <<recorded, delivered, task, calls, up, batch, faults>>

\* HTTPSink: the peer answers.
CallHttp(k) ==
  /\ At(k, "sink") /\ Hand(k) \in Http
  /\ calls' = [calls EXCEPT ![Hand(k)] = @ + 1]
  /\ Goto(k, "mark")
  /\ UNCHANGED <<recorded, delivered, task, spool, up, batch, faults>>

\* The sink returns an error (an HTTP request may have reached the peer all the
\* same): the task is retried, or dead at the ceiling.
SinkDropped(k) ==   \* mutant: the failed task is closed
  /\ At(k, "sink") \/ At(k, "write")
  /\ Fault("sink")
  /\ Finish(k, "done")
  /\ UNCHANGED <<recorded, delivered, task, spool, calls, up, batch>>
SinkFails(k) ==
  /\ At(k, "sink") \/ At(k, "write")
  /\ Fault("sink")
  /\ \/ UNCHANGED calls
     \/ Hand(k) \in Http /\ calls' = [calls EXCEPT ![Hand(k)] = @ + 1]
  /\ Finish(k, IF cur[k].hold.attempts >= AttemptCeiling THEN "dead" ELSE "ready")
  /\ UNCHANGED <<recorded, delivered, task, spool, up, batch>>

\* UPDATE outbox ... WHERE delivered_at IS NULL: a second mark changes nothing.
MarkDelivered(k) ==
  /\ At(k, "mark")
  /\ delivered' = delivered \cup {Hand(k)}
  /\ Finish(k, "done")
  /\ UNCHANGED <<recorded, task, spool, calls, up, batch, faults>>

\* UPDATE task ... WHERE id: whoever owns the row by now.
FinishTask(k) ==
  /\ At(k, "finish")
  /\ task' = SetTask(Hand(k), cur[k].verdict)
  /\ cur' = [cur EXCEPT ![k] = Idle]
  /\ UNCHANGED <<recorded, delivered, spool, calls, up, batch, faults>>

\* A pass returns an error: what it had claimed stays leased.
AbandonPass(k) ==
  /\ k \in up /\ (cur[k] # Idle \/ batch[k] # {})
  /\ Fault("abandon")
  /\ cur' = [cur EXCEPT ![k] = Idle]
  /\ batch' = [batch EXCEPT ![k] = {}]
  /\ UNCHANGED <<recorded, delivered, task, spool, calls, up>>

Crash(k) ==
  /\ k \in up /\ Cardinality(up) > 1
  /\ Fault("crash")
  /\ up' = up \ {k}
  /\ cur' = [cur EXCEPT ![k] = Idle]
  /\ batch' = [batch EXCEPT ![k] = {}]
  /\ UNCHANGED <<recorded, delivered, task, spool, calls>>

\* The owner's heartbeats stopped with it or (a fault) did not arrive in time.
Reap(i) ==
  /\ task[i].status = "running"
  /\ IF task[i].owner \in up THEN Fault("lapse") ELSE UNCHANGED faults
  /\ task' = SetTask(i, "ready")
  /\ UNCHANGED <<recorded, delivered, spool, calls, up, batch, cur>>

Init ==
  /\ recorded = {} /\ delivered = {}
  /\ task = [i \in Intent |-> [status |-> "absent", attempts |-> 0, owner |-> None]]
  /\ spool = [i \in Intent |-> "none"]
  /\ calls = [i \in Intent |-> 0]
  /\ up = Kernel
  /\ batch = [k \in Kernel |-> {}]
  /\ cur = [k \in Kernel |-> Idle]
  /\ faults = 0

DispatchOnce(k) ==
  \/ \E S \in SUBSET Claimable : ClaimDeliverTasks(k, S)
  \/ TakeTask(k) \/ LoadIntent(k) \/ OpenSpool(k) \/ WriteSpool(k) \/ CallHttp(k)
  \/ MarkDelivered(k) \/ FinishTask(k)

Next ==
  \/ \E i \in Intent : Record(i) \/ Reap(i)
  \/ \E k \in Kernel : DispatchOnce(k) \/ SinkFails(k) \/ AbandonPass(k) \/ Crash(k)

\* The dispatch loop ticks for ever on every kernel, and so does the reaper.
Fairness ==
  /\ \A k \in Kernel : WF_vars(DispatchOnce(k))
  /\ WF_vars(\E i \in Intent : task[i].owner \notin up /\ Reap(i))

Spec == Init /\ [][Next]_vars
FairSpec == Spec /\ Fairness

---------------------------------------------------------------------------
TypeOK ==
  /\ recorded \subseteq Intent /\ delivered \subseteq Intent
  /\ task \in [Intent -> [status : TaskState, attempts : Nat, owner : Owner]]
  /\ spool \in [Intent -> {"none", "empty", "whole"}]
  /\ calls \in [Intent -> Nat]
  /\ up \subseteq Kernel
  /\ batch \in [Kernel -> SUBSET Held]
  /\ cur \in [Kernel -> Current]
  /\ \A k \in Kernel : cur[k].pc # "idle" => cur[k].hold \in Held
  /\ faults \in Nat

(* No recorded effect is dropped: a deliver task is closed only when its   *)
(* outbox row is marked, whichever kernel closes it (deliverTask's finish  *)
(* writes the row by id, owner or not).                                    *)
ClosedIsDelivered == \A i \in Intent : task[i].status = "done" => i \in delivered

(* Effectively once, over HTTP: every repetition of a request is paid for  *)
(* by a fault.  Dispatchers that run concurrently never repeat one.        *)
RepeatsArePaid == \A i \in Intent : calls[i] <= 1 + faults

\* As the code sees it: a file that exists is a delivery, were it empty.
Reached == {i \in recorded : spool[i] # "none" \/ calls[i] > 0}
Ledger == INSTANCE EffectivelyOnce WITH reached <- Reached

(* The dispatcher implements the promise of the outbox.                    *)
ImplementsLedger == Ledger!Spec

Holding(k) == {h.intent : h \in batch[k]} \cup (IF cur[k] = Idle THEN {} ELSE {Hand(k)})

\* A pass that failed has left the task of i leased: its live owner no longer
\* holds it, and the owner's heartbeat keeps the reaper away from it.
Abandoned(i) == /\ task[i].status = "running" /\ task[i].owner \in up
                /\ i \notin Holding(task[i].owner)

(* Every recorded effect is eventually delivered, through crashes, lapses  *)
(* and sink errors, unless its task reached the attempt ceiling ('dead')   *)
(* or belongs to a pass its kernel gave up on a lost connection.           *)
RecordedIsDelivered ==
  \A i \in Intent :
    i \in recorded ~> i \in delivered \/ task[i].status = "dead" \/ Abandoned(i)
=============================================================================
