---------------------------- MODULE OutboxProofs ----------------------------
(***************************************************************************)
(* Proofs about OutboxDispatch: type correctness, that no recorded effect  *)
(* is dropped, that no request is repeated unpaid, and that the dispatcher *)
(* implements EffectivelyOnce.                                             *)
(***************************************************************************)
EXTENDS OutboxDispatch, FiniteSetTheorems, TLAPS

TaskRow == [status : TaskState, attempts : Nat, owner : Owner]

\* What each kernel has in hand: the reason its next write is the right one.
HandOK(k) ==
  /\ \A h \in batch[k] : h.intent \in recorded
  /\ cur[k].pc # "idle" => Hand(k) \in recorded
  /\ cur[k].pc \in {"write", "mark"} => Hand(k) \in Reached
  /\ cur[k].pc = "finish" /\ cur[k].verdict = "done" => Hand(k) \in delivered

\* The world has seen only what a committed step recorded.
SeenOK == \A i \in Intent : spool[i] # "none" \/ calls[i] > 0 => i \in recorded

IInv ==
  /\ TypeOK
  /\ SeenOK
  /\ ClosedIsDelivered
  /\ \A i \in Intent : task[i].status # "absent" => i \in recorded
  /\ delivered \subseteq Reached
  /\ \A k \in Kernel : HandOK(k)

---------------------------------------------------------------------------
(* What the writes of a kernel leave in its hand and in the task rows.     *)

LEMMA GotoIs ==
  ASSUME TypeOK, NEW k \in Kernel, cur[k].pc # "idle", NEW pc \in Step, Goto(k, pc)
  PROVE  /\ cur' = [cur EXCEPT ![k] = [pc |-> pc, hold |-> cur[k].hold, verdict |-> cur[k].verdict]]
         /\ cur' \in [Kernel -> Current]
         /\ \A j \in Kernel : cur'[j].pc # "idle" => cur'[j].hold \in Held
<1>1. cur \in [Kernel -> Current] /\ cur[k].hold \in Held
  BY DEF TypeOK
<1>2. [cur[k] EXCEPT !.pc = pc] = [pc |-> pc, hold |-> cur[k].hold, verdict |-> cur[k].verdict]
  BY <1>1 DEF Current
<1>3. cur' = [cur EXCEPT ![k] = [cur[k] EXCEPT !.pc = pc]]
  BY DEF Goto
<1>4. [pc |-> pc, hold |-> cur[k].hold, verdict |-> cur[k].verdict] \in Current
  BY <1>1 DEF Current
<1> QED BY <1>1, <1>2, <1>3, <1>4 DEF TypeOK

LEMMA FinishIs ==
  ASSUME TypeOK, NEW k \in Kernel, cur[k].pc # "idle", NEW v \in {"done", "ready", "dead"},
         Finish(k, v)
  PROVE  /\ cur' = [cur EXCEPT ![k] = [pc |-> "finish", hold |-> cur[k].hold, verdict |-> v]]
         /\ cur' \in [Kernel -> Current]
         /\ \A j \in Kernel : cur'[j].pc # "idle" => cur'[j].hold \in Held
<1>1. cur \in [Kernel -> Current] /\ cur[k].hold \in Held
  BY DEF TypeOK
<1>2. cur' = [cur EXCEPT ![k] = [pc |-> "finish", hold |-> cur[k].hold, verdict |-> v]]
  BY DEF Finish
<1>3. [pc |-> "finish", hold |-> cur[k].hold, verdict |-> v] \in Current
  BY <1>1 DEF Current, Step
<1> QED BY <1>1, <1>2, <1>3 DEF TypeOK

LEMMA SetTaskIs ==
  ASSUME TypeOK, NEW i \in Intent, NEW s \in TaskState
  PROVE  /\ SetTask(i, s) \in [Intent -> TaskRow]
         /\ SetTask(i, s)[i].status = s
         /\ \A j \in Intent : j # i => SetTask(i, s)[j] = task[j]
<1>1. task \in [Intent -> TaskRow]
  BY DEF TypeOK, TaskRow
<1>2. SetTask(i, s) = [task EXCEPT ![i] = [status |-> s, attempts |-> task[i].attempts, owner |-> None]]
  BY DEF SetTask
<1>3. [status |-> s, attempts |-> task[i].attempts, owner |-> None] \in TaskRow
  BY <1>1 DEF TaskRow, Owner
<1> QED BY <1>1, <1>2, <1>3

LEMMA HandType ==
  ASSUME TypeOK, NEW k \in Kernel, cur[k].pc # "idle"
  PROVE  Hand(k) \in Intent /\ cur[k].hold \in Held /\ cur[k].hold.attempts \in Nat
BY DEF TypeOK, Hand, Held

LEMMA FaultType ==
  ASSUME TypeOK, NEW kind, Fault(kind) PROVE faults' \in Nat
BY DEF TypeOK, Fault

---------------------------------------------------------------------------
(* The steps of a pass that write neither the outbox nor a task row.       *)

\* The world only grows; kernel k alone moves, to c, and may lay down a batch task.
LEMMA PassInv ==
  ASSUME IInv, NEW k \in Kernel, UNCHANGED <<recorded, task, up>>,
         delivered \subseteq delivered', delivered' \subseteq Reached',
         Reached \subseteq Reached', delivered' \subseteq Intent,
         spool' \in [Intent -> {"none", "empty", "whole"}], calls' \in [Intent -> Nat],
         SeenOK', batch' \in [Kernel -> SUBSET Held], \A j \in Kernel : batch'[j] \subseteq batch[j],
         NEW c \in Current, cur' = [cur EXCEPT ![k] = c],
         c.pc # "idle" => c.hold \in Held /\ c.hold.intent \in recorded,
         c.pc \in {"write", "mark"} => c.hold.intent \in Reached',
         c.pc = "finish" /\ c.verdict = "done" => c.hold.intent \in delivered',
         faults' \in Nat
  PROVE  IInv'
<1>1. cur \in [Kernel -> Current]
  BY DEF IInv, TypeOK
<1>2. TypeOK'
  BY <1>1 DEF IInv, TypeOK
<1>3. ASSUME NEW j \in Kernel PROVE HandOK(j)'
  <2>1. HandOK(j)
    BY DEF IInv
  <2>2. CASE j = k
    BY <1>1, <2>1, <2>2 DEF HandOK, Hand
  <2>3. CASE j # k
    BY <1>1, <2>1, <2>3 DEF HandOK, Hand
  <2> QED BY <2>2, <2>3
<1>4. ClosedIsDelivered'
  BY DEF IInv, ClosedIsDelivered
<1>5. \A i \in Intent : task'[i].status # "absent" => i \in recorded'
  BY DEF IInv
<1> QED BY <1>2, <1>3, <1>4, <1>5 DEF IInv

LEMMA TakeTaskInv == ASSUME IInv, NEW k \in Kernel, TakeTask(k) PROVE IInv'
<1>1. PICK h \in batch[k] :
         /\ batch' = [batch EXCEPT ![k] = @ \ {h}]
         /\ cur' = [cur EXCEPT ![k] = [pc |-> "load", hold |-> h, verdict |-> "done"]]
  BY DEF TakeTask
<1>2. h \in Held /\ h.intent \in recorded
  BY DEF IInv, TypeOK, HandOK
<1> DEFINE c == [pc |-> "load", hold |-> h, verdict |-> "done"]
<1>3. c \in Current /\ c.pc = "load" /\ c.hold = h
  BY <1>2 DEF Current, Step
<1>4. batch' \in [Kernel -> SUBSET Held] /\ \A j \in Kernel : batch'[j] \subseteq batch[j]
  BY <1>1 DEF IInv, TypeOK
<1>5. UNCHANGED <<recorded, delivered, task, spool, calls, up, faults>>
  BY DEF TakeTask
<1>6. Reached' = Reached /\ SeenOK'
  BY <1>5 DEF Reached, IInv, SeenOK
<1>7. cur' = [cur EXCEPT ![k] = c]
  BY <1>1
<1> HIDE DEF c
<1> QED BY <1>2, <1>3, <1>4, <1>5, <1>6, <1>7, PassInv DEF IInv, TypeOK

LEMMA LoadIntentInv == ASSUME IInv, NEW k \in Kernel, LoadIntent(k) PROVE IInv'
<1>1. UNCHANGED <<recorded, delivered, task, spool, calls, up, batch, faults>>
  BY DEF LoadIntent
<1>2. Reached' = Reached /\ SeenOK'
  BY <1>1 DEF Reached, IInv, SeenOK
<1>3. cur[k].pc = "load" /\ cur[k].hold \in Held /\ Hand(k) \in recorded
  BY HandType DEF IInv, HandOK, LoadIntent, At
<1>4. cur[k].verdict \in {"done", "ready", "dead"}
  BY DEF IInv, TypeOK, Current
<1>5. CASE Hand(k) \in delivered
  <2> DEFINE c == [pc |-> "finish", hold |-> cur[k].hold, verdict |-> "done"]
  <2>1. c \in Current /\ c.pc = "finish" /\ c.hold.intent = Hand(k)
    BY <1>3 DEF Current, Step, Hand
  <2>2. cur' = [cur EXCEPT ![k] = c]
    BY <1>3, <1>5, FinishIs DEF LoadIntent, IInv
  <2>3. c.hold \in Held
    BY <1>3
  <2> HIDE DEF c
  <2> QED BY <1>1, <1>2, <1>3, <1>5, <2>1, <2>2, <2>3, PassInv DEF IInv, TypeOK
<1>6. CASE Hand(k) \notin delivered
  <2> DEFINE c == [pc |-> "sink", hold |-> cur[k].hold, verdict |-> cur[k].verdict]
  <2>1. c \in Current /\ c.pc = "sink" /\ c.hold.intent = Hand(k)
    BY <1>3, <1>4 DEF Current, Step, Hand
  <2>2. cur' = [cur EXCEPT ![k] = c]
    BY <1>3, <1>6, GotoIs DEF LoadIntent, IInv, Step
  <2>3. c.hold \in Held
    BY <1>3
  <2> HIDE DEF c
  <2> QED BY <1>1, <1>2, <1>3, <2>1, <2>2, <2>3, PassInv DEF IInv, TypeOK
<1> QED BY <1>5, <1>6

\* A sink that accepted the intent: the world has seen it.
LEMMA SinkInv ==
  ASSUME IInv, NEW k \in Kernel, OpenSpool(k) \/ WriteSpool(k) \/ CallHttp(k) PROVE IInv'
<1>1. cur[k].pc \in {"sink", "write"} /\ cur[k].hold \in Held /\ Hand(k) \in recorded
      /\ Hand(k) \in Intent
  BY HandType DEF IInv, HandOK, OpenSpool, WriteSpool, CallHttp, At
<1>2. cur[k].verdict \in {"done", "ready", "dead"}
  BY DEF IInv, TypeOK, Current
<1>3. UNCHANGED <<recorded, delivered, task, up, batch, faults>>
  BY DEF OpenSpool, WriteSpool, CallHttp
<1>4. spool' \in [Intent -> {"none", "empty", "whole"}] /\ calls' \in [Intent -> Nat]
  BY <1>1 DEF OpenSpool, WriteSpool, CallHttp, IInv, TypeOK
<1>5. Reached \subseteq Reached' /\ Hand(k) \in Reached'
  BY <1>1 DEF OpenSpool, WriteSpool, CallHttp, IInv, TypeOK, Reached
<1>5a. SeenOK'
  BY <1>1 DEF OpenSpool, WriteSpool, CallHttp, IInv, TypeOK, SeenOK
<1>6. PICK pc \in {"write", "mark"} : Goto(k, pc)
  BY DEF OpenSpool, WriteSpool, CallHttp
<1> DEFINE c == [pc |-> pc, hold |-> cur[k].hold, verdict |-> cur[k].verdict]
<1>7. c \in Current /\ c.pc \in {"write", "mark"} /\ c.hold.intent = Hand(k) /\ c.hold \in Held
  BY <1>1, <1>2 DEF Current, Step, Hand
<1>8. cur' = [cur EXCEPT ![k] = c]
  BY <1>1, <1>6, GotoIs DEF IInv, Step
<1>9. delivered' \subseteq Reached' /\ delivered' \subseteq Intent
  BY <1>3, <1>5 DEF IInv, TypeOK
<1> HIDE DEF c
<1> QED BY <1>1, <1>3, <1>4, <1>5, <1>5a, <1>7, <1>8, <1>9, PassInv DEF IInv, TypeOK

LEMMA SinkFailsInv == ASSUME IInv, NEW k \in Kernel, SinkFails(k) PROVE IInv'
<1>1. cur[k].pc \in {"sink", "write"} /\ cur[k].hold \in Held /\ Hand(k) \in recorded
      /\ Hand(k) \in Intent
  BY HandType DEF IInv, HandOK, SinkFails, At
<1>2. UNCHANGED <<recorded, delivered, task, spool, up, batch>> /\ faults' \in Nat
  BY FaultType DEF SinkFails, IInv
<1>3. calls' \in [Intent -> Nat]
  BY <1>1 DEF SinkFails, IInv, TypeOK
<1>4. Reached \subseteq Reached' /\ SeenOK'
  BY <1>1, <1>2 DEF SinkFails, IInv, TypeOK, Reached, SeenOK
<1>5. PICK v \in {"dead", "ready"} : Finish(k, v)
  BY DEF SinkFails
<1> DEFINE c == [pc |-> "finish", hold |-> cur[k].hold, verdict |-> v]
<1>6. c \in Current /\ c.pc = "finish" /\ c.verdict # "done" /\ c.hold.intent = Hand(k) /\ c.hold \in Held
  BY <1>1 DEF Current, Step, Hand
<1>7. cur' = [cur EXCEPT ![k] = c]
  BY <1>1, <1>5, FinishIs DEF IInv
<1>8. delivered' \subseteq Reached' /\ delivered' \subseteq Intent
  BY <1>2, <1>4 DEF IInv, TypeOK
<1> HIDE DEF c
<1> QED BY <1>1, <1>2, <1>3, <1>4, <1>6, <1>7, <1>8, PassInv DEF IInv, TypeOK

LEMMA MarkDeliveredInv == ASSUME IInv, NEW k \in Kernel, MarkDelivered(k) PROVE IInv'
<1>1. /\ cur[k].pc = "mark" /\ cur[k].hold \in Held /\ Hand(k) \in recorded
      /\ Hand(k) \in Intent /\ Hand(k) \in Reached
  BY HandType DEF IInv, HandOK, MarkDelivered, At
<1>2. /\ UNCHANGED <<recorded, task, spool, calls, up, batch, faults>>
      /\ delivered' = delivered \cup {Hand(k)}
  BY DEF MarkDelivered
<1>3. Reached' = Reached /\ SeenOK'
  BY <1>2 DEF Reached, IInv, SeenOK
<1> DEFINE c == [pc |-> "finish", hold |-> cur[k].hold, verdict |-> "done"]
<1>4. c \in Current /\ c.pc = "finish" /\ c.hold.intent = Hand(k) /\ c.hold \in Held
  BY <1>1 DEF Current, Step, Hand
<1>5. cur' = [cur EXCEPT ![k] = c]
  BY <1>1, FinishIs DEF IInv, MarkDelivered
<1>6. delivered' \subseteq Reached' /\ delivered' \subseteq Intent
  BY <1>1, <1>2, <1>3 DEF IInv, TypeOK
<1> HIDE DEF c
<1> QED BY <1>1, <1>2, <1>3, <1>4, <1>5, <1>6, PassInv DEF IInv, TypeOK

LEMMA StopInv == ASSUME IInv, NEW k \in Kernel, AbandonPass(k) \/ Crash(k) PROVE IInv'
<1>1. UNCHANGED <<recorded, delivered, task, spool, calls>> /\ faults' \in Nat /\ up' \subseteq Kernel
  BY FaultType DEF AbandonPass, Crash, IInv, TypeOK
<1>2. Reached' = Reached /\ SeenOK'
  BY <1>1 DEF Reached, IInv, SeenOK
<1>3. Idle \in Current /\ Idle.pc = "idle"
  BY DEF Idle, Current, Step
<1>4. /\ cur' = [cur EXCEPT ![k] = Idle]
      /\ batch' = [batch EXCEPT ![k] = {}]
  BY DEF AbandonPass, Crash
<1>5. TypeOK'
  BY <1>1, <1>3, <1>4 DEF IInv, TypeOK
<1>6. \A j \in Kernel : HandOK(j)'
  BY <1>1, <1>2, <1>3, <1>4 DEF IInv, TypeOK, HandOK, Hand
<1> QED BY <1>1, <1>2, <1>5, <1>6 DEF IInv, ClosedIsDelivered

---------------------------------------------------------------------------
(* The steps that write a task row.                                        *)

LEMMA RecordInv == ASSUME IInv, NEW i \in Intent, Record(i) PROVE IInv'
<1>1. recorded' = recorded \cup {i} /\ UNCHANGED <<delivered, spool, calls, up, batch, cur, faults>>
  BY DEF Record
<1>2. task' \in [Intent -> TaskRow] /\ \A j \in Intent : j # i => task'[j] = task[j]
  BY DEF Record, IInv, TypeOK, TaskRow, TaskState, Owner
<1>3. task'[i].status = "ready"
  BY DEF Record, IInv, TypeOK
<1>4. TypeOK'
  BY <1>1, <1>2 DEF IInv, TypeOK, TaskRow
<1>5. Reached \subseteq Reached' /\ SeenOK'
  BY <1>1 DEF Reached, IInv, SeenOK
<1>6. \A k \in Kernel : HandOK(k)'
  BY <1>1, <1>5 DEF IInv, HandOK, Hand
<1> QED BY <1>1, <1>2, <1>3, <1>4, <1>5, <1>6 DEF IInv, ClosedIsDelivered

LEMMA ClaimInv == ASSUME IInv, NEW k \in Kernel, NEW S, ClaimDeliverTasks(k, S) PROVE IInv'
<1>1. UNCHANGED <<recorded, delivered, spool, calls, up, cur, faults>>
  BY DEF ClaimDeliverTasks
<1>2. S \subseteq Intent /\ \A i \in S : task[i].status = "ready" /\ i \in recorded
  BY DEF ClaimDeliverTasks, Claimable, IInv
<1>3. \A i \in Intent : AtMost(AttemptCeiling, task[i].attempts) \in Nat
  BY OutboxAssumption DEF IInv, TypeOK, AtMost
<1>4. task' \in [Intent -> TaskRow]
  BY <1>3 DEF ClaimDeliverTasks, IInv, TypeOK, TaskRow, TaskState, Owner
<1>5. \A i \in Intent : IF i \in S THEN task'[i].status = "running" ELSE task'[i] = task[i]
  BY DEF ClaimDeliverTasks
<1> DEFINE B == {[intent |-> i, attempts |-> task'[i].attempts] : i \in S}
<1>6. B \subseteq Held
  BY <1>2, <1>4 DEF Held, TaskRow
<1>7. \A h \in B : h.intent \in recorded
  BY <1>2
<1>8. batch' = [batch EXCEPT ![k] = B]
  BY DEF ClaimDeliverTasks
<1> HIDE DEF B
<1>9. TypeOK'
  BY <1>1, <1>4, <1>6, <1>8 DEF IInv, TypeOK, TaskRow
<1>10. Reached' = Reached /\ SeenOK'
  BY <1>1 DEF Reached, IInv, SeenOK
<1>11. \A j \in Kernel : HandOK(j)'
  BY <1>1, <1>7, <1>8, <1>10 DEF IInv, TypeOK, HandOK, Hand
<1> QED BY <1>1, <1>2, <1>5, <1>9, <1>10, <1>11 DEF IInv, ClosedIsDelivered

\* A task row is written with status s; closed only if its intent is marked.
LEMMA SetTaskInv ==
  ASSUME IInv, NEW i \in Intent, i \in recorded, NEW s \in TaskState,
         s = "done" => i \in delivered,
         task' = SetTask(i, s), UNCHANGED <<recorded, delivered, spool, calls, up, batch>>,
         faults' \in Nat,
         \/ UNCHANGED cur
         \/ \E k \in Kernel : cur' = [cur EXCEPT ![k] = Idle]
  PROVE  IInv'
<1>1. task' \in [Intent -> TaskRow] /\ task'[i].status = s /\ \A j \in Intent : j # i => task'[j] = task[j]
  BY SetTaskIs DEF IInv
<1>2. Idle \in Current /\ Idle.pc = "idle"
  BY DEF Idle, Current, Step
<1>3. Reached' = Reached /\ SeenOK'
  BY DEF Reached, IInv, SeenOK
<1>4. TypeOK'
  BY <1>1, <1>2 DEF IInv, TypeOK, TaskRow
<1>5. \A k \in Kernel : HandOK(k)'
  BY <1>2, <1>3 DEF IInv, TypeOK, HandOK, Hand
<1> QED BY <1>1, <1>3, <1>4, <1>5 DEF IInv, ClosedIsDelivered

LEMMA FinishTaskInv == ASSUME IInv, NEW k \in Kernel, FinishTask(k) PROVE IInv'
<1>1. Hand(k) \in Intent /\ Hand(k) \in recorded /\ cur[k].verdict \in TaskState
  BY HandType DEF FinishTask, At, IInv, TypeOK, HandOK, Current, TaskState
<1>2. cur[k].verdict = "done" => Hand(k) \in delivered
  BY DEF FinishTask, At, IInv, HandOK
<1>3. faults' \in Nat
  BY DEF FinishTask, IInv, TypeOK
<1> QED BY <1>1, <1>2, <1>3, SetTaskInv DEF FinishTask

LEMMA ReapInv == ASSUME IInv, NEW i \in Intent, Reap(i) PROVE IInv'
<1>1. i \in recorded /\ faults' \in Nat
  BY FaultType DEF Reap, IInv, TypeOK
<1> QED BY <1>1, SetTaskInv DEF Reap, TaskState

LEMMA InitInv == ASSUME Init PROVE IInv
<1>1. TypeOK
  BY DEF Init, TypeOK, TaskState, Owner, Idle, Current, Step
<1> QED BY <1>1 DEF Init, IInv, ClosedIsDelivered, HandOK, Idle, Reached, SeenOK

LEMMA NextInv == ASSUME IInv, [Next]_vars PROVE IInv'
<1>1. ASSUME NEW k \in Kernel, DispatchOnce(k) PROVE IInv'
  BY <1>1, ClaimInv, TakeTaskInv, LoadIntentInv, SinkInv, MarkDeliveredInv, FinishTaskInv
     DEF DispatchOnce
<1>2. CASE UNCHANGED vars
  BY <1>2 DEF vars, IInv, TypeOK, ClosedIsDelivered, HandOK, Hand, Reached, SeenOK
<1> QED BY <1>1, <1>2, RecordInv, ReapInv, SinkFailsInv, StopInv DEF Next

---------------------------------------------------------------------------
(* The refinement.                                                         *)

\* A step that changes nothing the ledger sees.
LEMMA LedgerStutter ==
  ASSUME UNCHANGED <<recorded, delivered, spool, calls>>
  PROVE  UNCHANGED <<recorded, Reached, delivered>>
BY DEF Reached

LEMMA LedgerSink ==
  ASSUME IInv, NEW k \in Kernel,
         OpenSpool(k) \/ WriteSpool(k) \/ CallHttp(k) \/ SinkFails(k)
  PROVE  Ledger!Next \/ UNCHANGED <<recorded, Reached, delivered>>
<1>1. Hand(k) \in recorded /\ Hand(k) \in Intent
  BY HandType DEF IInv, HandOK, OpenSpool, WriteSpool, CallHttp, SinkFails, At
<1>2. UNCHANGED <<recorded, delivered>>
  BY DEF OpenSpool, WriteSpool, CallHttp, SinkFails
<1>3. Reached' = Reached \/ Reached' = Reached \cup {Hand(k)}
  BY <1>1, <1>2 DEF OpenSpool, WriteSpool, CallHttp, SinkFails, IInv, TypeOK, Reached
<1>4. CASE Hand(k) \in Reached
  BY <1>2, <1>3, <1>4
<1>5. CASE Hand(k) \notin Reached /\ Reached' = Reached \cup {Hand(k)}
  <2>1. Ledger!Reach(Hand(k))
    BY <1>1, <1>2, <1>5 DEF Ledger!Reach
  <2> QED BY <1>1, <2>1 DEF Ledger!Next
<1> QED BY <1>2, <1>3, <1>4, <1>5

LEMMA LedgerStep ==
  ASSUME IInv, [Next]_vars PROVE Ledger!Next \/ UNCHANGED <<recorded, Reached, delivered>>
<1>1. ASSUME NEW i \in Intent, Record(i) PROVE Ledger!Next
  <2>1. recorded' = recorded \cup {i} /\ i \notin recorded /\ UNCHANGED <<delivered, spool, calls>>
    BY <1>1 DEF Record
  <2>2. Reached' = Reached
    BY <2>1 DEF Reached, IInv, SeenOK
  <2>3. Ledger!Record(i)
    BY <2>1, <2>2 DEF Ledger!Record
  <2> QED BY <2>3 DEF Ledger!Next
<1>2. ASSUME NEW k \in Kernel, MarkDelivered(k)
      PROVE  Ledger!Next \/ UNCHANGED <<recorded, Reached, delivered>>
  <2>1. Hand(k) \in Reached /\ Hand(k) \in Intent
    BY <1>2, HandType DEF IInv, HandOK, MarkDelivered, At
  <2>2. Reached' = Reached /\ recorded' = recorded /\ delivered' = delivered \cup {Hand(k)}
    BY <1>2 DEF MarkDelivered, Reached
  <2>3. CASE Hand(k) \in delivered
    BY <2>2, <2>3
  <2>4. CASE Hand(k) \notin delivered
    BY <2>1, <2>2, <2>4 DEF Ledger!Mark, Ledger!Next
  <2> QED BY <2>3, <2>4
<1>3. ASSUME NEW k \in Kernel, DispatchOnce(k)
      PROVE  Ledger!Next \/ UNCHANGED <<recorded, Reached, delivered>>
  <2>1. ASSUME NEW S, ClaimDeliverTasks(k, S) PROVE UNCHANGED <<recorded, delivered, spool, calls>>
    BY <2>1 DEF ClaimDeliverTasks
  <2>2. ASSUME TakeTask(k) \/ LoadIntent(k) \/ FinishTask(k)
        PROVE  UNCHANGED <<recorded, delivered, spool, calls>>
    BY <2>2 DEF TakeTask, LoadIntent, FinishTask
  <2> QED BY <1>2, <1>3, <2>1, <2>2, LedgerSink, LedgerStutter DEF DispatchOnce
<1>4. ASSUME NEW i \in Intent, Reap(i) PROVE UNCHANGED <<recorded, Reached, delivered>>
  BY <1>4, LedgerStutter DEF Reap
<1>5. ASSUME NEW k \in Kernel, AbandonPass(k) \/ Crash(k)
      PROVE  UNCHANGED <<recorded, Reached, delivered>>
  BY <1>5, LedgerStutter DEF AbandonPass, Crash
<1>6. CASE UNCHANGED vars
  BY <1>6, LedgerStutter DEF vars
<1> QED BY <1>1, <1>3, <1>4, <1>5, <1>6, LedgerSink DEF Next

LEMMA LedgerInit == ASSUME Init PROVE Ledger!Init
BY DEF Init, Ledger!Init, Reached

---------------------------------------------------------------------------
(* Every repetition of a request is paid for.  A request of i that may yet *)
(* be sent is owed by its task row, by a kernel that waits with i in its   *)
(* batch, or by one that has i in hand and has not had an answer; what was *)
(* sent and what is owed never exceed one and the faults so far.           *)

Bit(b) == IF b THEN 1 ELSE 0

\* The row alone owes a request: a pass can lease it now or once it is reaped.
Free(i) == \/ task[i].status = "ready"
           \/ task[i].status = "running" /\ task[i].owner \notin up

Waits(k, i) == \E h \in batch[k] : h.intent = i

Calls(k, i) ==
  /\ \/ cur[k].pc \in {"load", "sink", "write"}
     \/ cur[k].pc = "finish" /\ cur[k].verdict = "ready"
  /\ Hand(k) = i

Waiting(i) == {k \in Kernel : Waits(k, i)}
Calling(i) == {k \in Kernel : Calls(k, i)}

PaidFor(i) ==
  calls[i] + Bit(Free(i)) + Cardinality(Waiting(i)) + Cardinality(Calling(i)) <= 1 + faults

\* A batch leases an intent once.
BatchOK(k) == \A g, h \in batch[k] : g.intent = h.intent => g = h

PaidInv ==
  /\ IInv
  /\ \A i \in Intent : PaidFor(i)
  /\ \A k \in Kernel : BatchOK(k)

LEMMA BitIs == \A b \in BOOLEAN : Bit(b) \in {0, 1}
BY DEF Bit

LEMMA Counts ==
  \A S : S \subseteq Kernel => IsFiniteSet(S) /\ Cardinality(S) \in Nat
BY OutboxAssumption, FS_Subset, FS_CardinalityType

\* Two sets of kernels that differ at k at most.
LEMMA KCount ==
  ASSUME NEW S, NEW T, S \subseteq Kernel, T \subseteq Kernel, NEW k \in Kernel,
         S \ {k} = T \ {k}
  PROVE  Cardinality(T) + Bit(k \in S) = Cardinality(S) + Bit(k \in T)
<1> DEFINE R == S \ {k}
<1>1. R \subseteq Kernel /\ k \notin R /\ IsFiniteSet(R) /\ Cardinality(R) \in Nat
  BY Counts
<1>2. Cardinality(R \cup {k}) = Cardinality(R) + 1
  BY <1>1, FS_AddElement
<1>3. Cardinality(S) = Cardinality(R) + Bit(k \in S)
  <2>1. CASE k \in S
    BY <1>2, <2>1 DEF Bit
  <2>2. CASE k \notin S
    <3>1. Cardinality(S) = Cardinality(R)
      BY <2>2
    <3>2. Bit(k \in S) = 0
      BY <2>2 DEF Bit
    <3> QED BY <1>1, <3>1, <3>2
  <2> QED BY <2>1, <2>2
<1>4. Cardinality(T) = Cardinality(R) + Bit(k \in T)
  <2>1. CASE k \in T
    <3>1. T = R \cup {k}
      BY <2>1
    <3> QED BY <1>2, <2>1, <3>1 DEF Bit
  <2>2. CASE k \notin T
    <3>1. T = R
      BY <2>2
    <3> QED BY <1>1, <2>2, <3>1 DEF Bit
  <2> QED BY <2>1, <2>2
<1>5. Bit(k \in S) \in Nat /\ Bit(k \in T) \in Nat
  BY DEF Bit
<1> HIDE DEF R
<1> QED BY <1>1, <1>3, <1>4, <1>5

\* Kernel k alone moves, and what it and the row owe is covered.
LEMMA OneKernelPays ==
  ASSUME PaidInv, TypeOK', NEW k \in Kernel, NEW i \in Intent,
         \A j \in Kernel : j # k => batch'[j] = batch[j] /\ cur'[j] = cur[j],
         calls'[i] + Bit(Free(i)') + Bit(Waits(k, i)') + Bit(Calls(k, i)') + faults
           <= calls[i] + Bit(Free(i)) + Bit(Waits(k, i)) + Bit(Calls(k, i)) + faults'
  PROVE  PaidFor(i)'
<1>1. \A j \in Kernel : j # k => Waits(j, i)' = Waits(j, i) /\ Calls(j, i)' = Calls(j, i)
  BY DEF Waits, Calls, Hand
<1>2. Waiting(i) \ {k} = Waiting(i)' \ {k} /\ Calling(i) \ {k} = Calling(i)' \ {k}
  BY <1>1 DEF Waiting, Calling
<1>3. /\ Waiting(i) \subseteq Kernel /\ Waiting(i)' \subseteq Kernel
      /\ Calling(i) \subseteq Kernel /\ Calling(i)' \subseteq Kernel
  BY DEF Waiting, Calling
<1>4. Cardinality(Waiting(i)') + Bit(k \in Waiting(i)) = Cardinality(Waiting(i)) + Bit(k \in Waiting(i)')
  BY <1>2, <1>3, KCount
<1>5. Cardinality(Calling(i)') + Bit(k \in Calling(i)) = Cardinality(Calling(i)) + Bit(k \in Calling(i)')
  BY <1>2, <1>3, KCount
<1>6. /\ Bit(k \in Waiting(i)) = Bit(Waits(k, i)) /\ Bit(k \in Waiting(i)') = Bit(Waits(k, i)')
      /\ Bit(k \in Calling(i)) = Bit(Calls(k, i)) /\ Bit(k \in Calling(i)') = Bit(Calls(k, i)')
  BY DEF Bit, Waiting, Calling
<1>7. /\ Cardinality(Waiting(i)) \in Nat /\ Cardinality(Waiting(i)') \in Nat
      /\ Cardinality(Calling(i)) \in Nat /\ Cardinality(Calling(i)') \in Nat
  BY <1>3, Counts
<1>8. /\ Bit(Waits(k, i)) \in Nat /\ Bit(Waits(k, i)') \in Nat
      /\ Bit(Calls(k, i)) \in Nat /\ Bit(Calls(k, i)') \in Nat
      /\ Bit(Free(i)) \in Nat /\ Bit(Free(i)') \in Nat
  BY DEF Bit
<1>9. calls[i] \in Nat /\ calls'[i] \in Nat /\ faults \in Nat /\ faults' \in Nat
  BY DEF PaidInv, IInv, TypeOK
<1>10. calls[i] + Bit(Free(i)) + Cardinality(Waiting(i)) + Cardinality(Calling(i)) <= 1 + faults
  BY DEF PaidInv, PaidFor
<1>11. calls'[i] + Bit(Free(i)') + Cardinality(Waiting(i)') + Cardinality(Calling(i)') <= 1 + faults'
  BY <1>4, <1>5, <1>6, <1>7, <1>8, <1>9, <1>10
<1> QED BY <1>11 DEF PaidFor

LEMMA BatchShrinks ==
  ASSUME PaidInv, \A k \in Kernel : batch'[k] \subseteq batch[k]
  PROVE  \A k \in Kernel : BatchOK(k)'
BY DEF PaidInv, BatchOK

LEMMA TakeTaskPaid == ASSUME PaidInv, NEW k \in Kernel, TakeTask(k) PROVE PaidInv'
<1>1. IInv'
  BY TakeTaskInv DEF PaidInv
<1>2. PICK h \in batch[k] :
         /\ batch' = [batch EXCEPT ![k] = @ \ {h}]
         /\ cur' = [cur EXCEPT ![k] = [pc |-> "load", hold |-> h, verdict |-> "done"]]
  BY DEF TakeTask
<1>3. cur[k] = Idle /\ UNCHANGED <<task, up, calls, faults>>
  BY DEF TakeTask
<1>4. batch \in [Kernel -> SUBSET Held] /\ cur \in [Kernel -> Current]
  BY DEF PaidInv, IInv, TypeOK
<1>5. ASSUME NEW i \in Intent PROVE PaidFor(i)'
  <2>1. Free(i)' = Free(i)
    BY <1>3 DEF Free
  <2>2. Calls(k, i) = FALSE
    BY <1>3 DEF Calls, Idle
  <2>3. Calls(k, i)' = (h.intent = i)
    BY <1>2, <1>4 DEF Calls, Hand
  <2>4. batch'[k] = batch[k] \ {h}
    BY <1>2, <1>4
  <2>5. /\ \A j \in Kernel : j # k => batch'[j] = batch[j] /\ cur'[j] = cur[j]
        /\ TypeOK' /\ calls[i] \in Nat /\ faults \in Nat
    BY <1>1, <1>2, <1>4 DEF PaidInv, IInv, TypeOK
  <2>6. Bit(Waits(k, i)') + Bit(Calls(k, i)') <= Bit(Waits(k, i)) + Bit(Calls(k, i))
    <3>1. CASE h.intent = i
      <4>1. Waits(k, i)
        BY <3>1 DEF Waits
      <4>2. ~Waits(k, i)'
        BY <2>4, <3>1 DEF Waits, PaidInv, BatchOK
      <4> QED BY <2>2, <2>3, <3>1, <4>1, <4>2 DEF Bit
    <3>2. CASE h.intent # i
      <4>1. Waits(k, i)' => Waits(k, i)
        BY <2>4 DEF Waits
      <4>2. ~Calls(k, i) /\ ~Calls(k, i)'
        BY <2>2, <2>3, <3>2
      <4>3. Bit(Calls(k, i)) = 0 /\ Bit(Calls(k, i)') = 0
        BY <4>2 DEF Bit
      <4>4. /\ Bit(Waits(k, i)') <= Bit(Waits(k, i))
            /\ Bit(Waits(k, i)') \in Nat /\ Bit(Waits(k, i)) \in Nat
        BY <4>1 DEF Bit
      <4> QED BY <4>3, <4>4
    <3> QED BY <3>1, <3>2
  <2>7. Bit(Free(i)) \in Nat /\ Bit(Waits(k, i)) \in Nat /\ Bit(Waits(k, i)') \in Nat
        /\ Bit(Calls(k, i)) \in Nat /\ Bit(Calls(k, i)') \in Nat
    BY DEF Bit
  <2>8. calls'[i] + Bit(Free(i)') + Bit(Waits(k, i)') + Bit(Calls(k, i)') + faults
          <= calls[i] + Bit(Free(i)) + Bit(Waits(k, i)) + Bit(Calls(k, i)) + faults'
    BY <1>3, <2>1, <2>5, <2>6, <2>7
  <2> QED BY <2>5, <2>8, OneKernelPays
<1>6. \A j \in Kernel : batch'[j] \subseteq batch[j]
  BY <1>2, <1>4
<1> QED BY <1>1, <1>5, <1>6, BatchShrinks DEF PaidInv

\* A kernel whose batch and rows stay, and that sends only what it had in hand.
LEMMA HandPays ==
  ASSUME PaidInv, IInv', NEW k \in Kernel, UNCHANGED <<task, up, batch>>,
         \A j \in Kernel : j # k => cur'[j] = cur[j],
         \A i \in Intent :
           calls'[i] + Bit(Calls(k, i)') + faults <= calls[i] + Bit(Calls(k, i)) + faults'
  PROVE  PaidInv'
<1>1. ASSUME NEW i \in Intent PROVE PaidFor(i)'
  <2>1. Free(i)' = Free(i) /\ Waits(k, i)' = Waits(k, i)
    BY DEF Free, Waits
  <2>2. calls[i] \in Nat /\ calls'[i] \in Nat /\ faults \in Nat /\ faults' \in Nat
    BY DEF PaidInv, IInv, TypeOK
  <2>3. Bit(Free(i)) \in Nat /\ Bit(Waits(k, i)) \in Nat /\ Bit(Calls(k, i)) \in Nat
        /\ Bit(Calls(k, i)') \in Nat
    BY DEF Bit
  <2>4. calls'[i] + Bit(Free(i)') + Bit(Waits(k, i)') + Bit(Calls(k, i)') + faults
          <= calls[i] + Bit(Free(i)) + Bit(Waits(k, i)) + Bit(Calls(k, i)) + faults'
    BY <2>1, <2>2, <2>3
  <2> QED BY <2>4, OneKernelPays DEF IInv
<1>2. \A j \in Kernel : BatchOK(j)'
  BY DEF PaidInv, BatchOK
<1> QED BY <1>1, <1>2 DEF PaidInv

\* Where kernel k stands with i, once it has moved on with the same task.
LEMMA MovedOn ==
  ASSUME IInv, NEW k \in Kernel, cur[k].pc # "idle", NEW pc \in Step,
         NEW v \in {"done", "ready", "dead"},
         cur' = [cur EXCEPT ![k] = [pc |-> pc, hold |-> cur[k].hold, verdict |-> v]]
  PROVE  /\ \A j \in Kernel : j # k => cur'[j] = cur[j]
         /\ \A i \in Intent :
              Calls(k, i)' <=> /\ \/ pc \in {"load", "sink", "write"}
                                  \/ pc = "finish" /\ v = "ready"
                               /\ Hand(k) = i
<1>1. cur \in [Kernel -> Current]
  BY DEF IInv, TypeOK
<1>2. cur'[k] = [pc |-> pc, hold |-> cur[k].hold, verdict |-> v]
  BY <1>1
<1>3. cur'[k].pc = pc /\ cur'[k].verdict = v /\ cur'[k].hold = cur[k].hold
  BY <1>2
<1>4. \A j \in Kernel : j # k => cur'[j] = cur[j]
  BY <1>1
<1>5. ASSUME NEW i \in Intent
      PROVE  Calls(k, i)' <=> /\ \/ pc \in {"load", "sink", "write"}
                                 \/ pc = "finish" /\ v = "ready"
                              /\ Hand(k) = i
  BY <1>3, Zenon DEF Calls, Hand
<1> QED BY <1>4, <1>5

LEMMA LoadIntentPaid == ASSUME PaidInv, NEW k \in Kernel, LoadIntent(k) PROVE PaidInv'
<1>1. IInv /\ IInv' /\ TypeOK
  BY LoadIntentInv DEF PaidInv, IInv
<1>2. cur[k].pc = "load" /\ UNCHANGED <<task, up, batch, calls, faults>>
  BY DEF LoadIntent, At
<1>3. cur[k].verdict \in {"done", "ready", "dead"}
  BY <1>1 DEF TypeOK, Current
<1>4. PICK pc \in {"sink", "finish"}, v \in {"done", "ready", "dead"} :
        /\ cur' = [cur EXCEPT ![k] = [pc |-> pc, hold |-> cur[k].hold, verdict |-> v]]
        /\ pc = "finish" => v = "done"
  <2>1. CASE Hand(k) \in delivered
    BY <1>1, <1>2, <2>1, FinishIs DEF LoadIntent
  <2>2. CASE Hand(k) \notin delivered
    BY <1>1, <1>2, <1>3, <2>2, GotoIs DEF LoadIntent, Step
  <2> QED BY <2>1, <2>2
<1>5. /\ \A j \in Kernel : j # k => cur'[j] = cur[j]
      /\ \A i \in Intent : Calls(k, i)' => Hand(k) = i
  BY <1>1, <1>2, <1>4, MovedOn DEF Step
<1>6. \A i \in Intent : Calls(k, i)' => Calls(k, i)
  BY <1>2, <1>5 DEF Calls
<1>7. \A i \in Intent :
        calls'[i] + Bit(Calls(k, i)') + faults <= calls[i] + Bit(Calls(k, i)) + faults'
  BY <1>1, <1>2, <1>6 DEF Bit, TypeOK
<1> QED BY <1>1, <1>2, <1>5, <1>7, HandPays

\* Once the sink has the intent, the kernel owes no request of it.
LEMMA SinkPaid ==
  ASSUME PaidInv, NEW k \in Kernel, OpenSpool(k) \/ WriteSpool(k) \/ CallHttp(k) PROVE PaidInv'
<1>1. IInv /\ IInv' /\ TypeOK
  BY SinkInv DEF PaidInv, IInv
<1>2. cur[k].pc \in {"sink", "write"} /\ UNCHANGED <<task, up, batch, faults>>
  BY DEF OpenSpool, WriteSpool, CallHttp, At
<1>3. cur[k].verdict \in {"done", "ready", "dead"}
  BY <1>1 DEF TypeOK, Current
<1>4. PICK pc \in {"write", "mark"} : Goto(k, pc) /\ (CallHttp(k) => pc = "mark")
  BY DEF OpenSpool, WriteSpool, CallHttp
<1>5. cur' = [cur EXCEPT ![k] = [pc |-> pc, hold |-> cur[k].hold, verdict |-> cur[k].verdict]]
  BY <1>1, <1>2, <1>4, GotoIs DEF Step
<1>6. /\ \A j \in Kernel : j # k => cur'[j] = cur[j]
      /\ \A i \in Intent : Calls(k, i)' => Hand(k) = i /\ pc = "write"
  BY <1>1, <1>2, <1>3, <1>5, MovedOn DEF Step
<1>7. \A i \in Intent : Calls(k, i)' => Calls(k, i)
  BY <1>2, <1>6 DEF Calls
<1>8. ASSUME NEW i \in Intent
      PROVE  calls'[i] + Bit(Calls(k, i)') + faults <= calls[i] + Bit(Calls(k, i)) + faults'
  <2>1. calls[i] \in Nat /\ faults \in Nat
    BY <1>1 DEF TypeOK
  <2>2. CASE calls'[i] = calls[i]
    BY <1>2, <1>7, <2>1, <2>2 DEF Bit
  <2>3. CASE CallHttp(k) /\ Hand(k) = i
    <3>1. calls'[i] = calls[i] + 1
      BY <1>1, <2>3 DEF CallHttp, TypeOK
    <3>2. Calls(k, i) /\ ~Calls(k, i)'
      BY <1>2, <1>4, <1>6, <2>3 DEF Calls
    <3> QED BY <1>2, <2>1, <3>1, <3>2 DEF Bit
  <2>4. calls'[i] = calls[i] \/ (CallHttp(k) /\ Hand(k) = i)
    BY <1>1 DEF OpenSpool, WriteSpool, CallHttp, TypeOK
  <2> QED BY <2>2, <2>3, <2>4
<1> QED BY <1>1, <1>2, <1>6, <1>8, HandPays

\* A request the peer may have seen all the same is paid for by the fault.
LEMMA SinkFailsPaid == ASSUME PaidInv, NEW k \in Kernel, SinkFails(k) PROVE PaidInv'
<1>1. IInv /\ IInv' /\ TypeOK
  BY SinkFailsInv DEF PaidInv, IInv
<1>2. cur[k].pc \in {"sink", "write"} /\ UNCHANGED <<task, up, batch>> /\ faults' = faults + 1
  BY DEF SinkFails, At, Fault
<1>3. PICK v \in {"dead", "ready"} : Finish(k, v)
  BY DEF SinkFails
<1>4. cur' = [cur EXCEPT ![k] = [pc |-> "finish", hold |-> cur[k].hold, verdict |-> v]]
  BY <1>1, <1>2, <1>3, FinishIs
<1>5. /\ \A j \in Kernel : j # k => cur'[j] = cur[j]
      /\ \A i \in Intent : Calls(k, i)' => Hand(k) = i
  BY <1>1, <1>2, <1>4, MovedOn DEF Step
<1>6. \A i \in Intent : Calls(k, i)' => Calls(k, i)
  BY <1>2, <1>5 DEF Calls
<1>7. ASSUME NEW i \in Intent
      PROVE  calls'[i] + Bit(Calls(k, i)') + faults <= calls[i] + Bit(Calls(k, i)) + faults'
  <2>1. calls[i] \in Nat /\ faults \in Nat
    BY <1>1 DEF TypeOK
  <2>2. calls'[i] = calls[i] \/ calls'[i] = calls[i] + 1
    BY <1>1 DEF SinkFails, TypeOK
  <2> QED BY <1>2, <1>6, <2>1, <2>2 DEF Bit
<1> QED BY <1>1, <1>2, <1>5, <1>7, HandPays

LEMMA MarkDeliveredPaid == ASSUME PaidInv, NEW k \in Kernel, MarkDelivered(k) PROVE PaidInv'
<1>1. IInv /\ IInv' /\ TypeOK
  BY MarkDeliveredInv DEF PaidInv, IInv
<1>2. cur[k].pc = "mark" /\ UNCHANGED <<task, up, batch, calls, faults>>
  BY DEF MarkDelivered, At
<1>3. cur' = [cur EXCEPT ![k] = [pc |-> "finish", hold |-> cur[k].hold, verdict |-> "done"]]
  BY <1>1, <1>2, FinishIs DEF MarkDelivered
<1>4. /\ \A j \in Kernel : j # k => cur'[j] = cur[j]
      /\ \A i \in Intent : ~Calls(k, i)'
  BY <1>1, <1>2, <1>3, MovedOn DEF Step
<1>5. \A i \in Intent :
        calls'[i] + Bit(Calls(k, i)') + faults <= calls[i] + Bit(Calls(k, i)) + faults'
  BY <1>1, <1>2, <1>4 DEF Bit, TypeOK
<1> QED BY <1>1, <1>2, <1>4, <1>5, HandPays

\* A kernel that comes to rest owes nothing: what it owed is back on the row,
\* or is paid for by the fault that stopped it.
LEMMA RestPays ==
  ASSUME PaidInv, IInv', NEW k \in Kernel, cur' = [cur EXCEPT ![k] = Idle],
         \/ batch' = [batch EXCEPT ![k] = {}]
         \/ batch' = batch,
         UNCHANGED calls,
         \A i \in Intent :
           Bit(Free(i)') + faults <= Bit(Free(i)) + Bit(Calls(k, i)) + faults'
  PROVE  PaidInv'
<1>1. cur \in [Kernel -> Current] /\ batch \in [Kernel -> SUBSET Held]
  BY DEF PaidInv, IInv, TypeOK
<1>2. \A j \in Kernel : (j # k => batch'[j] = batch[j] /\ cur'[j] = cur[j]) /\ batch'[j] \subseteq batch[j]
  BY <1>1
<1>3. cur'[k] = Idle
  BY <1>1
<1>4. ASSUME NEW i \in Intent PROVE PaidFor(i)'
  <2>1. Calls(k, i)' = FALSE
    BY <1>3 DEF Calls, Idle
  <2>2. Waits(k, i)' => Waits(k, i)
    BY <1>2 DEF Waits
  <2>3. calls[i] \in Nat /\ faults \in Nat /\ faults' \in Nat
    BY DEF PaidInv, IInv, TypeOK
  <2>4. Bit(Free(i)) \in Nat /\ Bit(Free(i)') \in Nat /\ Bit(Calls(k, i)) \in Nat
    BY DEF Bit
  <2>5. /\ Bit(Waits(k, i)') <= Bit(Waits(k, i)) /\ Bit(Calls(k, i)') = 0
        /\ Bit(Waits(k, i)') \in Nat /\ Bit(Waits(k, i)) \in Nat
    BY <2>1, <2>2 DEF Bit
  <2>6. calls'[i] + Bit(Free(i)') + Bit(Waits(k, i)') + Bit(Calls(k, i)') + faults
          <= calls[i] + Bit(Free(i)) + Bit(Waits(k, i)) + Bit(Calls(k, i)) + faults'
    BY <2>3, <2>4, <2>5
  <2> QED BY <1>2, <2>6, OneKernelPays DEF IInv
<1> QED BY <1>2, <1>4, BatchShrinks DEF PaidInv

LEMMA StopPaid == ASSUME PaidInv, NEW k \in Kernel, AbandonPass(k) \/ Crash(k) PROVE PaidInv'
<1>1. IInv'
  BY StopInv DEF PaidInv
<1>2. faults' = faults + 1 /\ UNCHANGED calls
  BY DEF AbandonPass, Crash, Fault
<1>3. cur' = [cur EXCEPT ![k] = Idle] /\ batch' = [batch EXCEPT ![k] = {}]
  BY DEF AbandonPass, Crash
<1>4. ASSUME NEW i \in Intent
      PROVE  Bit(Free(i)') + faults <= Bit(Free(i)) + Bit(Calls(k, i)) + faults'
  <2>1. faults \in Nat
    BY DEF PaidInv, IInv, TypeOK
  <2>2. Bit(Free(i)) \in {0, 1} /\ Bit(Free(i)') \in {0, 1} /\ Bit(Calls(k, i)) \in {0, 1}
    BY DEF Bit
  <2> QED BY <1>2, <2>1, <2>2
<1> QED BY <1>1, <1>2, <1>3, <1>4, RestPays

\* A failed task goes back to its row with the request it still owes.
LEMMA FinishTaskPaid == ASSUME PaidInv, NEW k \in Kernel, FinishTask(k) PROVE PaidInv'
<1>1. IInv /\ IInv' /\ TypeOK
  BY FinishTaskInv DEF PaidInv, IInv
<1>2. cur[k].pc = "finish" /\ UNCHANGED <<up, batch, calls, faults>>
  BY DEF FinishTask, At
<1>3. Hand(k) \in Intent /\ cur[k].verdict \in {"done", "ready", "dead"}
  BY <1>1, <1>2, HandType DEF TypeOK, Current
<1>4. /\ task'[Hand(k)].status = cur[k].verdict
      /\ \A j \in Intent : j # Hand(k) => task'[j] = task[j]
  BY <1>1, <1>3, SetTaskIs DEF FinishTask, TaskState
<1>5. ASSUME NEW i \in Intent
      PROVE  Bit(Free(i)') + faults <= Bit(Free(i)) + Bit(Calls(k, i)) + faults'
  <2>1. Free(i)' => Free(i) \/ Calls(k, i)
    <3>1. CASE i = Hand(k)
      <4>1. Free(i)' <=> cur[k].verdict = "ready"
        BY <1>3, <1>4, <3>1 DEF Free
      <4>2. Calls(k, i) <=> cur[k].verdict = "ready"
        BY <1>2, <3>1 DEF Calls
      <4> QED BY <4>1, <4>2
    <3>2. CASE i # Hand(k)
      BY <1>2, <1>4, <3>2 DEF Free
    <3> QED BY <3>1, <3>2
  <2>2. Bit(Free(i)') <= Bit(Free(i)) + Bit(Calls(k, i))
    BY <2>1 DEF Bit
  <2>3. faults \in Nat
    BY <1>1 DEF TypeOK
  <2>4. Bit(Free(i)) \in Nat /\ Bit(Free(i)') \in Nat /\ Bit(Calls(k, i)) \in Nat
    BY DEF Bit
  <2> QED BY <1>2, <2>2, <2>3, <2>4
<1>6. cur' = [cur EXCEPT ![k] = Idle]
  BY DEF FinishTask
<1> QED BY <1>1, <1>2, <1>5, <1>6, RestPays

\* Every kernel's hands stay as they are.
LEMMA RowPays ==
  ASSUME PaidInv, IInv', UNCHANGED <<batch, cur, calls>>,
         \A i \in Intent : Bit(Free(i)') + faults <= Bit(Free(i)) + faults'
  PROVE  PaidInv'
<1>1. ASSUME NEW i \in Intent PROVE PaidFor(i)'
  <2>1. Waiting(i)' = Waiting(i) /\ Calling(i)' = Calling(i)
    BY DEF Waiting, Calling, Waits, Calls, Hand
  <2>2. Cardinality(Waiting(i)) \in Nat /\ Cardinality(Calling(i)) \in Nat
    BY Counts DEF Waiting, Calling
  <2>3. calls[i] \in Nat /\ faults \in Nat /\ faults' \in Nat
    BY DEF PaidInv, IInv, TypeOK
  <2>4. Bit(Free(i)) \in Nat /\ Bit(Free(i)') \in Nat
    BY DEF Bit
  <2>5. calls[i] + Bit(Free(i)) + Cardinality(Waiting(i)) + Cardinality(Calling(i)) <= 1 + faults
    BY DEF PaidInv, PaidFor
  <2>6. calls[i] + Bit(Free(i)') + Cardinality(Waiting(i)) + Cardinality(Calling(i)) <= 1 + faults'
    BY <2>2, <2>3, <2>4, <2>5
  <2> QED BY <2>1, <2>6 DEF PaidFor
<1>2. \A j \in Kernel : BatchOK(j)'
  BY DEF PaidInv, BatchOK
<1> QED BY <1>1, <1>2 DEF PaidInv

\* The row of an orphan owed its request already; to reap from a live owner is a fault.
LEMMA ReapPaid == ASSUME PaidInv, NEW i \in Intent, Reap(i) PROVE PaidInv'
<1>1. IInv /\ IInv' /\ TypeOK
  BY ReapInv DEF PaidInv, IInv
<1>2. UNCHANGED <<batch, cur, calls, up>> /\ task[i].status = "running" /\ faults \in Nat
  BY <1>1 DEF Reap, TypeOK
<1>3. \A j \in Intent : j # i => task'[j] = task[j]
  BY <1>1, SetTaskIs DEF Reap, TaskState
<1>4. faults' = faults + 1 \/ (faults' = faults /\ task[i].owner \notin up)
  BY DEF Reap, Fault
<1>5. ASSUME NEW j \in Intent PROVE Bit(Free(j)') + faults <= Bit(Free(j)) + faults'
  <2>1. Bit(Free(j)) \in {0, 1} /\ Bit(Free(j)') \in {0, 1}
    BY DEF Bit
  <2>2. CASE faults' = faults + 1
    BY <1>2, <2>1, <2>2
  <2>3. CASE faults' = faults /\ task[i].owner \notin up
    <3>1. Free(j)' => Free(j)
      BY <1>2, <1>3, <2>3 DEF Free
    <3>2. Bit(Free(j)') <= Bit(Free(j))
      BY <3>1 DEF Bit
    <3> QED BY <1>2, <2>1, <2>3, <3>2
  <2> QED BY <1>4, <2>2, <2>3
<1> QED BY <1>1, <1>2, <1>5, RowPays

\* Nothing was sent of a row that was not there, and no kernel holds it.
LEMMA RecordPaid == ASSUME PaidInv, NEW i \in Intent, Record(i) PROVE PaidInv'
<1>1. IInv /\ IInv' /\ TypeOK
  BY RecordInv DEF PaidInv, IInv
<1>2. i \notin recorded /\ UNCHANGED <<batch, cur, calls, up, faults>>
  BY DEF Record
<1>3. ASSUME NEW j \in Intent PROVE PaidFor(j)'
  <2>1. Waiting(j)' = Waiting(j) /\ Calling(j)' = Calling(j)
    BY <1>2 DEF Waiting, Calling, Waits, Calls, Hand
  <2>2. CASE j = i
    <3>1. calls[i] = 0
      BY <1>1, <1>2 DEF IInv, SeenOK, TypeOK
    <3>2. \A k \in Kernel : ~Waits(k, i) /\ ~Calls(k, i)
      BY <1>1, <1>2 DEF IInv, HandOK, Waits, Calls
    <3>3. Waiting(i) = {} /\ Calling(i) = {}
      BY <3>2 DEF Waiting, Calling
    <3>4. Cardinality(Waiting(i)) = 0 /\ Cardinality(Calling(i)) = 0
      BY <3>3, FS_EmptySet
    <3>5. Bit(Free(i)') \in {0, 1} /\ faults \in Nat
      BY <1>1 DEF Bit, TypeOK
    <3> QED BY <1>2, <2>1, <2>2, <3>1, <3>4, <3>5 DEF PaidFor
  <2>3. CASE j # i
    <3>1. Free(j)' = Free(j)
      BY <1>1, <1>2, <2>3 DEF Free, Record, TypeOK
    <3> QED BY <1>2, <2>1, <3>1 DEF PaidFor, PaidInv
  <2> QED BY <2>2, <2>3
<1>4. \A k \in Kernel : BatchOK(k)'
  BY <1>2 DEF PaidInv, BatchOK
<1> QED BY <1>1, <1>3, <1>4 DEF PaidInv

\* What the rows owed, the kernel that leases them owes.
LEMMA ClaimPaid ==
  ASSUME PaidInv, NEW k \in Kernel, NEW S, ClaimDeliverTasks(k, S) PROVE PaidInv'
<1>1. IInv /\ IInv' /\ TypeOK /\ TypeOK'
  BY ClaimInv DEF PaidInv, IInv
<1>2. UNCHANGED <<calls, up, cur, faults>> /\ batch[k] = {} /\ k \in up
  BY DEF ClaimDeliverTasks
<1>3. S \subseteq Intent /\ \A i \in S : task[i].status = "ready"
  BY DEF ClaimDeliverTasks, Claimable
<1>4. \A i \in Intent : IF i \in S THEN task'[i].status = "running" /\ task'[i].owner = k
                                   ELSE task'[i] = task[i]
  BY DEF ClaimDeliverTasks
<1>5. batch' = [batch EXCEPT ![k] = {[intent |-> i, attempts |-> task'[i].attempts] : i \in S}]
  BY DEF ClaimDeliverTasks
<1>6. /\ \A j \in Kernel : j # k => batch'[j] = batch[j] /\ cur'[j] = cur[j]
      /\ batch'[k] = {[intent |-> i, attempts |-> task'[i].attempts] : i \in S}
  BY <1>1, <1>2, <1>5 DEF TypeOK
<1>7. ASSUME NEW i \in Intent PROVE PaidFor(i)'
  <2>1. Calls(k, i)' <=> Calls(k, i)
    BY <1>2 DEF Calls, Hand
  <2>2. ~Waits(k, i)
    BY <1>2 DEF Waits
  <2>3. Waits(k, i)' <=> i \in S
    <3>1. ASSUME i \in S PROVE Waits(k, i)'
      <4>1. [intent |-> i, attempts |-> task'[i].attempts] \in batch'[k]
        BY <1>6, <3>1
      <4> QED BY <4>1 DEF Waits
    <3>2. ASSUME Waits(k, i)' PROVE i \in S
      <4>1. PICK h \in batch'[k] : h.intent = i
        BY <3>2 DEF Waits
      <4>2. PICK j \in S : h = [intent |-> j, attempts |-> task'[j].attempts]
        BY <1>6
      <4> QED BY <4>1, <4>2
    <3> QED BY <3>1, <3>2
  <2>4. i \in S => Free(i) /\ ~Free(i)'
    BY <1>2, <1>3, <1>4 DEF Free
  <2>5. i \notin S => (Free(i)' <=> Free(i))
    BY <1>2, <1>4 DEF Free
  <2>6. Bit(Free(i)') + Bit(Waits(k, i)') = Bit(Free(i)) + Bit(Waits(k, i))
    <3>1. CASE i \in S
      BY <2>2, <2>3, <2>4, <3>1 DEF Bit
    <3>2. CASE i \notin S
      BY <2>2, <2>3, <2>5, <3>2 DEF Bit
    <3> QED BY <3>1, <3>2
  <2>7. Bit(Calls(k, i)') = Bit(Calls(k, i))
    BY <2>1 DEF Bit
  <2>8. /\ Bit(Free(i)) \in Nat /\ Bit(Free(i)') \in Nat /\ Bit(Waits(k, i)) \in Nat
        /\ Bit(Waits(k, i)') \in Nat /\ Bit(Calls(k, i)) \in Nat
    BY DEF Bit
  <2>9. calls[i] \in Nat /\ faults \in Nat
    BY <1>1 DEF TypeOK
  <2>10. calls'[i] + Bit(Free(i)') + Bit(Waits(k, i)') + Bit(Calls(k, i)') + faults
           <= calls[i] + Bit(Free(i)) + Bit(Waits(k, i)) + Bit(Calls(k, i)) + faults'
    BY <1>2, <2>6, <2>7, <2>8, <2>9
  <2> QED BY <1>1, <1>6, <2>10, OneKernelPays
<1>8. ASSUME NEW j \in Kernel PROVE BatchOK(j)'
  <2>1. CASE j = k
    BY <1>6, <2>1 DEF BatchOK
  <2>2. CASE j # k
    BY <1>6, <2>2 DEF BatchOK, PaidInv
  <2> QED BY <2>1, <2>2
<1> QED BY <1>1, <1>7, <1>8 DEF PaidInv

LEMMA InitPaid == ASSUME Init PROVE PaidInv
<1>1. IInv
  BY InitInv
<1>2. ASSUME NEW i \in Intent PROVE PaidFor(i)
  <2>1. calls[i] = 0 /\ faults = 0
    BY DEF Init
  <2>2. \A k \in Kernel : ~Waits(k, i) /\ ~Calls(k, i)
    BY DEF Init, Waits, Calls, Idle
  <2>3. Waiting(i) = {} /\ Calling(i) = {}
    BY <2>2 DEF Waiting, Calling
  <2>4. Cardinality(Waiting(i)) = 0 /\ Cardinality(Calling(i)) = 0
    BY <2>3, FS_EmptySet
  <2>5. Bit(Free(i)) \in {0, 1}
    BY DEF Bit
  <2> QED BY <2>1, <2>4, <2>5 DEF PaidFor
<1>3. \A k \in Kernel : BatchOK(k)
  BY DEF Init, BatchOK
<1> QED BY <1>1, <1>2, <1>3 DEF PaidInv

LEMMA NextPaid == ASSUME PaidInv, [Next]_vars PROVE PaidInv'
<1>1. ASSUME NEW k \in Kernel, DispatchOnce(k) PROVE PaidInv'
  BY <1>1, ClaimPaid, TakeTaskPaid, LoadIntentPaid, SinkPaid, MarkDeliveredPaid, FinishTaskPaid
     DEF DispatchOnce
<1>2. CASE UNCHANGED vars
  <2>1. IInv'
    BY <1>2, NextInv DEF PaidInv
  <2>2. \A i \in Intent : faults \in Nat /\ Free(i)' = Free(i) /\ Bit(Free(i)) \in {0, 1}
    BY <1>2 DEF vars, Free, Bit, PaidInv, IInv, TypeOK
  <2>3. UNCHANGED <<batch, cur, calls, faults>>
    BY <1>2 DEF vars
  <2> QED BY <2>1, <2>2, <2>3, RowPays
<1> QED BY <1>1, <1>2, RecordPaid, ReapPaid, SinkFailsPaid, StopPaid DEF Next

---------------------------------------------------------------------------
(* The theorems.                                                           *)

(* Every reachable state of the dispatcher is of the declared types: what  *)
(* a kernel has in hand is always an intent it claimed.                    *)
THEOREM OutboxTypeCorrect == Spec => []TypeOK
<1>1. Init => IInv
  BY InitInv
<1>2. IInv /\ [Next]_vars => IInv'
  BY NextInv
<1>3. IInv => TypeOK
  BY DEF IInv
<1> QED BY <1>1, <1>2, <1>3, PTL DEF Spec

(* No recorded effect is dropped: whatever zombies, crashes and sink       *)
(* errors do, a deliver task is closed only when its row is marked.        *)
THEOREM ClosedAlwaysDelivered == Spec => []ClosedIsDelivered
<1>1. Init => IInv
  BY InitInv
<1>2. IInv /\ [Next]_vars => IInv'
  BY NextInv
<1>3. IInv => ClosedIsDelivered
  BY DEF IInv
<1> QED BY <1>1, <1>2, <1>3, PTL DEF Spec

(* The dispatcher implements the promise of the outbox: an effect reaches  *)
(* the world only if it is recorded and is marked only once it has.        *)
THEOREM DispatcherImplementsLedger == Spec => ImplementsLedger
<1>1. Init => IInv /\ Ledger!Init
  BY InitInv, LedgerInit
<1>2. IInv /\ [Next]_vars => IInv'
  BY NextInv
<1>3. IInv /\ [Next]_vars => [Ledger!Next]_<<recorded, Reached, delivered>>
  BY LedgerStep
<1> QED BY <1>1, <1>2, <1>3, PTL DEF Spec, ImplementsLedger, Ledger!Spec

(* Effectively once, over HTTP, with any number of kernels and whatever    *)
(* fails: every repetition of a request is paid for by a fault, so kernels *)
(* that only run at the same time never repeat one.                        *)
THEOREM RepeatsPaid == Spec => []RepeatsArePaid
<1>1. Init => PaidInv
  BY InitPaid
<1>2. PaidInv /\ [Next]_vars => PaidInv'
  BY NextPaid
<1>3. PaidInv => RepeatsArePaid
  <2> SUFFICES ASSUME PaidInv, NEW i \in Intent PROVE calls[i] <= 1 + faults
    BY DEF RepeatsArePaid
  <2>1. Cardinality(Waiting(i)) \in Nat /\ Cardinality(Calling(i)) \in Nat
    BY Counts DEF Waiting, Calling
  <2>2. calls[i] \in Nat /\ faults \in Nat /\ Bit(Free(i)) \in Nat
    BY DEF PaidInv, IInv, TypeOK, Bit
  <2>3. calls[i] + Bit(Free(i)) + Cardinality(Waiting(i)) + Cardinality(Calling(i)) <= 1 + faults
    BY DEF PaidInv, PaidFor
  <2> QED BY <2>1, <2>2, <2>3
<1> QED BY <1>1, <1>2, <1>3, PTL DEF Spec
=============================================================================
