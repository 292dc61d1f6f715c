------------------------- MODULE ContinuationStore -------------------------
(***************************************************************************)
(* The durable continuation store of internal/cfr: the tables              *)
(* continuation, task (kind 'resume'), durable_condition + restart,        *)
(* channel_message and outbox, and the SERIALIZABLE transactions that      *)
(* write them.  One action is one committed transaction.                   *)
(*                                                                         *)
(* ClaimAndStep claims (ready -> running, step_seq + 1), runs the machine  *)
(* and checkpoints in ONE transaction, so the value 'running' is never     *)
(* visible in a committed continuation row: the model has no such status.  *)
(* What the machine computes is abstracted to the way a step ends; the     *)
(* constant Ends says which ways the programs of a model use.              *)
(*                                                                         *)
(* Abstractions: a channel and a match predicate are one Topic; "oldest"   *)
(* is any matching row, because sent_at and updated_at are the start times *)
(* of the writing transactions and those may commit in any order; a step   *)
(* records at most one external effect or one channel.send.                *)
(*                                                                         *)
(* A definition marked "mutant" is a seeded bug: no specification uses it, *)
(* and putting it in the place of the definition after it breaks the       *)
(* property PROJECT.json names beside it.                                  *)
(***************************************************************************)
EXTENDS Integers, Sequences, FiniteSets

CONSTANTS
  Cont,        \* continuation ids
  Msg,         \* channel message ids
  Topic,       \* what a message is about, and what a receiver matches
  TopicOf,     \* the topic of each message
  None,        \* SQL NULL
  Ends,        \* the ways the steps of this model may end
  Revocable,   \* continuations whose frames hold a capability token
  MaxSeq,      \* bound: a program of the model finishes by this step
  MaxConds     \* bound: operators answer this many conditions of a continuation

AllEnds == {"done", "timer", "message", "event", "all", "race", "signal", "fail",
            "mail", "send"}

ASSUME StoreAssumption ==
  /\ IsFiniteSet(Cont)
  /\ None \notin Cont \cup Msg \cup Topic
  /\ TopicOf \in [Msg -> Topic]
  /\ Ends \subseteq AllEnds
  /\ Revocable \subseteq Cont
  /\ MaxSeq \in Nat /\ MaxConds \in Nat

VARIABLES
  status,      \* continuation.status
  seq,         \* continuation.step_seq
  frames,      \* continuation.frames, reduced to the ParkKind they decode to
  wake,        \* continuation.wake
  parent,      \* principal.join_parent of a join child
  tasks,       \* the resume tasks of a continuation, in insertion order
  conds,       \* its durable conditions with their restarts, by signaled_at
  sent,        \* the rows of channel_message
  claimedBy,   \* channel_message.claimed_by
  outbox,      \* the rows of outbox: <<continuation_id, step_seq, class>>
  receipts,    \* history: how often a checkpointed step consumed each message
  performed    \* history: <<continuation, step>> of the external effects performed

rowVars   == <<status, seq, frames, wake, parent, tasks, conds, sent, claimedBy, outbox>>
history   == <<receipts, performed>>
storeVars == <<rowVars, history>>

Status    == {"absent", "sleeping", "ready", "condition", "done", "failed", "cancelled"}
ParkKind  == {"fresh", "wake", "signal", "empty"}
WakeKind  == {"timer", "message", "event", "join", "manual"}
TaskState == {"ready", "running", "done", "dead"}
CondClass == {"signal", "capability.revoked", "step.failed"}
Choice    == {"answer", "re-grant", "abort"}

Wake == [kind : WakeKind, topic : Topic \cup {None}, msg : Msg \cup {None},
         children : SUBSET Cont, race : BOOLEAN, winner : Cont \cup {None}]

BareWake(k)    == [kind |-> k, topic |-> None, msg |-> None,
                   children |-> {}, race |-> FALSE, winner |-> None]
MessageWake(t, m) == [BareWake("message") EXCEPT !.topic = t, !.msg = m]
EventWake(t)      == [BareWake("event") EXCEPT !.topic = t]
JoinWake(S, r)    == [BareWake("join") EXCEPT !.children = S, !.race = r]

(* A receiver or watcher without a predicate takes anything on its channel. *)
Matches(w, t) == w.topic \in {None, t}

FreshTask(n) == [seq |-> n, status |-> "ready", attempts |-> 0, owner |-> None]

(* The restarts a condition of each class is written with. *)
Offers(class) == CASE class = "signal"             -> {"answer", "abort"}
                   [] class = "capability.revoked" -> {"re-grant", "abort"}
                   [] class = "step.failed"        -> {"abort"}

OpenCond(class, offered) == [class |-> class, status |-> "open", choice |-> "abort",
                             offered |-> offered]

Resolved(c)   == {x \in DOMAIN conds[c] : conds[c][x].status = "resolved"}
LastResolved(c) == CHOOSE x \in Resolved(c) : \A y \in Resolved(c) : y <= x

---------------------------------------------------------------------------
(* Rows written by several transactions.                                   *)

\* Insert one resume task per continuation of W, at its step_seq in n.
Enqueue(W, n) == [x \in Cont |-> IF x \in W THEN Append(tasks[x], FreshTask(n[x]))
                                            ELSE tasks[x]]

Signal(c, class, offered) == [conds EXCEPT ![c] = Append(@, OpenCond(class, offered))]

\* The sleeping receivers a message may be handed to; None when it stays queued.
Receivers(m) == {r \in Cont : /\ status[r] = "sleeping"
                              /\ wake[r].kind = "message"
                              /\ Matches(wake[r], TopicOf[m])}
RecipientExact(m) ==   \* mutant: passes over a receiver without a predicate
  LET R == {r \in Receivers(m) : wake[r].topic = TopicOf[m]}
  IN  IF R = {} THEN {None} ELSE R
Recipient(m) == IF Receivers(m) = {} THEN {None} ELSE Receivers(m)

\* What landing message m with receiver r does to the rows (m = None: nothing).
StatusLeaked(r)       ==   \* mutant: the claim's 'running' becomes visible
  IF r = None THEN status ELSE [status EXCEPT ![r] = "running"]
PinForgotten(m, r)   == wake        \* mutant: the message id is not pinned
ClaimForgotten(m, r) == claimedBy   \* mutant: the row is not claimed
StatusAfterSend(r)   == IF r = None THEN status ELSE [status EXCEPT ![r] = "ready"]
WakeAfterSend(m, r)  == IF r = None THEN wake ELSE [wake EXCEPT ![r].msg = m]
ClaimAfterSend(m, r) == IF m = None THEN claimedBy ELSE [claimedBy EXCEPT ![m] = r]

\* The effect trace of a step: nothing, one external intent, or one channel.send.
NoEffect == [mail |-> FALSE, msg |-> None, to |-> None]
Effect ==
  {NoEffect}
    \cup (IF "mail" \in Ends THEN {[NoEffect EXCEPT !.mail = TRUE]} ELSE {})
    \cup (IF "send" \in Ends
          THEN UNION {{[mail |-> FALSE, msg |-> m, to |-> r] : r \in Recipient(m)} :
                        m \in Msg \ sent}
          ELSE {})

WriteEffects(c, e) ==
  /\ sent' = sent \cup ({e.msg} \ {None})
  /\ outbox' = outbox \cup (IF e.mail THEN {<<c, seq[c] + 1, "mail">>} ELSE {})
                      \cup (IF e.msg # None THEN {<<c, seq[c] + 1, "send">>} ELSE {})
  /\ performed' = performed \cup (IF e.mail THEN {<<c, seq[c] + 1>>} ELSE {})

---------------------------------------------------------------------------
(* ClaimAndStep: the claim CAS, and what the step then finds.              *)

\* UPDATE ... WHERE id = c AND status = 'ready' AND step_seq = n.
ClaimWins(c, n) == status[c] = "ready" /\ seq[c] = n

Advance(c) == [seq EXCEPT ![c] = @ + 1]

MayPark(c) == seq[c] + 1 < MaxSeq

\* buildDelivery loads the message pinned in the wake; the machine is handed it,
\* unless the door is ClaimAndResume, which passes on only the restart.
Consume(c, handed) ==
  receipts' = IF handed /\ frames[c] = "wake" /\ wake[c].msg # None
              THEN [receipts EXCEPT ![wake[c].msg] = @ + 1] ELSE receipts

\* The decoded frames can be resumed: a signal park needs a resolved restart.
Deliverable(c) == /\ frames[c] # "empty"
                  /\ frames[c] = "signal" => Resolved(c) # {}

\* The restart delivered to a signal park makes the machine fault.
Aborts(c) == frames[c] = "signal" /\ conds[c][LastResolved(c)].choice = "abort"

\* Frames that do not decode: failed, with a step.failed condition, committed.
RecordUndecodable(c) ==
  /\ frames[c] = "empty"
  /\ seq' = Advance(c)
  /\ status' = [status EXCEPT ![c] = "failed"]
  /\ conds' = Signal(c, "step.failed", TRUE)
  /\ UNCHANGED <<frames, wake, parent, tasks, sent, claimedBy, outbox, history>>

\* A token whose grant is gone: parked before the machine is re-entered.
ParkCapabilityRevoked(c) ==
  /\ c \in Revocable
  /\ frames[c] # "empty"
  /\ seq' = Advance(c)
  /\ status' = [status EXCEPT ![c] = "condition"]
  /\ wake' = [wake EXCEPT ![c] = BareWake("manual")]
  /\ conds' = Signal(c, "capability.revoked", TRUE)
  /\ UNCHANGED <<frames, parent, tasks, sent, claimedBy, outbox, history>>

\* A fault or an internal error: the row fails with its frames untouched.
ParkFailed(c) ==
  /\ Deliverable(c)
  /\ "fail" \in Ends \/ Aborts(c)
  /\ seq' = Advance(c)
  /\ status' = [status EXCEPT ![c] = "failed"]
  /\ conds' = Signal(c, "step.failed", TRUE)
  /\ UNCHANGED <<frames, wake, parent, tasks, sent, claimedBy, outbox, history>>

\* std signal, or a meter breach: the effect trace of the step is not written.
ParkCondition(c, handed) ==
  /\ Deliverable(c) /\ ~Aborts(c)
  /\ "signal" \in Ends /\ MayPark(c)
  /\ \E mail \in IF "mail" \in Ends THEN BOOLEAN ELSE {FALSE} :
       performed' = performed \cup (IF mail THEN {<<c, seq[c] + 1>>} ELSE {})
  /\ Consume(c, handed)
  /\ seq' = Advance(c)
  /\ status' = [status EXCEPT ![c] = "condition"]
  /\ frames' = [frames EXCEPT ![c] = "signal"]
  /\ wake' = [wake EXCEPT ![c] = BareWake("manual")]
  /\ conds' = Signal(c, "signal", TRUE)
  /\ UNCHANGED <<parent, tasks, sent, claimedBy, outbox>>

\* Park on a timer or on a record change.
ParkSleeping(c, w, e) ==
  /\ MayPark(c)
  /\ WriteEffects(c, e)
  /\ seq' = Advance(c)
  /\ status' = [StatusAfterSend(e.to) EXCEPT ![c] = "sleeping"]
  /\ frames' = [frames EXCEPT ![c] = "wake"]
  /\ wake' = [WakeAfterSend(e.msg, e.to) EXCEPT ![c] = w]
  /\ claimedBy' = ClaimAfterSend(e.msg, e.to)
  /\ tasks' = Enqueue({e.to}, seq)
  /\ UNCHANGED <<parent, conds>>

ParkTimer(c, e) ==
  /\ "timer" \in Ends
  /\ ParkSleeping(c, BareWake("timer"), e)

ParkEvent(c, t, e) ==
  /\ "event" \in Ends
  /\ ParkSleeping(c, EventWake(t), e)

\* claimOldestMatchingMessage: unclaimed messages the receive of topic t accepts,
\* after the step's own send has landed.
WaitingClaimed(t, e) ==   \* mutant: without claimed_by IS NULL
  {m \in sent \cup ({e.msg} \ {None}) : Matches(MessageWake(t, None), TopicOf[m])}
Waiting(t, e) == {m \in sent \cup ({e.msg} \ {None}) :
                    /\ ClaimAfterSend(e.msg, e.to)[m] = None
                    /\ Matches(MessageWake(t, None), TopicOf[m])}

ParkMessage(c, t, e) ==
  /\ "message" \in Ends
  /\ \/ Waiting(t, e) = {} /\ ParkSleeping(c, MessageWake(t, None), e)
     \/ \E m \in Waiting(t, e) :
          /\ MayPark(c)
          /\ WriteEffects(c, e)
          /\ seq' = Advance(c)
          /\ status' = [StatusAfterSend(e.to) EXCEPT ![c] = "ready"]
          /\ frames' = [frames EXCEPT ![c] = "wake"]
          /\ wake' = [WakeAfterSend(e.msg, e.to) EXCEPT ![c] = MessageWake(t, m)]
          /\ claimedBy' = [ClaimAfterSend(e.msg, e.to) EXCEPT ![m] = c]
          /\ tasks' = Enqueue({e.to, c}, seq')
          /\ UNCHANGED <<parent, conds>>

\* wf.all / wf.race: one fresh child row and resume task per thunk.
ParkJoin(c, S, race, e) ==
  /\ (IF race THEN "race" ELSE "all") \in Ends
  /\ MayPark(c)
  /\ \A x \in S : status[x] = "absent"
  /\ WriteEffects(c, e)
  /\ seq' = [x \in Cont |-> IF x = c THEN seq[x] + 1 ELSE IF x \in S THEN 0 ELSE seq[x]]
  /\ status' = [x \in Cont |-> IF x = c THEN "sleeping"
                               ELSE IF x \in S THEN "ready" ELSE StatusAfterSend(e.to)[x]]
  /\ frames' = [x \in Cont |-> IF x = c THEN "wake"
                               ELSE IF x \in S THEN "fresh" ELSE frames[x]]
  /\ wake' = [x \in Cont |-> IF x = c THEN JoinWake(S, race)
                             ELSE IF x \in S THEN BareWake("timer")
                             ELSE WakeAfterSend(e.msg, e.to)[x]]
  /\ parent' = [x \in Cont |-> IF x \in S THEN c ELSE parent[x]]
  /\ claimedBy' = ClaimAfterSend(e.msg, e.to)
  /\ tasks' = Enqueue(S \cup {e.to}, seq')
  /\ UNCHANGED conds

\* settleJoinParent, evaluated when child c has become 'done' in status s: the
\* parent it wakes, if its quorum of done children is reached and it still sleeps.
Quorum(w) == IF w.race THEN 1 ELSE Cardinality(w.children)
SettledLate(c, s) ==   \* mutant: > for >= in the quorum test
  {p \in {parent[c]} \ {None} :
     /\ wake[p].kind = "join" /\ s[p] = "sleeping"
     /\ Cardinality({x \in wake[p].children : s[x] = "done"}) > Quorum(wake[p])}
SettledAgain(c, s) ==   \* mutant: without the status CAS on the parent
  {p \in {parent[c]} \ {None} :
     /\ wake[p].kind = "join"
     /\ Cardinality({x \in wake[p].children : s[x] = "done"}) >= Quorum(wake[p])}
Settled(c, s) ==
  {p \in {parent[c]} \ {None} :
     /\ wake[p].kind = "join" /\ s[p] = "sleeping"
     /\ Cardinality({x \in wake[p].children : s[x] = "done"}) >= Quorum(wake[p])}

\* The race losers the winner cancels; a loser parked on a condition is not one.
LosersAsleep(c, P, s) ==   \* mutant: a loser with a task under way is let run
  {x \in Cont \ {c} : s[x] = "sleeping" /\ \E p \in P : wake[p].race /\ x \in wake[p].children}
Losers(c, P, s) ==
  {x \in Cont \ {c} : /\ s[x] \in {"sleeping", "ready"}
                      /\ \E p \in P : wake[p].race /\ x \in wake[p].children}

ParkDone(c, e) ==
  /\ "done" \in Ends
  /\ WriteEffects(c, e)
  /\ seq' = Advance(c)
  /\ frames' = [frames EXCEPT ![c] = "empty"]
  /\ claimedBy' = ClaimAfterSend(e.msg, e.to)
  /\ LET s == [StatusAfterSend(e.to) EXCEPT ![c] = "done"]
         P == Settled(c, s)
     IN  /\ status' = [x \in Cont |-> IF x \in P THEN "ready"
                                      ELSE IF x \in Losers(c, P, s) THEN "cancelled"
                                      ELSE s[x]]
         /\ wake' = [x \in Cont |-> IF x \in P /\ wake[x].race
                                    THEN [wake[x] EXCEPT !.winner = c]
                                    ELSE WakeAfterSend(e.msg, e.to)[x]]
         /\ tasks' = Enqueue(P \cup {e.to}, seq')
  /\ UNCHANGED <<parent, conds>>

\* The machine runs and parks or finishes, with its effect trace e.
ParkOutcome(c, handed) ==
  /\ Deliverable(c) /\ ~Aborts(c)
  /\ Consume(c, handed)
  /\ \E e \in Effect :
       \/ ParkDone(c, e)
       \/ ParkTimer(c, e)
       \/ \E t \in Topic \cup {None} : ParkEvent(c, t, e) \/ ParkMessage(c, t, e)

ParkChildren(c) ==
  /\ Deliverable(c) /\ ~Aborts(c)
  /\ Consume(c, TRUE)
  /\ \E e \in Effect, S \in SUBSET (Cont \ {c}), race \in BOOLEAN : ParkJoin(c, S, race, e)

---------------------------------------------------------------------------
(* The doors of the store that are not steps.                              *)

StartWorkflow(c) ==
  /\ status[c] = "absent"
  /\ status' = [status EXCEPT ![c] = "ready"]
  /\ seq' = [seq EXCEPT ![c] = 0]
  /\ frames' = [frames EXCEPT ![c] = "fresh"]
  /\ wake' = [wake EXCEPT ![c] = BareWake("timer")]
  /\ tasks' = Enqueue({c}, seq')
  /\ UNCHANGED <<parent, conds, sent, claimedBy, outbox, history>>

\* A request whose evaluation signalled: parked with its condition, no task.
Park(c) ==
  /\ "signal" \in Ends
  /\ status[c] = "absent"
  /\ status' = [status EXCEPT ![c] = "condition"]
  /\ seq' = [seq EXCEPT ![c] = 0]
  /\ frames' = [frames EXCEPT ![c] = "signal"]
  /\ wake' = [wake EXCEPT ![c] = BareWake("manual")]
  /\ conds' = Signal(c, "signal", TRUE)
  /\ UNCHANGED <<parent, tasks, sent, claimedBy, outbox, history>>

SendChannel(m) ==
  /\ "message" \in Ends
  /\ m \in Msg \ sent
  /\ sent' = sent \cup {m}
  /\ \E r \in Recipient(m) :
       /\ status' = StatusAfterSend(r)
       /\ wake' = WakeAfterSend(m, r)
       /\ claimedBy' = ClaimAfterSend(m, r)
       /\ tasks' = Enqueue({r}, seq)
  /\ UNCHANGED <<seq, frames, parent, conds, outbox, history>>

\* The rows of W, all sleeping, are flipped to ready with a task each.
WakeAllUntasked(W) ==   \* mutant: no resume task is inserted
  /\ W # {}
  /\ status' = [x \in Cont |-> IF x \in W THEN "ready" ELSE status[x]]
  /\ UNCHANGED <<seq, frames, wake, parent, tasks, conds, sent, claimedBy, outbox, history>>
WakeAll(W) ==
  /\ W # {}
  /\ status' = [x \in Cont |-> IF x \in W THEN "ready" ELSE status[x]]
  /\ tasks' = Enqueue(W, seq)
  /\ UNCHANGED <<seq, frames, wake, parent, conds, sent, claimedBy, outbox, history>>

\* The timer scanner takes any batch of due timers; time is abstracted.
TimerOnce ==
  \E W \in SUBSET {x \in Cont : status[x] = "sleeping" /\ wake[x].kind = "timer"} :
    WakeAll(W)

\* A derived-resource mutation of topic t wakes every matching watcher.
WakeEvents(t) ==
  WakeAll({x \in Cont : /\ status[x] = "sleeping" /\ wake[x].kind = "event"
                        /\ Matches(wake[x], t)})

\* The continuation is flipped to ready whatever its status.
PickRestart(c, x, choice) ==
  /\ x \in DOMAIN conds[c] /\ x <= MaxConds
  /\ conds[c][x].status = "open" /\ conds[c][x].offered
  /\ choice \in Offers(conds[c][x].class)
  /\ conds' = [conds EXCEPT ![c][x] = [@ EXCEPT !.status = "resolved", !.choice = choice]]
  /\ status' = [status EXCEPT ![c] = "ready"]
  /\ tasks' = Enqueue({c}, seq)
  /\ UNCHANGED <<seq, frames, wake, parent, sent, claimedBy, outbox, history>>

StoreInit ==
  /\ status = [c \in Cont |-> "absent"]
  /\ seq = [c \in Cont |-> 0]
  /\ frames = [c \in Cont |-> "empty"]
  /\ wake = [c \in Cont |-> BareWake("timer")]
  /\ parent = [c \in Cont |-> None]
  /\ tasks = [c \in Cont |-> <<>>]
  /\ conds = [c \in Cont |-> <<>>]
  /\ sent = {}
  /\ claimedBy = [m \in Msg |-> None]
  /\ outbox = {}
  /\ receipts = [m \in Msg |-> 0]
  /\ performed = {}

TaskRow(Owner) == [seq : Nat, status : TaskState, attempts : Nat, owner : Owner]
CondRow == [class : CondClass, status : {"open", "resolved"}, choice : Choice,
            offered : BOOLEAN]

StoreTypeOK(Owner) ==
  /\ status \in [Cont -> Status]
  /\ seq \in [Cont -> Nat]
  /\ frames \in [Cont -> ParkKind]
  /\ wake \in [Cont -> Wake]
  /\ parent \in [Cont -> Cont \cup {None}]
  /\ tasks \in [Cont -> Seq(TaskRow(Owner))]
  /\ conds \in [Cont -> Seq(CondRow)]
  /\ sent \subseteq Msg
  /\ claimedBy \in [Msg -> Cont \cup {None}]
  /\ outbox \subseteq Cont \X Nat \X {"mail", "send"}
  /\ receipts \in [Msg -> Nat]
  /\ performed \subseteq Cont \X Nat
=============================================================================
