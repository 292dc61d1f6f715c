-------------------------- MODULE RendezvousProofs --------------------------
(***************************************************************************)
(* Proofs of what continuations promise each other in TaskReactor.         *)
(*                                                                         *)
(* Messages: a send and a receive never pass each other, which is inductive*)
(* with the types; then MsgInv, in which a claimed message has been        *)
(* received, is pinned to the receiver it names, or had its receiver       *)
(* stopped by a condition.                                                 *)
(*                                                                         *)
(* Joins: JoinInv, in which a parent asleep is below its quorum and the    *)
(* losers of a race are over; and ResumeInv, in which a row is held by its *)
(* open condition and a parent that goes on was resumed by its children,   *)
(* unless one of them has a step.failed.                                   *)
(***************************************************************************)
EXTENDS TaskReactorProofs, FiniteSetTheorems

RInv == StoreTypeOK(Owner) /\ NoMissedRendezvous

\* r is a receiver after the step only if it was one, for the same topic.
WasReceiver(r) == /\ status[r] = "sleeping" /\ wake[r].kind = "message"
                  /\ wake'[r].topic = wake[r].topic

\* No message that is queued after the step is one r accepts.
NothingFor(r) == \A m \in sent' : claimedBy'[m] = None => ~Matches(wake'[r], TopicOf[m])

\* What a step that lands message m0 with r0 (None, None: nothing) must keep.
LEMMA Rendezvous ==
  ASSUME RInv, NEW m0 \in Msg \cup {None}, NEW r0,
         m0 # None => r0 \in Recipient(m0),
         sent' \subseteq Msg, sent' \subseteq sent \cup {m0},
         \A m \in Msg : claimedBy'[m] = None => ClaimAfterSend(m0, r0)[m] = None,
         \A r \in Cont : status'[r] = "sleeping" /\ wake'[r].kind = "message"
                           => WasReceiver(r) \/ NothingFor(r)
  PROVE  NoMissedRendezvous'
<1> SUFFICES ASSUME NEW m \in sent', claimedBy'[m] = None,
                    NEW r \in Cont, status'[r] = "sleeping", wake'[r].kind = "message",
                    Matches(wake'[r], TopicOf[m])
             PROVE  FALSE
  BY DEF NoMissedRendezvous, Receivers, Matches
<1>1. WasReceiver(r)
  BY DEF NothingFor
<1>2. r \in Receivers(m)
  BY <1>1 DEF WasReceiver, Receivers, Matches
<1>3. m \in Msg /\ claimedBy \in [Msg -> Cont \cup {None}]
  BY DEF RInv, StoreTypeOK
<1>4. CASE m = m0
  <2>1. m0 # None
    BY <1>3, <1>4, StoreAssumption
  <2>2. ClaimAfterSend(m0, r0)[m0] = r0
    BY <1>3, <1>4, <2>1 DEF ClaimAfterSend
  <2>3. r0 = None
    BY <1>3, <1>4, <2>2
  <2>4. None \in Receivers(m0)
    BY <1>2, <1>4, <2>1, <2>3 DEF Recipient
  <2> QED BY <2>4, StoreAssumption DEF Receivers
<1>5. CASE m # m0
  <2>1. ClaimAfterSend(m0, r0)[m] = claimedBy[m]
    BY <1>3, <1>5 DEF ClaimAfterSend
  <2>2. m \in sent /\ claimedBy[m] = None
    BY <1>3, <1>5, <2>1
  <2> QED BY <1>2, <2>2 DEF RInv, NoMissedRendezvous
<1> QED BY <1>4, <1>5

\* A step that lands nothing.
LEMMA NothingLands ==
  ASSUME RInv, sent' = sent, claimedBy' = claimedBy,
         \A r \in Cont : status'[r] = "sleeping" /\ wake'[r].kind = "message" => WasReceiver(r)
  PROVE  NoMissedRendezvous'
<1>1. ClaimAfterSend(None, None) = claimedBy /\ sent \subseteq Msg
  BY DEF ClaimAfterSend, RInv, StoreTypeOK
<1> QED BY <1>1, Rendezvous

\* Pinning a message changes neither the kind nor the topic of a wake.
LEMMA PinKeeps ==
  ASSUME RInv, NEW m, NEW r, NEW x \in Cont
  PROVE  /\ WakeAfterSend(m, r)[x].kind = wake[x].kind
         /\ WakeAfterSend(m, r)[x].topic = wake[x].topic
         /\ StatusAfterSend(r)[x] = "sleeping" => status[x] = "sleeping"
<1>1. wake \in [Cont -> Wake] /\ status \in [Cont -> Status]
  BY DEF RInv, StoreTypeOK
<1>2. \A w \in Wake : [w EXCEPT !.msg = m].kind = w.kind /\ [w EXCEPT !.msg = m].topic = w.topic
  BY DEF Wake
<1> QED BY <1>1, <1>2 DEF WakeAfterSend, StatusAfterSend

\* The ends that park the step or finish it, with effect trace e.
LEMMA ParkSleepingMeets ==
  ASSUME RInv, NEW c \in Cont, NEW e \in Effect, NEW w, ParkSleeping(c, w, e),
         w.kind = "message" => w.topic \in Topic \cup {None} /\ Waiting(w.topic, e) = {}
  PROVE  NoMissedRendezvous'
<1>1. /\ e.msg \in Msg \cup {None}
      /\ e.msg # None => e.to \in Recipient(e.msg)
  BY EffectType
<1>2. sent' = sent \cup ({e.msg} \ {None}) /\ sent' \subseteq Msg
  BY <1>1 DEF ParkSleeping, WriteEffects, RInv, StoreTypeOK
<1>3. /\ claimedBy' = ClaimAfterSend(e.msg, e.to)
      /\ status' = [StatusAfterSend(e.to) EXCEPT ![c] = "sleeping"]
      /\ wake' = [WakeAfterSend(e.msg, e.to) EXCEPT ![c] = w]
  BY DEF ParkSleeping
<1>4. /\ StatusAfterSend(e.to) \in [Cont -> Status]
      /\ WakeAfterSend(e.msg, e.to) \in [Cont -> Wake]
  BY <1>1, StatusAfterSendType, WakeAfterSendType DEF RInv, StoreTypeOK
<1>5. ASSUME NEW r \in Cont, r # c, status'[r] = "sleeping", wake'[r].kind = "message"
      PROVE  WasReceiver(r)
  <2>1. status'[r] = StatusAfterSend(e.to)[r] /\ wake'[r] = WakeAfterSend(e.msg, e.to)[r]
    BY <1>3, <1>4, <1>5
  <2> QED BY <1>5, <2>1, PinKeeps DEF WasReceiver
<1>6. wake'[c] = w
  BY <1>3, <1>4
<1>7. ASSUME w.kind = "message" PROVE NothingFor(c)
  <2> SUFFICES ASSUME NEW m \in sent', claimedBy'[m] = None, Matches(w, TopicOf[m]) PROVE FALSE
    BY <1>6 DEF NothingFor
  <2>1. Matches(MessageWake(w.topic, None), TopicOf[m])
    BY DEF Matches, MessageWake, BareWake
  <2>2. m \in Waiting(w.topic, e)
    BY <1>2, <1>3, <2>1 DEF Waiting
  <2> QED BY <1>7, <2>2
<1> QED BY <1>1, <1>2, <1>3, <1>5, <1>6, <1>7, Rendezvous

LEMMA ParkMessageMeets ==
  ASSUME RInv, NEW c \in Cont, NEW e \in Effect, NEW t \in Topic \cup {None},
         ParkMessage(c, t, e)
  PROVE  NoMissedRendezvous'
<1>1. CASE Waiting(t, e) = {} /\ ParkSleeping(c, MessageWake(t, None), e)
  <2>1. MessageWake(t, None).topic = t
    BY DEF MessageWake, BareWake
  <2> QED BY <1>1, <2>1, ParkSleepingMeets
<1>2. ASSUME NEW n \in Waiting(t, e),
             /\ WriteEffects(c, e)
             /\ status' = [StatusAfterSend(e.to) EXCEPT ![c] = "ready"]
             /\ wake' = [WakeAfterSend(e.msg, e.to) EXCEPT ![c] = MessageWake(t, n)]
             /\ claimedBy' = [ClaimAfterSend(e.msg, e.to) EXCEPT ![n] = c]
      PROVE  NoMissedRendezvous'
  <2>1. /\ e.msg \in Msg \cup {None}
        /\ e.msg # None => e.to \in Recipient(e.msg)
        /\ e.to \in Cont \cup {None}
    BY EffectType
  <2>2. sent' = sent \cup ({e.msg} \ {None}) /\ sent' \subseteq Msg
    BY <1>2, <2>1 DEF WriteEffects, RInv, StoreTypeOK
  <2>3. /\ StatusAfterSend(e.to) \in [Cont -> Status]
        /\ WakeAfterSend(e.msg, e.to) \in [Cont -> Wake]
        /\ ClaimAfterSend(e.msg, e.to) \in [Msg -> Cont \cup {None}]
    BY <2>1, StatusAfterSendType, WakeAfterSendType, ClaimAfterSendType DEF RInv, StoreTypeOK
  <2>4. \A m \in Msg : claimedBy'[m] = None => ClaimAfterSend(e.msg, e.to)[m] = None
    BY <1>2, <2>3, StoreAssumption
  <2>5. ASSUME NEW r \in Cont, status'[r] = "sleeping", wake'[r].kind = "message"
        PROVE  WasReceiver(r)
    <3>1. r # c
      BY <1>2, <2>3, <2>5
    <3>2. status'[r] = StatusAfterSend(e.to)[r] /\ wake'[r] = WakeAfterSend(e.msg, e.to)[r]
      BY <1>2, <2>3, <3>1
    <3> QED BY <2>5, <3>2, PinKeeps DEF WasReceiver
  <2> QED BY <2>1, <2>2, <2>4, <2>5, Rendezvous
<1> QED BY <1>1, <1>2 DEF ParkMessage

LEMMA ParkJoinMeets ==
  ASSUME RInv, NEW c \in Cont, NEW e \in Effect, NEW S \in SUBSET (Cont \ {c}),
         NEW race \in BOOLEAN, ParkJoin(c, S, race, e)
  PROVE  NoMissedRendezvous'
<1>1. /\ e.msg \in Msg \cup {None}
      /\ e.msg # None => e.to \in Recipient(e.msg)
  BY EffectType
<1>2. sent' = sent \cup ({e.msg} \ {None}) /\ sent' \subseteq Msg
  BY <1>1 DEF ParkJoin, WriteEffects, RInv, StoreTypeOK
<1>3. claimedBy' = ClaimAfterSend(e.msg, e.to)
  BY DEF ParkJoin
<1>4. ASSUME NEW r \in Cont, status'[r] = "sleeping", wake'[r].kind = "message"
      PROVE  WasReceiver(r)
  <2>1. r # c
    <3>1. wake'[c] = JoinWake(S, race)
      BY DEF ParkJoin
    <3> QED BY <1>4, <3>1 DEF JoinWake, BareWake
  <2>2. r \notin S
    BY <1>4, <2>1 DEF ParkJoin
  <2>3. status'[r] = StatusAfterSend(e.to)[r] /\ wake'[r] = WakeAfterSend(e.msg, e.to)[r]
    BY <2>1, <2>2 DEF ParkJoin
  <2> QED BY <1>4, <2>3, PinKeeps DEF WasReceiver
<1> QED BY <1>1, <1>2, <1>3, <1>4, Rendezvous

LEMMA ParkDoneMeets ==
  ASSUME RInv, NEW c \in Cont, NEW e \in Effect, ParkDone(c, e)
  PROVE  NoMissedRendezvous'
<1> DEFINE s == [StatusAfterSend(e.to) EXCEPT ![c] = "done"]
           P == Settled(c, s)
<1>1. /\ e.msg \in Msg \cup {None}
      /\ e.msg # None => e.to \in Recipient(e.msg)
  BY EffectType
<1>2. sent' = sent \cup ({e.msg} \ {None}) /\ sent' \subseteq Msg
  BY <1>1 DEF ParkDone, WriteEffects, RInv, StoreTypeOK
<1>3. /\ claimedBy' = ClaimAfterSend(e.msg, e.to)
      /\ status' = [x \in Cont |-> IF x \in P THEN "ready"
                                   ELSE IF x \in Losers(c, P, s) THEN "cancelled" ELSE s[x]]
      /\ wake' = [x \in Cont |-> IF x \in P /\ wake[x].race THEN [wake[x] EXCEPT !.winner = c]
                                 ELSE WakeAfterSend(e.msg, e.to)[x]]
  BY DEF ParkDone
<1>4. StatusAfterSend(e.to) \in [Cont -> Status]
  BY StatusAfterSendType DEF RInv, StoreTypeOK
<1>5. \A r \in Cont : s[r] = "sleeping" => StatusAfterSend(e.to)[r] = "sleeping"
  BY <1>4
<1>6. ASSUME NEW r \in Cont, status'[r] = "sleeping", wake'[r].kind = "message"
      PROVE  WasReceiver(r)
  <2> HIDE DEF s, P
  <2>1. StatusAfterSend(e.to)[r] = "sleeping" /\ wake'[r] = WakeAfterSend(e.msg, e.to)[r]
    BY <1>3, <1>5, <1>6
  <2> QED BY <1>6, <2>1, PinKeeps DEF WasReceiver
<1> QED BY <1>1, <1>2, <1>3, <1>6, Rendezvous

\* However a step ends.
LEMMA StepMeets ==
  ASSUME RInv, NEW c \in Cont, Steps(c) PROVE NoMissedRendezvous'
<1>0. status \in [Cont -> Status] /\ wake \in [Cont -> Wake]
  BY DEF RInv, StoreTypeOK
<1>1. CASE \/ RecordUndecodable(c) \/ ParkFailed(c) \/ ParkCapabilityRevoked(c)
           \/ \E handed \in BOOLEAN : ParkCondition(c, handed)
  <2>1. sent' = sent /\ claimedBy' = claimedBy
    BY <1>1 DEF RecordUndecodable, ParkFailed, ParkCapabilityRevoked, ParkCondition
  <2>2. \A r \in Cont : status'[r] = "sleeping" => status[r] = "sleeping" /\ wake'[r] = wake[r]
    BY <1>0, <1>1 DEF RecordUndecodable, ParkFailed, ParkCapabilityRevoked, ParkCondition
  <2> QED BY <2>1, <2>2, NothingLands DEF WasReceiver
<1>2. ASSUME NEW handed \in BOOLEAN, ParkOutcome(c, handed) PROVE NoMissedRendezvous'
  <2>1. PICK e \in Effect :
           \/ ParkDone(c, e)
           \/ ParkTimer(c, e)
           \/ \E t \in Topic \cup {None} : ParkEvent(c, t, e) \/ ParkMessage(c, t, e)
    BY <1>2 DEF ParkOutcome
  <2>2. CASE ParkTimer(c, e)
    <3>1. BareWake("timer").kind = "timer"
      BY DEF BareWake
    <3> QED BY <2>2, <3>1, ParkSleepingMeets DEF ParkTimer
  <2>3. ASSUME NEW t \in Topic \cup {None}, ParkEvent(c, t, e) PROVE NoMissedRendezvous'
    <3>1. EventWake(t).kind = "event"
      BY DEF EventWake, BareWake
    <3> QED BY <2>3, <3>1, ParkSleepingMeets DEF ParkEvent
  <2> QED BY <2>1, <2>2, <2>3, ParkDoneMeets, ParkMessageMeets
<1>3. CASE ParkChildren(c)
  BY <1>3, ParkJoinMeets DEF ParkChildren
<1> QED BY <1>1, <1>2, <1>3 DEF Steps

\* A message sent from outside.
LEMMA SendMeets == ASSUME RInv, NEW m \in Msg, SendChannel(m) PROVE NoMissedRendezvous'
<1>1. sent' = sent \cup {m} /\ sent' \subseteq Msg
  BY DEF SendChannel, RInv, StoreTypeOK
<1>2. PICK r \in Recipient(m) : /\ status' = StatusAfterSend(r)
                                /\ wake' = WakeAfterSend(m, r)
                                /\ claimedBy' = ClaimAfterSend(m, r)
  BY DEF SendChannel
<1>3. \A x \in Cont : status'[x] = "sleeping" /\ wake'[x].kind = "message" => WasReceiver(x)
  BY <1>2, PinKeeps DEF WasReceiver
<1> QED BY <1>1, <1>2, <1>3, Rendezvous

\* The other doors put nobody to sleep.
LEMMA DoorMeets ==
  ASSUME RInv,
         \/ \E c \in Cont : StartWorkflow(c) \/ Park(c)
         \/ TimerOnce
         \/ \E t \in Topic : WakeEvents(t)
         \/ \E c \in Cont : \E x \in DOMAIN conds[c] : \E choice \in Choice : PickRestart(c, x, choice)
  PROVE  NoMissedRendezvous'
<1>0. status \in [Cont -> Status] /\ wake \in [Cont -> Wake]
  BY SMTT(60) DEF RInv, StoreTypeOK
<1>1. sent' = sent /\ claimedBy' = claimedBy
  BY ZenonT(90) DEF StartWorkflow, Park, TimerOnce, WakeEvents, WakeAll, PickRestart
<1>2. \A r \in Cont : status'[r] = "sleeping" => status[r] = "sleeping" /\ wake'[r] = wake[r]
  BY ZenonT(90), <1>0 DEF StartWorkflow, Park, TimerOnce, WakeEvents, WakeAll, PickRestart
<1> QED BY <1>1, <1>2, NothingLands DEF WasReceiver

\* The actions of the reactor that write no continuation and no message.
LEMMA StillMeets ==
  ASSUME RInv, UNCHANGED <<status, wake, sent, claimedBy>> PROVE NoMissedRendezvous'
BY NothingLands DEF WasReceiver

LEMMA NextMeets == ASSUME TypeOK, NoMissedRendezvous, [Next]_vars PROVE NoMissedRendezvous'
<1>0. RInv
  BY DEF RInv, TypeOK, Owner
<1>1. ASSUME NEW k \in Kernel, Drain(k) PROVE NoMissedRendezvous'
  <2>1. ASSUME NEW h \in batch[k], StepTask(k, h) \/ StepUndecodable(k, h)
        PROVE  NoMissedRendezvous'
    <3>1. h.ref[1] \in Cont
      BY DEF TypeOK, Held, Ref
    <3>2. Steps(h.ref[1])
      BY <2>1 DEF StepTask, StepUndecodable, Steps
    <3> QED BY <1>0, <3>1, <3>2, StepMeets
  <2>2. ASSUME NEW h \in batch[k], StepLost(k, h) \/ StepError(k, h) PROVE NoMissedRendezvous'
    BY <1>0, <2>2, StillMeets DEF StepLost, StepError, storeVars, rowVars
  <2>3. ASSUME NEW S, ClaimTasks(k, S) PROVE NoMissedRendezvous'
    BY <1>0, <2>3, StillMeets DEF ClaimTasks
  <2>4. CASE FinishTask(k) \/ MarkDead(k) \/ RecordStepFailed(k) \/ OfferAbort(k)
    BY <1>0, <2>4, StillMeets DEF FinishTask, MarkDead, RecordStepFailed, OfferAbort
  <2> QED BY <1>1, <2>1, <2>2, <2>3, <2>4 DEF Drain
<1>2. ASSUME NEW k \in Kernel, AbandonPass(k) \/ Crash(k) PROVE NoMissedRendezvous'
  BY <1>0, <1>2, StillMeets DEF AbandonPass, Crash, storeVars, rowVars
<1>3. ASSUME NEW r \in Refs, Reap(r) PROVE NoMissedRendezvous'
  BY <1>0, <1>3, StillMeets DEF Reap
<1>4. ASSUME NEW c \in Cont, Start(c) \/ ParkRequest(c) PROVE NoMissedRendezvous'
  BY <1>0, <1>4, DoorMeets DEF Start, ParkRequest
<1>5. ASSUME NEW m \in Msg, Send(m) PROVE NoMissedRendezvous'
  BY <1>0, <1>5, SendMeets DEF Send
<1>6. ASSUME ScanTimers \/ \E t \in Topic : Mutate(t) PROVE NoMissedRendezvous'
  BY <1>0, <1>6, DoorMeets DEF ScanTimers, Mutate
<1>7. ASSUME NEW c \in Cont, NEW x \in DOMAIN conds[c], NEW choice \in Choice,
             ResolveCondition(c, x, choice)
      PROVE  NoMissedRendezvous'
  BY <1>0, <1>7, DoorMeets DEF ResolveCondition
<1>8. ASSUME NEW c \in Cont, ResumeDirect(c) PROVE NoMissedRendezvous'
  BY <1>0, <1>8, StepMeets DEF ResumeDirect, Steps
<1>9. ASSUME NEW c \in Cont, ResumeDropped(c) PROVE NoMissedRendezvous'
  BY <1>0, <1>9, StillMeets DEF ResumeDropped, storeVars, rowVars
<1>10. CASE UNCHANGED vars
  BY <1>0, <1>10, StillMeets DEF vars, storeVars, rowVars
<1> QED BY <1>1, <1>2, <1>3, <1>4, <1>5, <1>6, <1>7, <1>8, <1>9, <1>10 DEF Next, Operator

(* A queued message and a sleeping receiver that accepts it never coexist, *)
(* for every number of senders, receivers and kernels: each half of the    *)
(* rendezvous (SendChannel and the step's own channel.send; the receive of *)
(* parkWake) looks for the other before it settles down to wait.           *)
THEOREM SendMeetsReceive == Spec => []NoMissedRendezvous
<1>1. Init => NoMissedRendezvous
  BY DEF Init, StoreInit, NoMissedRendezvous
<1>2. TypeOK /\ NoMissedRendezvous /\ [Next]_vars => NoMissedRendezvous'
  BY NextMeets
<1> QED BY <1>1, <1>2, TypeCorrect, PTL DEF Spec

---------------------------------------------------------------------------
(* One receiver for a message, one receipt.                                *)

\* A message is claimed only once it has been sent.
SentFirst == \A m \in Msg \ sent : claimedBy[m] = None

\* A row asleep has been handed nothing yet, and its frames wait for a wake.
SleeperWaits ==
  \A c \in Cont : status[c] = "sleeping" => frames[c] = "wake" /\ wake[c].msg = None

PinsMessages == \A c \in Cont : wake[c].msg # None => wake[c].kind = "message"

\* A row that is not there is no receiver.
AbsentClaimsNone == \A c \in Cont : status[c] = "absent" => \A m \in Msg : claimedBy[m] # c

PinInv == SentFirst /\ SleeperWaits /\ PinsMessages /\ AbsentClaimsNone /\ PinnedIsClaimed

\* What a transaction does to the row of x: it is handed m in its sleep, or keeps
\* its pin, or appears, or it is the row that steps and parks, is handed n or ends.
Woken(x, m) ==
  /\ status[x] = "sleeping" /\ wake[x].kind = "message"
  /\ frames'[x] = frames[x]
  /\ wake'[x].kind = "message" /\ wake'[x].msg = m
  /\ status'[x] \notin {"sleeping", "absent"}

Kept(x) ==
  /\ frames'[x] = frames[x]
  /\ wake'[x].msg = wake[x].msg /\ wake'[x].kind = wake[x].kind
  /\ status'[x] = "sleeping" => status[x] = "sleeping"
  /\ status'[x] = "absent" => status[x] = "absent"

Born(x) ==
  /\ status[x] = "absent"
  /\ wake'[x].msg = None
  /\ status'[x] \notin {"sleeping", "absent"}

Parked(x) ==
  /\ wake'[x].msg = None
  /\ status'[x] = "sleeping" => frames'[x] = "wake"
  /\ status'[x] # "absent"

Handed(x, n) ==
  /\ frames'[x] = "wake"
  /\ wake'[x].kind = "message" /\ wake'[x].msg = n
  /\ status'[x] \notin {"sleeping", "absent"}

Ended(x) ==
  /\ frames'[x] # "wake"
  /\ wake'[x].msg = wake[x].msg /\ wake'[x].kind = wake[x].kind
  /\ status'[x] \notin {"sleeping", "absent"}

\* How a step that runs the machine leaves its own row.
Moves(c, n) == Parked(c) \/ Ended(c) \/ (n # None /\ Handed(c, n))

\* A transaction in which m0 is sent and lands with r0, and c, that steps, is handed n.
Delivers(c, m0, r0, n) ==
  /\ m0 \in Msg \cup {None} /\ n \in Msg \cup {None}
  /\ IF m0 = None THEN r0 = None ELSE m0 \in Msg \ sent /\ r0 \in Recipient(m0)
  /\ sent' = sent \cup ({m0} \ {None})
  /\ IF n = None THEN claimedBy' = ClaimAfterSend(m0, r0)
     ELSE /\ c \in Cont \ {r0} /\ status[c] # "absent" /\ Handed(c, n)
          /\ n \in sent' /\ ClaimAfterSend(m0, r0)[n] = None
          /\ claimedBy' = [ClaimAfterSend(m0, r0) EXCEPT ![n] = c]
  /\ \A x \in Cont :
       IF x = r0 THEN Woken(x, m0)
       ELSE \/ Kept(x) \/ Born(x)
            \/ x = c /\ status[c] # "absent" /\ Moves(x, n)

\* A claim stands for ever, and a message newly claimed is pinned to its receiver.
LEMMA ClaimStands ==
  ASSUME StoreTypeOK(Owner), PinInv, NEW c, NEW m0, NEW r0, NEW n, Delivers(c, m0, r0, n),
         NEW m \in Msg
  PROVE  /\ claimedBy[m] # None => claimedBy'[m] = claimedBy[m]
         /\ claimedBy[m] = None /\ claimedBy'[m] # None =>
              /\ m \in sent'
              /\ \E x \in Cont : claimedBy'[m] = x /\ Holds(x, m)' /\ status[x] # "absent"
<1>1. claimedBy \in [Msg -> Cont \cup {None}] /\ frames \in [Cont -> ParkKind]
  BY DEF StoreTypeOK
<1>2. r0 \in Cont \cup {None}
  BY RecipientType DEF Delivers
<1>3. m0 # None => claimedBy[m0] = None /\ m0 \in Msg
  BY DEF Delivers, PinInv, SentFirst
<1>4. ClaimAfterSend(m0, r0)[m] = IF m = m0 THEN r0 ELSE claimedBy[m]
  BY <1>1, StoreAssumption DEF ClaimAfterSend
<1>5. claimedBy'[m] = IF n # None /\ m = n THEN c ELSE ClaimAfterSend(m0, r0)[m]
  <2>1. CASE n = None
    BY <2>1 DEF Delivers
  <2>2. CASE n # None
    <3>1. ClaimAfterSend(m0, r0) \in [Msg -> Cont \cup {None}]
      BY <1>1, <1>2, ClaimAfterSendType DEF Delivers
    <3> QED BY <2>2, <3>1 DEF Delivers
  <2> QED BY <2>1, <2>2
<1>6. n # None => ClaimAfterSend(m0, r0)[n] = None
  BY DEF Delivers
<1>7. CASE claimedBy[m] # None
  <2>1. m # m0
    BY <1>3, <1>7, StoreAssumption
  <2>2. ClaimAfterSend(m0, r0)[m] = claimedBy[m]
    BY <1>4, <2>1
  <2>3. n = None \/ m # n
    BY <1>6, <1>7, <2>2
  <2> QED BY <1>5, <1>7, <2>2, <2>3
<1>8. CASE claimedBy[m] = None /\ claimedBy'[m] # None
  <2>1. CASE n # None /\ m = n
    <3>1. Handed(c, m) /\ c \in Cont /\ status[c] # "absent" /\ m \in sent'
      BY <2>1 DEF Delivers
    <3>2. claimedBy'[m] = c
      BY <1>5, <2>1
    <3> QED BY <1>8, <3>1, <3>2 DEF Handed, Holds
  <2>2. CASE ~(n # None /\ m = n)
    <3>1. m = m0 /\ claimedBy'[m] = r0
      BY <1>4, <1>5, <1>8, <2>2
    <3>2. r0 \in Cont
      BY <1>2, <1>8, <3>1
    <3>3. Woken(r0, m)
      BY <3>1, <3>2 DEF Delivers
    <3>4. frames[r0] = "wake" /\ status[r0] # "absent"
      BY <3>2, <3>3 DEF Woken, PinInv, SleeperWaits
    <3>5. m \in sent'
      BY <3>1, StoreAssumption DEF Delivers
    <3> QED BY <1>8, <3>1, <3>2, <3>3, <3>4, <3>5 DEF Woken, Holds
  <2> QED BY <2>1, <2>2
<1> QED BY <1>7, <1>8

\* Whoever is pinned to a message after the transaction is the one it names.
LEMMA DeliveryPins ==
  ASSUME StoreTypeOK(Owner), PinInv, NEW c, NEW m0, NEW r0, NEW n, Delivers(c, m0, r0, n)
  PROVE  PinInv'
<1>1. claimedBy \in [Msg -> Cont \cup {None}]
  BY DEF StoreTypeOK
<1>2. ASSUME NEW m \in Msg \ sent' PROVE claimedBy'[m] = None
  <2>1. claimedBy[m] = None
    BY DEF Delivers, PinInv, SentFirst
  <2> QED BY <1>2, <2>1, ClaimStands
<1>3. ASSUME NEW x \in Cont, status'[x] = "sleeping" PROVE frames'[x] = "wake" /\ wake'[x].msg = None
  <2>1. ~Woken(x, m0) /\ ~Born(x) /\ ~Ended(x) /\ ~Handed(x, n)
    BY <1>3 DEF Woken, Born, Ended, Handed
  <2>2. Kept(x) \/ Parked(x)
    BY <2>1 DEF Delivers, Moves
  <2> QED BY <1>3, <2>2 DEF Kept, Parked, PinInv, SleeperWaits
<1>4. ASSUME NEW x \in Cont, wake'[x].msg # None PROVE wake'[x].kind = "message"
  <2>1. ~Born(x) /\ ~Parked(x)
    BY <1>4 DEF Born, Parked
  <2>2. Woken(x, m0) \/ Kept(x) \/ Ended(x) \/ Handed(x, n)
    BY <2>1 DEF Delivers, Moves
  <2> QED BY <1>4, <2>2 DEF Woken, Kept, Ended, Handed, PinInv, PinsMessages
<1>5. ASSUME NEW x \in Cont, status'[x] = "absent", NEW m \in Msg PROVE claimedBy'[m] # x
  <2>1. status[x] = "absent"
    BY <1>5 DEF Delivers, Woken, Kept, Born, Moves, Ended, Parked, Handed
  <2>2. claimedBy[m] # x
    BY <2>1 DEF PinInv, AbsentClaimsNone
  <2> QED BY <2>1, <2>2, ClaimStands, StoreAssumption
<1>6. ASSUME NEW x \in Cont, NEW m \in Msg, Holds(x, m)' PROVE claimedBy'[m] = x
  <2>1. frames'[x] = "wake" /\ wake'[x].kind = "message" /\ wake'[x].msg = m /\ m # None
    BY <1>6, StoreAssumption DEF Holds
  <2>2. CASE x = r0
    <3>1. m = m0
      BY <2>1, <2>2 DEF Delivers, Woken
    <3>2. ClaimAfterSend(m0, r0)[m] = r0 /\ r0 # None
      BY <1>1, <2>2, <3>1, <2>1, StoreAssumption DEF ClaimAfterSend
    <3>3. n # m \/ n = None
      BY <3>2 DEF Delivers
    <3>4. ClaimAfterSend(m0, r0) \in [Msg -> Cont \cup {None}]
      BY <1>1, <2>2, ClaimAfterSendType DEF Delivers
    <3> QED BY <2>2, <3>2, <3>3, <3>4 DEF Delivers
  <2>3. CASE x # r0 /\ Kept(x)
    <3>1. Holds(x, m)
      BY <2>1, <2>3 DEF Kept, Holds
    <3>2. claimedBy[m] = x
      BY <3>1 DEF PinInv, PinnedIsClaimed
    <3> QED BY <3>2, ClaimStands, StoreAssumption
  <2>4. CASE x # r0 /\ ~Kept(x)
    <3>1. ~Born(x) /\ ~Parked(x) /\ ~Ended(x)
      BY <2>1 DEF Born, Parked, Ended
    <3>2. x = c /\ n # None /\ Handed(x, n)
      BY <2>4, <3>1 DEF Delivers, Moves
    <3>3. n = m
      BY <2>1, <3>2 DEF Handed
    <3>4. ClaimAfterSend(m0, r0) \in [Msg -> Cont \cup {None}]
      <4>1. r0 \in Cont \cup {None}
        BY RecipientType DEF Delivers
      <4> QED BY <1>1, <4>1, ClaimAfterSendType DEF Delivers
    <3> QED BY <3>2, <3>3, <3>4 DEF Delivers
  <2> QED BY <2>2, <2>3, <2>4
<1> QED BY <1>2, <1>3, <1>4, <1>5, <1>6
        DEF PinInv, SentFirst, SleeperWaits, PinsMessages, AbsentClaimsNone, PinnedIsClaimed

\* Nobody but the receiver a message is landing with is newly pinned to it.
LEMMA HoldsWas ==
  ASSUME StoreTypeOK(Owner), PinInv, NEW c, NEW m0, NEW r0, NEW n, Delivers(c, m0, r0, n),
         NEW m \in Msg, claimedBy[m] # None, NEW x \in Cont, Holds(x, m)'
  PROVE  Kept(x) /\ ~Moves(x, n) /\ Holds(x, m)
<1>1. claimedBy \in [Msg -> Cont \cup {None}]
  BY DEF StoreTypeOK
<1>2. frames'[x] = "wake" /\ wake'[x].kind = "message" /\ wake'[x].msg = m /\ m # None
  BY StoreAssumption DEF Holds
<1>3. m # m0
  BY <1>2 DEF Delivers, PinInv, SentFirst
<1>4. x # r0
  BY <1>2, <1>3 DEF Delivers, Woken
<1>5. ~Born(x) /\ ~Parked(x) /\ ~Ended(x)
  BY <1>2 DEF Born, Parked, Ended
<1>6. ~(n # None /\ Handed(x, n))
  <2>1. SUFFICES ASSUME n # None, n = m PROVE FALSE
    BY <1>2 DEF Handed
  <2>2. ClaimAfterSend(m0, r0)[m] = None
    BY <2>1 DEF Delivers
  <2>3. ClaimAfterSend(m0, r0)[m] = claimedBy[m]
    BY <1>1, <1>3 DEF ClaimAfterSend
  <2> QED BY <2>2, <2>3
<1>7. ~Moves(x, n)
  BY <1>5, <1>6 DEF Moves
<1>8. Kept(x)
  BY <1>4, <1>5, <1>7 DEF Delivers
<1> QED BY <1>2, <1>7, <1>8 DEF Kept, Holds

\* The rows once m0 has landed with r0.
LEMMA LandedRows ==
  ASSUME StoreTypeOK(Owner), NEW m0 \in Msg \cup {None}, NEW r0, NEW x \in Cont,
         IF m0 = None THEN r0 = None ELSE m0 \in Msg \ sent /\ r0 \in Recipient(m0)
  PROVE  /\ x # r0 => StatusAfterSend(r0)[x] = status[x] /\ WakeAfterSend(m0, r0)[x] = wake[x]
         /\ x = r0 => /\ status[x] = "sleeping" /\ wake[x].kind = "message"
                      /\ StatusAfterSend(r0)[x] = "ready"
                      /\ WakeAfterSend(m0, r0)[x].kind = "message"
                      /\ WakeAfterSend(m0, r0)[x].msg = m0
<1>1. status \in [Cont -> Status] /\ wake \in [Cont -> Wake]
  BY DEF StoreTypeOK
<1>2. CASE x # r0
  BY <1>1, <1>2 DEF StatusAfterSend, WakeAfterSend
<1>3. CASE x = r0
  <2>1. r0 # None /\ m0 # None
    BY <1>3, StoreAssumption
  <2>2. status[x] = "sleeping" /\ wake[x].kind = "message"
    BY <1>3, <2>1 DEF Recipient, Receivers
  <2>3. \A w \in Wake : [w EXCEPT !.msg = m0].kind = w.kind /\ [w EXCEPT !.msg = m0].msg = m0
    BY DEF Wake
  <2> QED BY <1>1, <1>3, <2>1, <2>2, <2>3 DEF StatusAfterSend, WakeAfterSend
<1> QED BY <1>2, <1>3

LEMMA EffectLands ==
  ASSUME NEW e \in Effect
  PROVE  /\ e.msg \in Msg \cup {None}
         /\ IF e.msg = None THEN e.to = None ELSE e.msg \in Msg \ sent /\ e.to \in Recipient(e.msg)
BY EffectType, StoreAssumption

LEMMA ParkSleepingDelivers ==
  ASSUME StoreTypeOK(Owner), NEW c \in Cont, status[c] = "ready", NEW e \in Effect,
         NEW w, w.msg = None, ParkSleeping(c, w, e)
  PROVE  Delivers(c, e.msg, e.to, None) /\ Moves(c, None)
<1>1. /\ sent' = sent \cup ({e.msg} \ {None})
      /\ claimedBy' = ClaimAfterSend(e.msg, e.to)
      /\ status' = [StatusAfterSend(e.to) EXCEPT ![c] = "sleeping"]
      /\ frames' = [frames EXCEPT ![c] = "wake"]
      /\ wake' = [WakeAfterSend(e.msg, e.to) EXCEPT ![c] = w]
  BY DEF ParkSleeping, WriteEffects
<1>2. /\ StatusAfterSend(e.to) \in [Cont -> Status] /\ frames \in [Cont -> ParkKind]
      /\ WakeAfterSend(e.msg, e.to) \in [Cont -> Wake]
  BY EffectLands, StatusAfterSendType, WakeAfterSendType DEF StoreTypeOK
<1>3. c # e.to
  BY EffectLands, LandedRows
<1>4. Parked(c)
  BY <1>1, <1>2 DEF Parked
<1>5. ASSUME NEW x \in Cont, x # c PROVE IF x = e.to THEN Woken(x, e.msg) ELSE Kept(x)
  <2>1. /\ status'[x] = StatusAfterSend(e.to)[x] /\ frames'[x] = frames[x]
        /\ wake'[x] = WakeAfterSend(e.msg, e.to)[x]
    BY <1>1, <1>2, <1>5
  <2> QED BY <2>1, EffectLands, LandedRows DEF Woken, Kept
<1> QED BY <1>1, <1>3, <1>4, <1>5, EffectLands DEF Delivers, Moves

LEMMA ParkMessageDelivers ==
  ASSUME StoreTypeOK(Owner), NEW c \in Cont, status[c] = "ready", NEW e \in Effect,
         NEW t \in Topic \cup {None}, ParkMessage(c, t, e)
  PROVE  \E n \in Msg \cup {None} : Delivers(c, e.msg, e.to, n) /\ Moves(c, n)
<1>1. CASE ParkSleeping(c, MessageWake(t, None), e)
  <2>1. MessageWake(t, None).msg = None
    BY DEF MessageWake, BareWake
  <2> QED BY <1>1, <2>1, ParkSleepingDelivers
<1>2. ASSUME NEW n \in Waiting(t, e),
             /\ WriteEffects(c, e)
             /\ status' = [StatusAfterSend(e.to) EXCEPT ![c] = "ready"]
             /\ frames' = [frames EXCEPT ![c] = "wake"]
             /\ wake' = [WakeAfterSend(e.msg, e.to) EXCEPT ![c] = MessageWake(t, n)]
             /\ claimedBy' = [ClaimAfterSend(e.msg, e.to) EXCEPT ![n] = c]
      PROVE  Delivers(c, e.msg, e.to, n) /\ Moves(c, n)
  <2>1. sent' = sent \cup ({e.msg} \ {None})
    BY <1>2 DEF WriteEffects
  <2>2. n \in sent' /\ n \in Msg /\ ClaimAfterSend(e.msg, e.to)[n] = None
    BY <2>1, EffectLands DEF Waiting, StoreTypeOK
  <2>3. /\ StatusAfterSend(e.to) \in [Cont -> Status] /\ frames \in [Cont -> ParkKind]
        /\ WakeAfterSend(e.msg, e.to) \in [Cont -> Wake]
    BY EffectLands, StatusAfterSendType, WakeAfterSendType DEF StoreTypeOK
  <2>4. c # e.to
    BY EffectLands, LandedRows
  <2>5. MessageWake(t, n).kind = "message" /\ MessageWake(t, n).msg = n
    BY DEF MessageWake, BareWake
  <2>6. Handed(c, n)
    BY <1>2, <2>3, <2>5 DEF Handed
  <2>7. ASSUME NEW x \in Cont, x # c PROVE IF x = e.to THEN Woken(x, e.msg) ELSE Kept(x)
    <3>1. /\ status'[x] = StatusAfterSend(e.to)[x] /\ frames'[x] = frames[x]
          /\ wake'[x] = WakeAfterSend(e.msg, e.to)[x]
      BY <1>2, <2>3, <2>7
    <3>2. CASE x = e.to
      BY <3>1, <3>2, EffectLands, LandedRows DEF Woken
    <3>3. CASE x # e.to
      <4>1. status'[x] = status[x] /\ wake'[x] = wake[x]
        BY <3>1, <3>3, EffectLands, LandedRows
      <4> QED BY <3>1, <3>3, <4>1 DEF Kept
    <3> QED BY <3>2, <3>3
  <2>8. n # None
    BY <2>2, StoreAssumption
  <2> QED BY <1>2, <2>1, <2>2, <2>4, <2>6, <2>7, <2>8, EffectLands DEF Delivers, Moves
<1>3. Waiting(t, e) \subseteq Msg
  BY EffectLands DEF Waiting, StoreTypeOK
<1>4. CASE \E n \in Waiting(t, e) :
             /\ WriteEffects(c, e)
             /\ status' = [StatusAfterSend(e.to) EXCEPT ![c] = "ready"]
             /\ frames' = [frames EXCEPT ![c] = "wake"]
             /\ wake' = [WakeAfterSend(e.msg, e.to) EXCEPT ![c] = MessageWake(t, n)]
             /\ claimedBy' = [ClaimAfterSend(e.msg, e.to) EXCEPT ![n] = c]
  BY <1>2, <1>3, <1>4
<1> QED BY <1>1, <1>4 DEF ParkMessage

LEMMA ParkJoinDelivers ==
  ASSUME StoreTypeOK(Owner), NEW c \in Cont, status[c] = "ready", NEW e \in Effect,
         NEW S \in SUBSET (Cont \ {c}), NEW race \in BOOLEAN, ParkJoin(c, S, race, e)
  PROVE  Delivers(c, e.msg, e.to, None) /\ Moves(c, None)
<1>1. /\ sent' = sent \cup ({e.msg} \ {None})
      /\ claimedBy' = ClaimAfterSend(e.msg, e.to)
  BY DEF ParkJoin, WriteEffects
<1>2. c # e.to
  BY EffectLands, LandedRows
<1>3. Parked(c)
  <2>1. JoinWake(S, race).msg = None
    BY DEF JoinWake, BareWake
  <2> QED BY <2>1 DEF ParkJoin, Parked
<1>4. ASSUME NEW x \in Cont, x # c
      PROVE  IF x = e.to THEN Woken(x, e.msg) ELSE Kept(x) \/ Born(x)
  <2>1. CASE x \in S
    <3>1. x # e.to /\ status[x] = "absent"
      BY SMTT(60), <2>1, EffectLands, LandedRows DEF ParkJoin
    <3>2. wake'[x] = BareWake("timer") /\ status'[x] = "ready"
      BY <1>4, <2>1 DEF ParkJoin
    <3> QED BY <3>1, <3>2 DEF Born, BareWake
  <2>2. CASE x \notin S
    <3>1. /\ status'[x] = StatusAfterSend(e.to)[x] /\ frames'[x] = frames[x]
          /\ wake'[x] = WakeAfterSend(e.msg, e.to)[x]
      BY <1>4, <2>2 DEF ParkJoin
    <3>2. IF e.msg = None THEN e.to = None ELSE e.msg \in Msg \ sent /\ e.to \in Recipient(e.msg)
      BY EffectLands
    <3>3. e.msg \in Msg \cup {None}
      BY EffectLands
    <3>4. CASE x = e.to
      <4>1. Woken(x, e.msg)
        BY <3>1, <3>2, <3>3, <3>4, LandedRows DEF Woken
      <4> QED BY <3>4, <4>1
    <3>5. CASE x # e.to
      <4>1. Kept(x)
        BY <3>1, <3>2, <3>3, <3>5, LandedRows DEF Kept
      <4> QED BY <3>5, <4>1
    <3> QED BY <3>4, <3>5
  <2> QED BY <2>1, <2>2
<1> QED BY <1>1, <1>2, <1>3, <1>4, EffectLands DEF Delivers, Moves

LEMMA ParkDoneDelivers ==
  ASSUME StoreTypeOK(Owner), NEW c \in Cont, status[c] = "ready", NEW e \in Effect, ParkDone(c, e)
  PROVE  Delivers(c, e.msg, e.to, None) /\ Moves(c, None)
<1> DEFINE s == [StatusAfterSend(e.to) EXCEPT ![c] = "done"]
           P == Settled(c, s)
           L == Losers(c, P, s)
<1>1. /\ sent' = sent \cup ({e.msg} \ {None})
      /\ claimedBy' = ClaimAfterSend(e.msg, e.to)
      /\ frames' = [frames EXCEPT ![c] = "empty"]
      /\ status' = [x \in Cont |-> IF x \in P THEN "ready" ELSE IF x \in L THEN "cancelled" ELSE s[x]]
      /\ wake' = [x \in Cont |-> IF x \in P /\ wake[x].race THEN [wake[x] EXCEPT !.winner = c]
                                 ELSE WakeAfterSend(e.msg, e.to)[x]]
  BY DEF ParkDone, WriteEffects
<1>2. /\ StatusAfterSend(e.to) \in [Cont -> Status] /\ frames \in [Cont -> ParkKind]
      /\ WakeAfterSend(e.msg, e.to) \in [Cont -> Wake] /\ wake \in [Cont -> Wake]
  BY EffectLands, StatusAfterSendType, WakeAfterSendType DEF StoreTypeOK
<1>3. c # e.to
  BY EffectLands, LandedRows
<1>4. s[c] = "done" /\ \A x \in Cont : x # c => s[x] = StatusAfterSend(e.to)[x]
  BY <1>2
<1>5. \A x \in P : wake[x].kind = "join" /\ s[x] = "sleeping"
  BY DEF Settled
<1>6. \A x \in L : x # c /\ s[x] \in {"sleeping", "ready"}
  BY DEF Losers
<1>7. \A w \in Wake : [w EXCEPT !.winner = c].kind = w.kind /\ [w EXCEPT !.winner = c].msg = w.msg
  BY DEF Wake
<1> HIDE DEF s, P, L
<1>8. Ended(c)
  <2>1. c \notin P /\ c \notin L
    BY <1>4, <1>5, <1>6
  <2>2. wake'[c] = wake[c]
    BY SMTT(60), <1>1, <1>3, <2>1, EffectLands, LandedRows
  <2> QED BY <1>1, <1>2, <1>4, <2>1, <2>2 DEF Ended
<1>9. ASSUME NEW x \in Cont, x # c PROVE IF x = e.to THEN Woken(x, e.msg) ELSE Kept(x)
  <2>1. CASE x = e.to
    <3>1. /\ status[x] = "sleeping" /\ wake[x].kind = "message" /\ s[x] = "ready"
          /\ WakeAfterSend(e.msg, e.to)[x].kind = "message"
          /\ WakeAfterSend(e.msg, e.to)[x].msg = e.msg
      BY <1>4, <1>9, <2>1, EffectLands, LandedRows
    <3>2. x \notin P
      BY <1>5, <3>1
    <3> QED BY <1>1, <1>2, <1>9, <2>1, <3>1, <3>2 DEF Woken
  <2>2. CASE x # e.to
    <3>1. s[x] = status[x] /\ WakeAfterSend(e.msg, e.to)[x] = wake[x]
      BY <1>4, <1>9, <2>2, EffectLands, LandedRows
    <3>2. wake'[x].kind = wake[x].kind /\ wake'[x].msg = wake[x].msg
      BY <1>1, <1>2, <1>7, <3>1
    <3>3. frames'[x] = frames[x]
      BY <1>1, <1>2, <1>9
    <3> QED BY <1>1, <1>5, <1>6, <2>2, <3>1, <3>2, <3>3 DEF Kept
  <2> QED BY <2>1, <2>2
<1> QED BY <1>1, <1>3, <1>8, <1>9, EffectLands DEF Delivers, Moves

\* However the machine runs, the step delivers what it was handed.
LEMMA MachineDelivers ==
  ASSUME StoreTypeOK(Owner), NEW c \in Cont, status[c] = "ready", NEW handed \in BOOLEAN,
         ParkOutcome(c, handed) \/ (handed /\ ParkChildren(c))
  PROVE  /\ \E m0 \in Msg \cup {None}, r0 \in Cont \cup {None}, n \in Msg \cup {None} :
              Delivers(c, m0, r0, n) /\ Moves(c, n)
         /\ Consume(c, handed) /\ conds' = conds
<1> DEFINE Goal == \E m0 \in Msg \cup {None}, r0 \in Cont \cup {None}, n \in Msg \cup {None} :
                      Delivers(c, m0, r0, n) /\ Moves(c, n)
<1>1. ASSUME NEW e \in Effect, NEW n \in Msg \cup {None}, Delivers(c, e.msg, e.to, n), Moves(c, n)
      PROVE  Goal
  BY <1>1, EffectType
<1> HIDE DEF Goal
<1>2. CASE ParkOutcome(c, handed)
  <2>1. Consume(c, handed)
    BY <1>2 DEF ParkOutcome
  <2>2. PICK e \in Effect :
           \/ ParkDone(c, e)
           \/ ParkTimer(c, e)
           \/ \E t \in Topic \cup {None} : ParkEvent(c, t, e) \/ ParkMessage(c, t, e)
    BY <1>2 DEF ParkOutcome
  <2>3. ASSUME ParkDone(c, e) PROVE Goal
    BY <1>1, <2>3, ParkDoneDelivers
  <2>4. ASSUME ParkTimer(c, e) PROVE Goal
    <3>1. BareWake("timer").msg = None
      BY DEF BareWake
    <3> QED BY <1>1, <2>4, <3>1, ParkSleepingDelivers DEF ParkTimer
  <2>5. ASSUME NEW t \in Topic \cup {None}, ParkEvent(c, t, e) PROVE Goal
    <3>1. EventWake(t).msg = None
      BY DEF EventWake, BareWake
    <3> QED BY <1>1, <2>5, <3>1, ParkSleepingDelivers DEF ParkEvent
  <2>6. ASSUME NEW t \in Topic \cup {None}, ParkMessage(c, t, e) PROVE Goal
    BY <1>1, <2>6, ParkMessageDelivers
  <2>7. conds' = conds
    BY <2>2 DEF ParkDone, ParkTimer, ParkEvent, ParkMessage, ParkSleeping
  <2>8. Goal
    BY <2>2, <2>3, <2>4, <2>5, <2>6
  <2> QED BY <2>1, <2>7, <2>8 DEF Goal
<1>3. CASE handed /\ ParkChildren(c)
  <2>1. PICK e \in Effect, S \in SUBSET (Cont \ {c}), race \in BOOLEAN : ParkJoin(c, S, race, e)
    BY <1>3 DEF ParkChildren
  <2>2. Goal
    BY <1>1, <2>1, ParkJoinDelivers
  <2>3. conds' = conds
    BY <2>1 DEF ParkJoin
  <2> QED BY <1>3, <2>2, <2>3 DEF ParkChildren, Goal
<1> QED BY <1>2, <1>3

\* A transaction that lands nothing.
LEMMA LandsNothing ==
  ASSUME StoreTypeOK(Owner), NEW c, sent' = sent, claimedBy' = claimedBy,
         \A x \in Cont : Kept(x) \/ Born(x) \/ (x = c /\ status[c] # "absent" /\ (Parked(x) \/ Ended(x)))
  PROVE  Delivers(c, None, None, None)
BY StoreAssumption DEF Delivers, Moves, ClaimAfterSend

LEMMA ConditionDelivers ==
  ASSUME StoreTypeOK(Owner), NEW c \in Cont, status[c] = "ready", NEW handed \in BOOLEAN,
         ParkCondition(c, handed)
  PROVE  Delivers(c, None, None, None) /\ Moves(c, None) /\ Consume(c, handed)
<1>1. /\ sent' = sent /\ claimedBy' = claimedBy /\ Consume(c, handed)
      /\ status' = [status EXCEPT ![c] = "condition"]
      /\ frames' = [frames EXCEPT ![c] = "signal"]
      /\ wake' = [wake EXCEPT ![c] = BareWake("manual")]
  BY DEF ParkCondition
<1>2. status \in [Cont -> Status] /\ frames \in [Cont -> ParkKind] /\ wake \in [Cont -> Wake]
  BY DEF StoreTypeOK
<1>3. Parked(c)
  BY <1>1, <1>2 DEF Parked, BareWake
<1>4. \A x \in Cont : x # c => Kept(x)
  BY <1>1, <1>2 DEF Kept
<1> QED BY <1>1, <1>3, <1>4, LandsNothing DEF Moves

LEMMA FailureDelivers ==
  ASSUME StoreTypeOK(Owner), NEW c \in Cont, status[c] = "ready",
         ParkFailed(c) \/ ParkCapabilityRevoked(c) \/ RecordUndecodable(c)
  PROVE  Delivers(c, None, None, None) /\ receipts' = receipts
<1>1. /\ sent' = sent /\ claimedBy' = claimedBy /\ receipts' = receipts /\ frames' = frames
      /\ status' = [status EXCEPT ![c] = "failed"] \/ status' = [status EXCEPT ![c] = "condition"]
      /\ wake' = wake \/ wake' = [wake EXCEPT ![c] = BareWake("manual")]
  BY DEF ParkFailed, ParkCapabilityRevoked, RecordUndecodable, history
<1>2. status \in [Cont -> Status] /\ wake \in [Cont -> Wake]
  BY DEF StoreTypeOK
<1>3. \A x \in Cont : wake'[x] = wake[x] \/ (x = c /\ wake'[x] = BareWake("manual"))
  BY <1>1, <1>2
<1>4. \A x \in Cont : \/ x # c /\ status'[x] = status[x]
                      \/ x = c /\ status'[x] \in {"failed", "condition"}
  BY <1>1, <1>2
<1>5. \A x \in Cont : Kept(x) \/ (x = c /\ Parked(x))
  BY <1>1, <1>3, <1>4 DEF Kept, Parked, BareWake
<1> QED BY <1>1, <1>5, LandsNothing

LEMMA SendDelivers ==
  ASSUME StoreTypeOK(Owner), NEW m \in Msg, SendChannel(m)
  PROVE  (\E r0 \in Cont \cup {None} : Delivers(None, m, r0, None)) /\ receipts' = receipts
<1>1. PICK r \in Recipient(m) : /\ status' = StatusAfterSend(r)
                                /\ wake' = WakeAfterSend(m, r)
                                /\ claimedBy' = ClaimAfterSend(m, r)
  BY DEF SendChannel
<1>2. /\ sent' = sent \cup {m} /\ m \notin sent /\ frames' = frames /\ receipts' = receipts
      /\ m # None
  BY StoreAssumption DEF SendChannel, history
<1>3. \A x \in Cont : IF x = r THEN Woken(x, m) ELSE Kept(x)
  BY <1>1, <1>2, LandedRows DEF Woken, Kept
<1> QED BY <1>1, <1>2, <1>3, RecipientType DEF Delivers

\* The other doors keep every pin, or make a row.
LEMMA DoorDelivers ==
  ASSUME StoreTypeOK(Owner),
         \/ \E c \in Cont : StartWorkflow(c) \/ Park(c)
         \/ TimerOnce
         \/ \E t \in Topic : WakeEvents(t)
         \/ \E c \in Cont : \E x \in DOMAIN conds[c] : \E choice \in Choice :
              PickRestart(c, x, choice)
  PROVE  Delivers(None, None, None, None) /\ receipts' = receipts
<1>0. status \in [Cont -> Status] /\ frames \in [Cont -> ParkKind] /\ wake \in [Cont -> Wake]
  BY SMTT(60) DEF StoreTypeOK
<1>1. sent' = sent /\ claimedBy' = claimedBy /\ receipts' = receipts
  BY DEF StartWorkflow, Park, TimerOnce, WakeEvents, WakeAll, PickRestart, history
<1>2. ASSUME NEW c \in Cont, StartWorkflow(c) \/ Park(c) PROVE \A x \in Cont : Kept(x) \/ Born(x)
  <2>1. /\ status[c] = "absent"
        /\ wake' = [wake EXCEPT ![c] = BareWake("timer")] \/ wake' = [wake EXCEPT ![c] = BareWake("manual")]
        /\ status' = [status EXCEPT ![c] = "ready"] \/ status' = [status EXCEPT ![c] = "condition"]
        /\ \A x \in Cont : x # c => frames'[x] = frames[x]
    BY <1>0, <1>2 DEF StartWorkflow, Park
  <2>2. wake'[c] \in {BareWake("timer"), BareWake("manual")} /\ status'[c] \in {"ready", "condition"}
    BY <1>0, <2>1
  <2>3. Born(c)
    BY <2>1, <2>2 DEF Born, BareWake
  <2>4. \A x \in Cont : x # c => wake'[x] = wake[x] /\ status'[x] = status[x]
    BY <1>0, <2>1
  <2>5. \A x \in Cont : x # c => Kept(x)
    BY <2>1, <2>4 DEF Kept
  <2> QED BY <2>3, <2>5
<1>3. ASSUME NEW W, WakeAll(W), \A x \in W : status[x] = "sleeping"
      PROVE  \A x \in Cont : Kept(x)
  BY <1>0, <1>3 DEF WakeAll, Kept
<1>4. ASSUME NEW c \in Cont, NEW x \in DOMAIN conds[c], NEW choice \in Choice,
             PickRestart(c, x, choice)
      PROVE  \A y \in Cont : Kept(y)
  BY <1>0, <1>4 DEF PickRestart, Kept
<1>5. \A x \in Cont : Kept(x) \/ Born(x)
  BY <1>2, <1>3, <1>4 DEF TimerOnce, WakeEvents
<1> QED BY <1>1, <1>5, LandsNothing

\* A message is received once, and then nobody is pinned to it any more.
ReceiptInv ==
  \A m \in Msg : /\ claimedBy[m] = None => receipts[m] = 0
                 /\ receipts[m] <= 1
                 /\ receipts[m] = 1 => \A x \in Cont : ~Holds(x, m)

\* What the machine is handed is what its row was pinned to.
LEMMA ConsumeIs ==
  ASSUME StoreTypeOK(Owner), PinInv, NEW c \in Cont, NEW handed \in BOOLEAN, Consume(c, handed),
         NEW m \in Msg
  PROVE  receipts'[m] = IF handed /\ Holds(c, m) THEN receipts[m] + 1 ELSE receipts[m]
<1>1. wake[c].msg \in Msg \cup {None} /\ receipts \in [Msg -> Nat]
  BY DEF StoreTypeOK, Wake
<1>2. Holds(c, m) <=> frames[c] = "wake" /\ wake[c].msg = m
  BY StoreAssumption DEF Holds, PinInv, PinsMessages
<1>3. CASE handed /\ frames[c] = "wake" /\ wake[c].msg # None
  <2>1. receipts' = [receipts EXCEPT ![wake[c].msg] = @ + 1]
    BY <1>3 DEF Consume
  <2> QED BY <1>1, <1>2, <1>3, <2>1
<1>4. CASE ~(handed /\ frames[c] = "wake" /\ wake[c].msg # None)
  <2>1. receipts' = receipts
    BY <1>4 DEF Consume
  <2> QED BY <1>2, <1>4, <2>1, StoreAssumption
<1> QED BY <1>3, <1>4

LEMMA ReceiptsKept ==
  ASSUME StoreTypeOK(Owner), PinInv, ReceiptInv, NEW c, NEW m0, NEW r0, NEW n,
         Delivers(c, m0, r0, n),
         \/ receipts' = receipts
         \/ \E handed \in BOOLEAN : c \in Cont /\ Consume(c, handed) /\ Moves(c, n)
  PROVE  ReceiptInv' /\ \A m \in Msg : receipts[m] = 1 => receipts'[m] = 1
<1> SUFFICES ASSUME NEW m \in Msg
             PROVE  /\ claimedBy'[m] = None => receipts'[m] = 0
                    /\ receipts'[m] <= 1
                    /\ receipts'[m] = 1 => \A x \in Cont : ~Holds(x, m)'
                    /\ receipts[m] = 1 => receipts'[m] = 1
  BY DEF ReceiptInv
<1>1. receipts[m] \in Nat /\ receipts[m] <= 1
  BY DEF StoreTypeOK, ReceiptInv
<1>2. CASE receipts'[m] = receipts[m]
  <2>1. claimedBy'[m] = None => receipts'[m] = 0
    BY <1>2, ClaimStands DEF ReceiptInv
  <2>2. ASSUME receipts'[m] = 1, NEW x \in Cont, Holds(x, m)' PROVE FALSE
    <3>1. receipts[m] = 1
      BY <1>2, <2>2
    <3>2. claimedBy[m] # None
      BY <3>1 DEF ReceiptInv
    <3>3. Holds(x, m)
      BY <2>2, <3>2, HoldsWas
    <3> QED BY <3>1, <3>3 DEF ReceiptInv
  <2> QED BY <1>1, <1>2, <2>1, <2>2
<1>3. CASE c \in Cont /\ Moves(c, n) /\ Holds(c, m) /\ receipts'[m] = receipts[m] + 1
  <2>1. claimedBy[m] = c /\ c # None
    BY <1>3, StoreAssumption DEF PinInv, PinnedIsClaimed
  <2>2. receipts[m] = 0
    BY <1>1, <1>3 DEF ReceiptInv
  <2>3. claimedBy'[m] # None
    BY <2>1, ClaimStands
  <2>4. ASSUME NEW x \in Cont, Holds(x, m)' PROVE FALSE
    <3>1. Holds(x, m) /\ ~Moves(x, n)
      BY <2>1, <2>4, HoldsWas
    <3>2. x = c
      BY <2>1, <3>1 DEF PinInv, PinnedIsClaimed
    <3> QED BY <1>3, <3>1, <3>2
  <2> QED BY <1>3, <2>2, <2>3, <2>4
<1>4. receipts'[m] = receipts[m] \/ (c \in Cont /\ Moves(c, n) /\ Holds(c, m) /\ receipts'[m] = receipts[m] + 1)
  BY ConsumeIs
<1> QED BY <1>2, <1>3, <1>4

---------------------------------------------------------------------------
(* No message is lost on the way, unless its receiver had a condition.     *)

Signalled(c) == conds[c] # <<>>

\* A message that is claimed was received, or is pinned, or its receiver failed,
\* lost a capability or signalled: ClaimAndResume hands it nothing.
Accounted ==
  \A m \in Msg : claimedBy[m] # None =>
    receipts[m] = 1 \/ Holds(claimedBy[m], m) \/ Signalled(claimedBy[m])

LEMMA AccountKept ==
  ASSUME StoreTypeOK(Owner), PinInv, Accounted, NEW c, NEW m0, NEW r0, NEW n,
         Delivers(c, m0, r0, n),
         \A m \in Msg : receipts[m] = 1 => receipts'[m] = 1,
         \A x \in Cont : Signalled(x) => Signalled(x)',
         c \in Cont => \/ Kept(c) \/ Signalled(c)'
                       \/ \A m \in Msg : Holds(c, m) => receipts'[m] = 1
  PROVE  Accounted'
<1> SUFFICES ASSUME NEW m \in Msg, NEW y, y = claimedBy'[m], y # None
             PROVE  receipts'[m] = 1 \/ Holds(y, m)' \/ Signalled(y)'
  BY DEF Accounted, Holds, Signalled
<1>1. CASE claimedBy[m] = None
  BY <1>1, ClaimStands
<1>2. CASE claimedBy[m] # None
  <2>1. claimedBy[m] = y /\ y \in Cont
    BY <1>2, ClaimStands DEF StoreTypeOK
  <2>2. CASE receipts[m] = 1 \/ Signalled(y)
    BY <2>1, <2>2
  <2>3. CASE Holds(y, m)
    <3>1. frames[y] = "wake" /\ wake[y].kind = "message" /\ wake[y].msg = m /\ m # None
      BY <2>3, StoreAssumption DEF Holds
    <3>2. ~Woken(y, m0) /\ ~Born(y)
      BY <2>1, <3>1 DEF Woken, Born, PinInv, SleeperWaits, AbsentClaimsNone
    <3>3. Kept(y) \/ y = c
      BY <2>1, <3>2 DEF Delivers
    <3>4. Kept(y) => Holds(y, m)'
      BY <3>1 DEF Kept, Holds
    <3> QED BY <2>1, <2>3, <3>3, <3>4
  <2> QED BY <2>1, <2>2, <2>3, <1>2 DEF Accounted
<1> QED BY <1>1, <1>2

\* Conditions are never taken away.
LEMMA SignalSignals ==
  ASSUME conds \in [Cont -> Seq(CondRow)], NEW c \in Cont, NEW class, NEW offered,
         conds' = Signal(c, class, offered)
  PROVE  Signalled(c)' /\ \A x \in Cont : Signalled(x) => Signalled(x)'
<1>1. conds'[c] = Append(conds[c], OpenCond(class, offered)) /\ \A x \in Cont : x # c => conds'[x] = conds[x]
  BY DEF Signal
<1>2. Append(conds[c], OpenCond(class, offered)) # <<>>
  BY AppendProperties
<1> QED BY <1>1, <1>2 DEF Signalled

\* Rewriting one condition row leaves as many.
LEMMA RewriteSignals ==
  ASSUME conds \in [Cont -> Seq(CondRow)],
         \A y \in Cont : conds'[y] = conds[y] \/ DOMAIN conds'[y] = DOMAIN conds[y]
  PROVE  \A y \in Cont : Signalled(y) => Signalled(y)'
<1> SUFFICES ASSUME NEW y \in Cont, conds[y] # <<>>, DOMAIN conds'[y] = DOMAIN conds[y]
             PROVE  conds'[y] # <<>>
  BY DEF Signalled
<1>1. conds[y] \in Seq(CondRow) /\ Len(conds[y]) # 0
  BY EmptySeq
<1>2. 1 \in DOMAIN conds[y]
  BY <1>1, LenProperties
<1> QED BY <1>2

LEMMA SignalsStay ==
  ASSUME TypeOK, [Next]_vars PROVE \A y \in Cont : Signalled(y) => Signalled(y)'
<1> USE DEF Signalled
<1>0. conds \in [Cont -> Seq(CondRow)]
  BY DEF TypeOK, StoreTypeOK
<1>1. ASSUME NEW c \in Cont, Steps(c) PROVE \A y \in Cont : Signalled(y) => Signalled(y)'
  <2>1. CASE \/ ParkFailed(c) \/ ParkCapabilityRevoked(c) \/ RecordUndecodable(c)
             \/ \E handed \in BOOLEAN : ParkCondition(c, handed)
    <3>1. \E class \in CondClass : conds' = Signal(c, class, TRUE)
      BY <2>1 DEF ParkFailed, ParkCapabilityRevoked, RecordUndecodable, ParkCondition, CondClass
    <3> QED BY <1>0, <3>1, SignalSignals
  <2>2. CASE ParkChildren(c) \/ \E handed \in BOOLEAN : ParkOutcome(c, handed)
    <3>1. conds' = conds
      BY ZenonT(90), <2>2 DEF ParkChildren, ParkJoin, ParkOutcome, ParkDone, ParkTimer, ParkEvent, ParkMessage,
                  ParkSleeping
    <3> QED BY <3>1
  <2> QED BY <1>1, <2>1, <2>2 DEF Steps
<1>2. ASSUME NEW c \in Cont, NEW x \in DOMAIN conds[c], NEW choice \in Choice,
             PickRestart(c, x, choice)
      PROVE  \A y \in Cont : Signalled(y) => Signalled(y)'
  <2>1. \A y \in Cont : conds'[y] = conds[y] \/ DOMAIN conds'[y] = DOMAIN conds[y]
    BY <1>0, <1>2 DEF PickRestart
  <2> QED BY <1>0, <2>1, RewriteSignals
<1>3. ASSUME NEW k \in Kernel, OfferAbort(k) PROVE \A y \in Cont : Signalled(y) => Signalled(y)'
  <2>1. \A y \in Cont : conds'[y] = conds[y] \/ DOMAIN conds'[y] = DOMAIN conds[y]
    BY <1>0, <1>3 DEF OfferAbort
  <2> QED BY <1>0, <2>1, RewriteSignals
<1>4. ASSUME NEW k \in Kernel, RecordStepFailed(k) PROVE \A y \in Cont : Signalled(y) => Signalled(y)'
  <2>1. cur[k].ref[1] \in Cont => \A y \in Cont : Signalled(y) => Signalled(y)'
    BY <1>0, <1>4, SignalSignals DEF RecordStepFailed
  <2>2. cur[k].ref[1] \notin Cont => conds' = conds
    BY <1>0, <1>4 DEF RecordStepFailed, Signal
  <2> QED BY <2>1, <2>2
<1>5. ASSUME NEW c \in Cont, Park(c) PROVE \A y \in Cont : Signalled(y) => Signalled(y)'
  BY <1>0, <1>5, SignalSignals DEF Park
<1>6. ASSUME NEW k \in Kernel, NEW h \in batch[k], StepTask(k, h) \/ StepUndecodable(k, h)
      PROVE  \A y \in Cont : Signalled(y) => Signalled(y)'
  <2>1. h.ref[1] \in Cont
    BY DEF TypeOK, Held, Ref
  <2>2. Steps(h.ref[1])
    BY <1>6 DEF StepTask, StepUndecodable, Steps
  <2> QED BY <1>1, <2>1, <2>2
<1>7. ASSUME NEW k \in Kernel, Drain(k) PROVE \A y \in Cont : Signalled(y) => Signalled(y)'
  <2>1. ASSUME NEW h \in batch[k], StepLost(k, h) \/ StepError(k, h) PROVE conds' = conds
    BY <2>1 DEF StepLost, StepError, storeVars, rowVars
  <2>2. ASSUME (\E S \in SUBSET {r \in Refs : Row(r).status = "ready"} : ClaimTasks(k, S))
               \/ FinishTask(k) \/ MarkDead(k)
        PROVE  conds' = conds
    BY <2>2 DEF ClaimTasks, FinishTask, MarkDead
  <2> QED BY <1>3, <1>4, <1>6, <1>7, <2>1, <2>2 DEF Drain
<1>8. ASSUME NEW c \in Cont, ResumeDirect(c) PROVE \A y \in Cont : Signalled(y) => Signalled(y)'
  BY <1>1, <1>8 DEF ResumeDirect, Steps
<1>9. ASSUME \/ \E k \in Kernel : AbandonPass(k) \/ Crash(k)
             \/ \E r \in Refs : Reap(r)
             \/ \E c \in Cont : Start(c) \/ ResumeDropped(c)
             \/ \E m \in Msg : Send(m)
             \/ ScanTimers
             \/ \E t \in Topic : Mutate(t)
             \/ UNCHANGED vars
      PROVE  conds' = conds
  BY <1>9 DEF AbandonPass, Crash, Reap, Start, StartWorkflow, ResumeDropped, Send, SendChannel,
              ScanTimers, TimerOnce, Mutate, WakeEvents, WakeAll, vars, storeVars, rowVars
<1> QED BY <1>2, <1>5, <1>7, <1>8, <1>9 DEF Next, Operator, ResolveCondition, ParkRequest

\* Who resumes a row directly has answered a condition of it.
DirectSignalled == \A c \in direct : Signalled(c)

LEMMA DirectStays ==
  ASSUME TypeOK, DirectSignalled, [Next]_vars PROVE DirectSignalled'
<1>1. \A c \in direct' : c \in direct \/ Signalled(c)
  <2>1. ASSUME NEW c \in Cont, NEW x \in DOMAIN conds[c], NEW choice \in Choice,
               ResolveCondition(c, x, choice)
        PROVE  \A y \in direct' : y \in direct \/ Signalled(y)
    BY SMTT(60), <2>1 DEF ResolveCondition, Signalled
  <2>2. ASSUME NEW k \in Kernel, Drain(k) \/ AbandonPass(k) \/ Crash(k) PROVE direct' = direct
    BY <2>2 DEF Drain, ClaimTasks, StepTask, StepUndecodable, StepLost, StepError, FinishTask,
                MarkDead, RecordStepFailed, OfferAbort, AbandonPass, Crash
  <2>3. ASSUME \/ \E r \in Refs : Reap(r)
               \/ \E c \in Cont : Start(c) \/ ParkRequest(c)
               \/ \E m \in Msg : Send(m)
               \/ ScanTimers
               \/ \E t \in Topic : Mutate(t)
               \/ UNCHANGED vars
        PROVE  direct' = direct
    BY <2>3 DEF Reap, Start, ParkRequest, Send, ScanTimers, Mutate, vars, reactorVars
  <2>4. ASSUME NEW c \in Cont, ResumeDirect(c) \/ ResumeDropped(c) PROVE direct' \subseteq direct
    BY <2>4 DEF ResumeDirect, ResumeDropped
  <2> QED BY <2>1, <2>2, <2>3, <2>4 DEF Next, Operator
<1>2. direct' \subseteq Cont
  <2>1. ASSUME NEW c \in Cont, NEW x, NEW choice, ResolveCondition(c, x, choice)
        PROVE  direct' \subseteq Cont
    BY <2>1 DEF ResolveCondition, TypeOK
  <2>2. ASSUME NEW k \in Kernel, Drain(k) \/ AbandonPass(k) \/ Crash(k) PROVE direct' = direct
    BY <2>2 DEF Drain, ClaimTasks, StepTask, StepUndecodable, StepLost, StepError, FinishTask,
                MarkDead, RecordStepFailed, OfferAbort, AbandonPass, Crash
  <2>3. ASSUME \/ \E r \in Refs : Reap(r)
               \/ \E c \in Cont : Start(c) \/ ParkRequest(c)
               \/ \E m \in Msg : Send(m)
               \/ ScanTimers
               \/ \E t \in Topic : Mutate(t)
               \/ UNCHANGED vars
        PROVE  direct' = direct
    BY <2>3 DEF Reap, Start, ParkRequest, Send, ScanTimers, Mutate, vars, reactorVars
  <2>4. ASSUME NEW c \in Cont, ResumeDirect(c) \/ ResumeDropped(c) PROVE direct' \subseteq direct
    BY <2>4 DEF ResumeDirect, ResumeDropped
  <2> QED BY <2>1, <2>2, <2>3, <2>4 DEF Next, Operator, TypeOK
<1> QED BY <1>1, <1>2, SignalsStay DEF DirectSignalled, TypeOK

MsgInv == PinInv /\ ReceiptInv /\ Accounted /\ DirectSignalled

\* The store's part of it, over a transaction of c.
StoreMsg == PinInv /\ ReceiptInv /\ Accounted

\* Every message stays, or moves on as the channel promises.
Passes == \A m \in Msg : Channel!Pass(m)

LEMMA DeliveryPasses ==
  ASSUME StoreTypeOK(Owner), StoreMsg, NEW c, NEW m0, NEW r0, NEW n, Delivers(c, m0, r0, n),
         \/ receipts' = receipts
         \/ \E handed \in BOOLEAN : c \in Cont /\ Consume(c, handed)
  PROVE  Passes
<1> SUFFICES ASSUME NEW m \in Msg PROVE Channel!Pass(m)
  BY DEF Passes
<1>1. claimedBy[m] \in Cont \cup {None} /\ receipts[m] \in Nat
  BY DEF StoreTypeOK
<1>2. m \in sent => m \in sent'
  BY DEF Delivers
<1>3. m \notin sent => claimedBy[m] = None
  BY DEF StoreMsg, PinInv, SentFirst
<1>4. /\ claimedBy[m] # None => claimedBy'[m] = claimedBy[m]
      /\ claimedBy[m] = None /\ claimedBy'[m] # None => m \in sent' /\ claimedBy'[m] \in Cont
  BY ClaimStands DEF StoreMsg
<1>5. CASE receipts'[m] = receipts[m]
  BY <1>1, <1>2, <1>3, <1>4, <1>5
     DEF Channel!Pass, Channel!Idle, Channel!Send, Channel!Hand
<1>6. CASE c \in Cont /\ Holds(c, m) /\ receipts'[m] = receipts[m] + 1
  <2>1. claimedBy[m] = c /\ c # None
    BY <1>6, StoreAssumption DEF StoreMsg, PinInv, PinnedIsClaimed
  <2>2. receipts[m] <= 1 /\ receipts[m] # 1
    BY <1>6 DEF StoreMsg, ReceiptInv
  <2>3. receipts[m] = 0 /\ receipts'[m] = 1
    BY <1>1, <1>6, <2>2
  <2> QED BY <1>2, <1>3, <1>4, <2>1, <2>3 DEF Channel!Pass, Channel!Read
<1>7. receipts'[m] = receipts[m] \/ (c \in Cont /\ Holds(c, m) /\ receipts'[m] = receipts[m] + 1)
  BY ConsumeIs DEF StoreMsg
<1> QED BY <1>5, <1>6, <1>7

\* A transaction that runs no machine, or one whose machine is handed nothing.
LEMMA QuietKeeps ==
  ASSUME StoreTypeOK(Owner), StoreMsg, NEW c, NEW m0, NEW r0, NEW n, Delivers(c, m0, r0, n),
         receipts' = receipts, \A x \in Cont : Signalled(x) => Signalled(x)',
         c \in Cont => Kept(c) \/ Signalled(c)'
  PROVE  StoreMsg' /\ Passes
<1>1. PinInv'
  BY DeliveryPins DEF StoreMsg
<1>2. ReceiptInv' /\ \A m \in Msg : receipts[m] = 1 => receipts'[m] = 1
  BY ReceiptsKept DEF StoreMsg
<1>3. Accounted'
  BY <1>2, AccountKept DEF StoreMsg
<1>4. Passes
  BY DeliveryPasses
<1> QED BY <1>1, <1>2, <1>3, <1>4 DEF StoreMsg

\* However a step ends: the drain loop hands over what is pinned, and the direct
\* resume, which does not, is of a row that had a condition.
LEMMA StepKeeps ==
  ASSUME StoreTypeOK(Owner), StoreMsg, NEW c \in Cont, status[c] = "ready", NEW handed \in BOOLEAN,
         \A x \in Cont : Signalled(x) => Signalled(x)',
         handed \/ Signalled(c),
         \/ ParkOutcome(c, handed) \/ (handed /\ ParkChildren(c)) \/ ParkCondition(c, handed)
         \/ ParkFailed(c) \/ ParkCapabilityRevoked(c) \/ RecordUndecodable(c)
  PROVE  StoreMsg' /\ Passes
<1>1. CASE ParkOutcome(c, handed) \/ (handed /\ ParkChildren(c))
  <2>1. PICK m0 \in Msg \cup {None}, r0 \in Cont \cup {None}, n \in Msg \cup {None} :
          Delivers(c, m0, r0, n) /\ Moves(c, n)
    BY <1>1, MachineDelivers
  <2>2. Consume(c, handed)
    BY <1>1, MachineDelivers
  <2>3. PinInv'
    BY <2>1, DeliveryPins DEF StoreMsg
  <2>4. ReceiptInv' /\ \A m \in Msg : receipts[m] = 1 => receipts'[m] = 1
    BY <2>1, <2>2, ReceiptsKept DEF StoreMsg
  <2>5. ASSUME handed, NEW m \in Msg, Holds(c, m) PROVE receipts'[m] = 1
    <3>1. receipts'[m] = receipts[m] + 1
      BY <2>2, <2>5, ConsumeIs DEF StoreMsg
    <3>2. receipts[m] \in Nat /\ receipts[m] <= 1 /\ receipts[m] # 1
      BY <2>5 DEF StoreMsg, ReceiptInv, StoreTypeOK
    <3> QED BY <3>1, <3>2
  <2>6. Accounted'
    BY <2>1, <2>4, <2>5, AccountKept DEF StoreMsg
  <2>7. Passes
    BY <2>1, <2>2, DeliveryPasses
  <2> QED BY <2>3, <2>4, <2>6, <2>7 DEF StoreMsg
<1>2. CASE ParkCondition(c, handed)
  <2>1. Delivers(c, None, None, None) /\ Moves(c, None) /\ Consume(c, handed)
    BY <1>2, ConditionDelivers
  <2>2. Signalled(c)'
    BY <1>2, SignalSignals DEF ParkCondition, StoreTypeOK
  <2>3. PinInv'
    BY <2>1, DeliveryPins DEF StoreMsg
  <2>4. ReceiptInv' /\ \A m \in Msg : receipts[m] = 1 => receipts'[m] = 1
    BY <2>1, ReceiptsKept DEF StoreMsg
  <2>5. Accounted'
    BY <2>1, <2>2, <2>4, AccountKept DEF StoreMsg
  <2>6. Passes
    BY <2>1, DeliveryPasses
  <2> QED BY <2>3, <2>4, <2>5, <2>6 DEF StoreMsg
<1>3. CASE ParkFailed(c) \/ ParkCapabilityRevoked(c) \/ RecordUndecodable(c)
  <2>1. Delivers(c, None, None, None) /\ receipts' = receipts
    BY <1>3, FailureDelivers
  <2>2. Signalled(c)'
    BY <1>3, SignalSignals DEF ParkFailed, ParkCapabilityRevoked, RecordUndecodable, StoreTypeOK
  <2> QED BY <2>1, <2>2, QuietKeeps
<1> QED BY <1>1, <1>2, <1>3

\* An action that writes no row of these.
LEMMA StillKeeps ==
  ASSUME StoreTypeOK(Owner), StoreMsg, \A x \in Cont : Signalled(x) => Signalled(x)',
         UNCHANGED <<status, frames, wake, sent, claimedBy, receipts>>
  PROVE  StoreMsg' /\ Passes
<1>1. Delivers(None, None, None, None)
  BY LandsNothing DEF Kept
<1> QED BY <1>1, StoreAssumption, QuietKeeps

LEMMA NextKeeps == ASSUME TypeOK, MsgInv, [Next]_vars PROVE MsgInv' /\ Passes
<1>0. StoreTypeOK(Owner) /\ StoreMsg /\ \A x \in Cont : Signalled(x) => Signalled(x)'
  BY SignalsStay DEF TypeOK, Owner, MsgInv, StoreMsg
<1>1. ASSUME NEW k \in Kernel, Drain(k) PROVE StoreMsg' /\ Passes
  <2>1. ASSUME NEW h \in batch[k], StepTask(k, h) \/ StepUndecodable(k, h) PROVE StoreMsg' /\ Passes
    <3>1. h.ref[1] \in Cont
      BY DEF TypeOK, Held, Ref
    <3>2. status[h.ref[1]] = "ready"
      BY <2>1 DEF StepTask, StepUndecodable, ClaimWins
    <3>3. \/ ParkOutcome(h.ref[1], TRUE) \/ ParkChildren(h.ref[1]) \/ ParkCondition(h.ref[1], TRUE)
          \/ ParkFailed(h.ref[1]) \/ ParkCapabilityRevoked(h.ref[1]) \/ RecordUndecodable(h.ref[1])
      BY <2>1 DEF StepTask, StepUndecodable
    <3> QED BY <1>0, <3>1, <3>2, <3>3, StepKeeps
  <2>2. ASSUME NEW h \in batch[k], StepLost(k, h) \/ StepError(k, h) PROVE StoreMsg' /\ Passes
    BY <1>0, <2>2, StillKeeps DEF StepLost, StepError, storeVars, rowVars, history
  <2>3. ASSUME NEW S, ClaimTasks(k, S) PROVE StoreMsg' /\ Passes
    BY <1>0, <2>3, StillKeeps DEF ClaimTasks, history
  <2>4. ASSUME FinishTask(k) \/ MarkDead(k) \/ RecordStepFailed(k) \/ OfferAbort(k) PROVE StoreMsg' /\ Passes
    BY <1>0, <2>4, StillKeeps DEF FinishTask, MarkDead, RecordStepFailed, OfferAbort, history
  <2> QED BY <1>1, <2>1, <2>2, <2>3, <2>4 DEF Drain
<1>2. ASSUME \/ \E k \in Kernel : AbandonPass(k) \/ Crash(k)
             \/ \E r \in Refs : Reap(r)
             \/ \E c \in Cont : ResumeDropped(c)
             \/ UNCHANGED vars
      PROVE  StoreMsg' /\ Passes
  BY <1>0, <1>2, StillKeeps
     DEF AbandonPass, Crash, Reap, ResumeDropped, vars, storeVars, rowVars, history
<1>3. ASSUME \/ \E c \in Cont : Start(c) \/ ParkRequest(c)
             \/ ScanTimers
             \/ \E t \in Topic : Mutate(t)
             \/ \E c \in Cont : \E x \in DOMAIN conds[c] : \E choice \in Choice :
                  ResolveCondition(c, x, choice)
      PROVE  StoreMsg' /\ Passes
  <2>1. Delivers(None, None, None, None) /\ receipts' = receipts
    BY <1>0, <1>3, DoorDelivers DEF Start, ParkRequest, ScanTimers, Mutate, ResolveCondition
  <2> QED BY <1>0, <2>1, StoreAssumption, QuietKeeps
<1>4. ASSUME NEW m \in Msg, Send(m) PROVE StoreMsg' /\ Passes
  <2>1. PICK r0 \in Cont \cup {None} : Delivers(None, m, r0, None)
    BY <1>0, <1>4, SendDelivers DEF Send
  <2>2. receipts' = receipts
    BY <1>0, <1>4, SendDelivers DEF Send
  <2> QED BY <1>0, <2>1, <2>2, StoreAssumption, QuietKeeps
<1>5. ASSUME NEW c \in Cont, ResumeDirect(c) PROVE StoreMsg' /\ Passes
  <2>1. Signalled(c) /\ status[c] = "ready"
    BY <1>5 DEF ResumeDirect, MsgInv, DirectSignalled
  <2>2. \/ ParkOutcome(c, FALSE) \/ ParkCondition(c, FALSE) \/ ParkFailed(c)
        \/ ParkCapabilityRevoked(c) \/ RecordUndecodable(c)
    BY <1>5 DEF ResumeDirect
  <2> QED BY <1>0, <2>1, <2>2, StepKeeps
<1>6. StoreMsg' /\ Passes
  BY <1>1, <1>2, <1>3, <1>4, <1>5 DEF Next, Operator
<1> QED BY <1>6, DirectStays DEF MsgInv, StoreMsg

LEMMA InitKeeps == ASSUME Init PROVE MsgInv
<1>1. /\ status = [c \in Cont |-> "absent"] /\ frames = [c \in Cont |-> "empty"]
      /\ wake = [c \in Cont |-> BareWake("timer")] /\ claimedBy = [m \in Msg |-> None]
      /\ receipts = [m \in Msg |-> 0] /\ direct = {}
  BY DEF Init, StoreInit
<1>2. BareWake("timer").msg = None /\ BareWake("timer").kind = "timer"
  BY DEF BareWake
<1>3. PinInv
  BY <1>1, <1>2, StoreAssumption
     DEF PinInv, SentFirst, SleeperWaits, PinsMessages, AbsentClaimsNone, PinnedIsClaimed, Holds
<1> QED BY <1>1, <1>3 DEF MsgInv, ReceiptInv, Accounted, DirectSignalled

LEMMA MessagesKeep == Spec => []MsgInv
<1>1. Init => MsgInv
  BY InitKeeps
<1>2. TypeOK /\ MsgInv /\ [Next]_vars => MsgInv'
  BY NextKeeps
<1> QED BY <1>1, <1>2, TypeCorrect, PTL DEF Spec

(* No two receivers are handed one message, over every interleaving of     *)
(* sends, receives, zombies, restarts and direct resumes: what a row is    *)
(* pinned to is claimed for it.                                            *)
THEOREM PinnedAreClaimed == Spec => []PinnedIsClaimed
<1>1. MsgInv => PinnedIsClaimed
  BY DEF MsgInv, PinInv
<1> QED BY <1>1, MessagesKeep, PTL

(* A message is consumed by one checkpointed step at most, whatever is     *)
(* retried, reaped, resumed directly or restarted.                         *)
THEOREM ReceivedAtMostOnce == Spec => []ReceivedOnce
<1>1. MsgInv => ReceivedOnce
  BY DEF MsgInv, ReceiptInv, ReceivedOnce
<1> QED BY <1>1, MessagesKeep, PTL

(* The channels of the store implement MessageChannel: claims are final    *)
(* and receipts follow them, whatever the other continuations do in the    *)
(* same transaction.                                                       *)
THEOREM StoreImplementsChannel == Spec => ImplementsChannel
<1>1. Init => Channel!Init
  BY DEF Init, StoreInit, Channel!Init
<1>2. TypeOK' /\ MsgInv' /\ Passes => Channel!Next
  <2> SUFFICES ASSUME TypeOK', MsgInv', Passes PROVE Channel!Next
    OBVIOUS
  <2>1. /\ sent' \in SUBSET Msg /\ claimedBy' \in [Msg -> Cont \cup {None}]
        /\ receipts' \in [Msg -> Nat]
    BY DEF TypeOK, StoreTypeOK
  <2>2. receipts' \in [Msg -> {0, 1}]
    <3>1. \A m \in Msg : receipts'[m] \in Nat /\ receipts'[m] <= 1
      BY <2>1 DEF MsgInv, ReceiptInv
    <3>2. \A m \in Msg : receipts'[m] \in {0, 1}
      BY <3>1
    <3> QED BY <2>1, <3>2
  <2> QED BY <2>1, <2>2 DEF Passes, Channel!Next
<1>3. TypeOK /\ MsgInv /\ [Next]_vars => Passes
  BY NextKeeps
<1>4. TypeOK /\ TypeOK' /\ MsgInv /\ MsgInv' /\ [Next]_vars
        => [Channel!Next]_<<sent, claimedBy, receipts>>
  BY <1>2, <1>3
<1> QED BY <1>1, <1>4, MessagesKeep, TypeCorrect, PTL DEF Spec, ImplementsChannel, Channel!Spec

(* A claimed message was consumed, or is still pinned to the receiver that *)
(* will be handed it, or its receiver has had a condition: an operator's   *)
(* restart resumes the row without its message, and a revoked capability   *)
(* overwrites the pin.  Nothing else loses one.                            *)
THEOREM ClaimsAccounted == Spec => []Accounted
<1>1. MsgInv => Accounted
  BY DEF MsgInv
<1> QED BY <1>1, MessagesKeep, PTL

(* ... so none is lost as long as no continuation has a condition.         *)
THEOREM ClaimedAreDelivered ==
  Spec /\ [](\A c \in Cont : conds[c] = <<>>) => []ClaimedIsDelivered
<1>1. TypeOK /\ MsgInv /\ (\A c \in Cont : conds[c] = <<>>) => ClaimedIsDelivered
  BY DEF TypeOK, StoreTypeOK, MsgInv, Accounted, Signalled, ClaimedIsDelivered
<1> QED BY <1>1, MessagesKeep, TypeCorrect, PTL

---------------------------------------------------------------------------
(* Joins: a parent, its children, and the quorum the children compute.     *)

\* The children of a join are rows of their own and know their parent.
Family == \A p \in Cont : \A x \in wake[p].children :
            parent[x] = p /\ status[x] # "absent" /\ x # p

BelowQuorum == \A p \in Cont : Joining(p) /\ status[p] = "sleeping" =>
                 Cardinality(DoneChildren(p)) < Quorum(wake[p])

LosersOver == \A p \in Cont : wake[p].winner # None => \A x \in wake[p].children :
                status[x] \in {"done", "cancelled"} \/ Signalled(x)

StopsSignalled == \A c \in Cont : status[c] \in {"condition", "failed"} => Signalled(c)

\* A row stopped by a condition has left its join.
NoJoinHeld == \A p \in Cont : status[p] = "condition" => ~Joining(p)

JoinInv == Family /\ BelowQuorum /\ LosersOver /\ StopsSignalled /\ NoJoinHeld

\* A step of c has failed or a task of c has died: a condition says so.
HasFailed(c) == \E i \in DOMAIN conds[c] : conds[c][i].class = "step.failed"

\* A condition of c that is open holds c, and is its last.
RowHeld(c) == \A i \in DOMAIN conds[c] : conds[c][i].status = "open" =>
                /\ status[c] \in {"condition", "failed"}
                /\ \A j \in DOMAIN conds[c] : j <= i

\* A parent that has been resumed was resumed by its children.
Joined(p) == Joining(p) /\ status[p] \in {"ready", "failed"} =>
               IF wake[p].race THEN wake[p].winner \in DoneChildren(p)
                               ELSE DoneChildren(p) = wake[p].children

\* Rows that a dead task may have left a condition, whatever they were doing.
Spoiled(p) == HasFailed(p) \/ \E x \in wake[p].children : HasFailed(x)

ResumeInv == \A c \in Cont : (HasFailed(c) \/ RowHeld(c)) /\ (Spoiled(c) \/ Joined(c))

\* What the next state of a join rests on, and what it is without dead tasks.
Sound(p) == RowHeld(p) /\ Joined(p) /\ \A x \in wake[p].children : RowHeld(x)
AllSound == \A c \in Cont : RowHeld(c) /\ Joined(c)

\* What a transaction does to the row of x.
KeepsJoin(x) == /\ wake'[x].kind = wake[x].kind /\ wake'[x].children = wake[x].children
                /\ wake'[x].race = wake[x].race /\ wake'[x].winner = wake[x].winner
Bare(x) == wake'[x].kind # "join" /\ wake'[x].children = {} /\ wake'[x].winner = None

\* The conditions of x are as they were, but for their offers.
CondsKept(x) == /\ DOMAIN conds'[x] = DOMAIN conds[x]
                /\ \A i \in DOMAIN conds[x] : /\ conds'[x][i].status = conds[x][i].status
                                               /\ conds'[x][i].class = conds[x][i].class

Same(x) == status'[x] = status[x] /\ KeepsJoin(x) /\ CondsKept(x)

Roused(x) == /\ status[x] = "sleeping" /\ status'[x] = "ready"
             /\ wake[x].kind # "join" /\ KeepsJoin(x) /\ CondsKept(x)

Reparked(x) == /\ status[x] = "ready" /\ status'[x] \in {"sleeping", "ready"}
               /\ Bare(x) /\ CondsKept(x)

Started(x) == status[x] = "absent" /\ status'[x] = "ready" /\ Bare(x) /\ CondsKept(x)

Stopped(x) ==
  /\ \E class \in CondClass : conds'[x] = Append(conds[x], OpenCond(class, TRUE))
  /\ \/ status[x] \in {"ready", "absent"} /\ status'[x] = "condition" /\ Bare(x)
     \/ status[x] = "ready" /\ status'[x] = "failed" /\ KeepsJoin(x)

Answered(x) ==
  /\ status'[x] = "ready" /\ KeepsJoin(x)
  /\ DOMAIN conds'[x] = DOMAIN conds[x]
  /\ \E i \in DOMAIN conds[x] :
       /\ conds[x][i].status = "open" /\ conds'[x][i].status # "open"
       /\ \A j \in DOMAIN conds[x] \ {i} : conds'[x][j].status = conds[x][j].status
  /\ \A j \in DOMAIN conds[x] : conds'[x][j].class = conds[x][j].class

\* A dead task leaves x a condition, whatever x is doing.
Flagged(x) == status'[x] = status[x] /\ KeepsJoin(x) /\ HasFailed(x)'

\* A transaction that forms no join and finishes no row.
Quiet(x) == /\ parent'[x] = parent[x]
            /\ Same(x) \/ Roused(x) \/ Reparked(x) \/ Started(x) \/ Stopped(x) \/ Answered(x)

Mild(x) == Quiet(x) \/ (parent'[x] = parent[x] /\ Flagged(x))

LEMMA MildRow ==
  ASSUME StoreTypeOK(Owner), NEW x \in Cont, Mild(x)
  PROVE  /\ parent'[x] = parent[x]
         /\ KeepsJoin(x) \/ Bare(x)
         /\ status'[x] = "done" => status[x] = "done"
         /\ status'[x] = "sleeping" => Bare(x) \/ (status[x] = "sleeping" /\ KeepsJoin(x))
         /\ status[x] # "absent" => status'[x] # "absent"
         /\ status[x] \in {"done", "cancelled"} => status'[x] = status[x] \/ Signalled(x)
         /\ status'[x] \in {"condition", "failed"} => status'[x] = status[x] \/ Signalled(x)'
         /\ status'[x] = "condition" => Bare(x) \/ (status[x] = "condition" /\ KeepsJoin(x))
<1>0. conds[x] \in Seq(CondRow)
  BY DEF StoreTypeOK
<1>1. CASE Same(x) \/ Roused(x) \/ Reparked(x) \/ Started(x) \/ Flagged(x)
  BY <1>1 DEF Mild, Quiet, Same, Roused, Reparked, Started, Flagged
<1>2. CASE Stopped(x)
  <2>1. Signalled(x)'
    <3>1. PICK class \in CondClass : conds'[x] = Append(conds[x], OpenCond(class, TRUE))
      BY <1>2 DEF Stopped
    <3>2. OpenCond(class, TRUE) \in CondRow
      BY DEF OpenCond, CondRow, Choice
    <3>3. Append(conds[x], OpenCond(class, TRUE)) # <<>>
      BY ZenonT(90), <1>0, <3>2, AppendProperties
    <3> QED BY <3>1, <3>3 DEF Signalled
  <2> QED BY <1>2, <2>1 DEF Mild, Quiet, Stopped, Flagged
<1>3. CASE Answered(x)
  <2>1. Signalled(x)
    BY <1>3 DEF Answered, Signalled
  <2> QED BY <1>3, <2>1 DEF Mild, Quiet, Answered, Flagged
<1> QED BY <1>1, <1>2, <1>3 DEF Mild, Quiet

LEMMA DoneChildrenFinite ==
  ASSUME StoreTypeOK(Owner), NEW p \in Cont
  PROVE  /\ IsFiniteSet(wake[p].children) /\ wake[p].children \subseteq Cont
         /\ IsFiniteSet(DoneChildren(p))
         /\ Cardinality(DoneChildren(p)) \in Nat /\ Cardinality(wake[p].children) \in Nat
<1>1. wake[p].children \subseteq Cont
  BY DEF StoreTypeOK, Wake
<1>2. DoneChildren(p) \subseteq wake[p].children
  BY DEF DoneChildren
<1> QED BY <1>1, <1>2, StoreAssumption, FS_Subset, FS_CardinalityType

\* A transaction that finishes none of its children leaves a parent below its quorum.
LEMMA StillBelow ==
  ASSUME StoreTypeOK(Owner), BelowQuorum, NEW p \in Cont, KeepsJoin(p), status[p] = "sleeping",
         Joining(p)', \A x \in wake[p].children : status'[x] = "done" => status[x] = "done"
  PROVE  Cardinality(DoneChildren(p)') < Quorum(wake[p])'
<1>1. DoneChildren(p)' \subseteq DoneChildren(p)
  BY DEF DoneChildren, KeepsJoin
<1>2. Cardinality(DoneChildren(p)') \in Nat
      /\ Cardinality(DoneChildren(p)') <= Cardinality(DoneChildren(p))
  BY <1>1, DoneChildrenFinite, FS_Subset, FS_CardinalityType
<1>3. Quorum(wake[p])' = Quorum(wake[p])
  BY DEF Quorum, KeepsJoin
<1>4. Cardinality(DoneChildren(p)) < Quorum(wake[p])
  BY DEF BelowQuorum, Joining, KeepsJoin
<1>5. Quorum(wake[p]) \in Nat
  BY DoneChildrenFinite DEF Quorum
<1> QED BY <1>2, <1>3, <1>4, <1>5, DoneChildrenFinite

LEMMA MildJoins ==
  ASSUME StoreTypeOK(Owner), JoinInv, \A x \in Cont : Mild(x),
         \A x \in Cont : Signalled(x) => Signalled(x)'
  PROVE  JoinInv'
<1>0. \A p \in Cont : wake[p].children \subseteq Cont
  BY DEF StoreTypeOK, Wake
<1>1. Family'
  <2> SUFFICES ASSUME NEW p \in Cont, NEW x \in wake'[p].children
               PROVE  parent'[x] = p /\ status'[x] # "absent" /\ x # p
    BY DEF Family
  <2>1. KeepsJoin(p)
    BY MildRow DEF Bare
  <2>2. x \in wake[p].children /\ x \in Cont
    BY <1>0, <2>1 DEF KeepsJoin
  <2> QED BY <2>2, MildRow DEF JoinInv, Family
<1>2. BelowQuorum'
  <2> SUFFICES ASSUME NEW p \in Cont, Joining(p)', status'[p] = "sleeping"
               PROVE  Cardinality(DoneChildren(p)') < Quorum(wake[p])'
    BY DEF BelowQuorum
  <2>1. status[p] = "sleeping" /\ KeepsJoin(p)
    BY MildRow DEF Bare, Joining
  <2> QED BY <1>0, <2>1, MildRow, StillBelow DEF JoinInv
<1>3. LosersOver'
  <2> SUFFICES ASSUME NEW p \in Cont, wake'[p].winner # None, NEW x \in wake'[p].children
               PROVE  status'[x] \in {"done", "cancelled"} \/ Signalled(x)'
    BY DEF LosersOver
  <2>1. KeepsJoin(p)
    BY MildRow DEF Bare
  <2>2. x \in wake[p].children /\ x \in Cont /\ wake[p].winner # None
    BY <1>0, <2>1 DEF KeepsJoin
  <2> QED BY <2>2, MildRow DEF JoinInv, LosersOver
<1>4. StopsSignalled'
  BY MildRow DEF JoinInv, StopsSignalled
<1>5. NoJoinHeld'
  <2> SUFFICES ASSUME NEW p \in Cont, status'[p] = "condition" PROVE ~Joining(p)'
    BY DEF NoJoinHeld
  <2>1. Bare(p) \/ (status[p] = "condition" /\ KeepsJoin(p))
    BY MildRow
  <2> QED BY <2>1 DEF Bare, KeepsJoin, Joining, JoinInv, NoJoinHeld
<1> QED BY <1>1, <1>2, <1>3, <1>4, <1>5 DEF JoinInv

\* A condition of a class stays one.
LEMMA FailedRow ==
  ASSUME StoreTypeOK(Owner), NEW x \in Cont, Mild(x), HasFailed(x) PROVE HasFailed(x)'
<1>0. conds[x] \in Seq(CondRow)
  BY DEF StoreTypeOK
<1>1. CASE Same(x) \/ Roused(x) \/ Reparked(x) \/ Started(x)
  BY <1>1 DEF Same, Roused, Reparked, Started, CondsKept, HasFailed
<1>2. CASE Stopped(x)
  <2> DEFINE n == Len(conds[x])
  <2>1. PICK class \in CondClass : conds'[x] = Append(conds[x], OpenCond(class, TRUE))
    BY <1>2 DEF Stopped
  <2>2. OpenCond(class, TRUE) \in CondRow
    BY DEF OpenCond, CondRow, Choice
  <2>3. /\ Len(conds'[x]) = n + 1 /\ conds'[x] \in Seq(CondRow)
        /\ \A k \in 1..n : conds'[x][k] = conds[x][k]
    <3> DEFINE o == OpenCond(class, TRUE)
    <3> HIDE DEF o
    <3>1. o \in CondRow /\ conds'[x] = Append(conds[x], o)
      BY <2>1, <2>2 DEF o
    <3> QED BY <1>0, <3>1, AppendProperties
  <2>4. DOMAIN conds'[x] = 1..(n + 1) /\ DOMAIN conds[x] = 1..n /\ n \in Nat
    BY <1>0, <2>3, LenProperties
  <2> HIDE DEF n
  <2> QED BY <2>3, <2>4 DEF HasFailed
<1>3. CASE Answered(x)
  BY <1>3 DEF Answered, HasFailed
<1> QED BY <1>1, <1>2, <1>3 DEF Mild, Quiet, Flagged

LEMMA QuietRow ==
  ASSUME StoreTypeOK(Owner), NEW x \in Cont, RowHeld(x), Quiet(x)
  PROVE  /\ status[x] \in {"done", "cancelled"} => status'[x] = status[x]
         /\ Joining(x)' /\ status'[x] \in {"ready", "failed"} =>
              status[x] \in {"ready", "failed"} \/ (status[x] = "condition" /\ Joining(x))
<1>1. CASE Same(x) \/ Roused(x) \/ Reparked(x) \/ Started(x) \/ Stopped(x)
  BY <1>1 DEF Quiet, Same, Roused, Reparked, Started, Stopped, Bare, Joining, KeepsJoin
<1>2. CASE Answered(x)
  <2>1. status[x] \in {"condition", "failed"}
    BY <1>2 DEF Answered, RowHeld
  <2> QED BY <1>2, <2>1 DEF Answered, Joining, KeepsJoin
<1> QED BY <1>1, <1>2 DEF Quiet

\* A condition that is open after the transaction holds its row and is the last.
LEMMA OpenStays ==
  ASSUME StoreTypeOK(Owner), NEW x \in Cont, RowHeld(x), Quiet(x),
         NEW i \in DOMAIN conds'[x], conds'[x][i].status = "open"
  PROVE  status'[x] \in {"condition", "failed"} /\ \A j \in DOMAIN conds'[x] : j <= i
<1>0. conds[x] \in Seq(CondRow)
  BY DEF StoreTypeOK
<1>1. CASE Same(x) \/ Roused(x) \/ Reparked(x) \/ Started(x)
  BY <1>1 DEF Same, Roused, Reparked, Started, CondsKept, RowHeld
<1>2. CASE Stopped(x)
  <2>1. PICK class \in CondClass : conds'[x] = Append(conds[x], OpenCond(class, TRUE))
    BY <1>2 DEF Stopped
  <2>2. OpenCond(class, TRUE) \in CondRow
    BY DEF OpenCond, CondRow, Choice
  <2>3. \A k \in DOMAIN conds[x] : conds[x][k].status # "open"
    BY <1>2 DEF Stopped, RowHeld
  <2>4. /\ Len(conds'[x]) = Len(conds[x]) + 1 /\ conds'[x] \in Seq(CondRow)
        /\ \A k \in 1..Len(conds[x]) : conds'[x][k] = conds[x][k]
    <3> DEFINE o == OpenCond(class, TRUE)
    <3> HIDE DEF o
    <3>1. o \in CondRow /\ conds'[x] = Append(conds[x], o)
      BY <2>1, <2>2 DEF o
    <3> QED BY <1>0, <3>1, AppendProperties
  <2>5. DOMAIN conds'[x] = 1..(Len(conds[x]) + 1) /\ DOMAIN conds[x] = 1..Len(conds[x])
        /\ Len(conds[x]) \in Nat
    BY <1>0, <2>4, LenProperties
  <2>6. i = Len(conds[x]) + 1
    BY <2>3, <2>4, <2>5
  <2> QED BY <1>2, <2>5, <2>6 DEF Stopped
<1>3. CASE Answered(x)
  <2>1. PICK k \in DOMAIN conds[x] :
          /\ conds[x][k].status = "open" /\ conds'[x][k].status # "open"
          /\ \A j \in DOMAIN conds[x] \ {k} : conds'[x][j].status = conds[x][j].status
    BY <1>3 DEF Answered
  <2>2. i \in DOMAIN conds[x] /\ i # k /\ conds[x][i].status = "open"
    BY <1>3, <2>1 DEF Answered
  <2>3. i <= k /\ k <= i /\ i \in Nat /\ k \in Nat
    BY <1>0, <2>1, <2>2, LenProperties DEF RowHeld
  <2> QED BY <2>2, <2>3
<1> QED BY <1>1, <1>2, <1>3 DEF Quiet

LEMMA MildHeld ==
  ASSUME StoreTypeOK(Owner), NEW x \in Cont, RowHeld(x), Mild(x)
  PROVE  /\ RowHeld(x)' \/ (HasFailed(x)' /\ ~Quiet(x))
         /\ status[x] \in {"done", "cancelled"} => status'[x] = status[x]
<1>1. CASE Quiet(x)
  <2>1. RowHeld(x)'
    BY <1>1, OpenStays DEF RowHeld
  <2> QED BY <1>1, <2>1, QuietRow
<1>2. CASE ~Quiet(x)
  BY <1>2 DEF Mild, Flagged
<1> QED BY <1>1, <1>2

\* A transaction that forms no join and finishes no row resumes no parent.
LEMMA MildJoined ==
  ASSUME StoreTypeOK(Owner), NoJoinHeld, \A x \in Cont : Mild(x), NEW p \in Cont,
         wake'[p].children = wake[p].children => Sound(p)
  PROVE  Joined(p)'
<1> SUFFICES ASSUME Joining(p)', status'[p] \in {"ready", "failed"}
             PROVE  IF wake'[p].race THEN wake'[p].winner \in DoneChildren(p)'
                                     ELSE DoneChildren(p)' = wake'[p].children
  BY DEF Joined
<1>1. KeepsJoin(p)
  BY MildRow DEF Bare, Joining
<1>2. Sound(p) /\ Joining(p)
  BY <1>1 DEF KeepsJoin, Joining
<1>3. status[p] \in {"ready", "failed"}
  <2>1. CASE Quiet(p)
    BY <1>2, <2>1, QuietRow DEF Sound, NoJoinHeld
  <2>2. CASE Flagged(p)
    BY <2>2 DEF Flagged
  <2> QED BY <2>1, <2>2 DEF Mild
<1>4. wake[p].children \subseteq Cont
  BY DEF StoreTypeOK, Wake
<1>5. ASSUME NEW x \in wake[p].children PROVE status'[x] = "done" <=> status[x] = "done"
  BY <1>2, <1>4, <1>5, MildRow, MildHeld DEF Sound
<1>6. DoneChildren(p)' = DoneChildren(p)
  BY <1>1, <1>5 DEF DoneChildren, KeepsJoin
<1> QED BY <1>1, <1>2, <1>3, <1>6 DEF KeepsJoin, Sound, Joined

\* What landing a message does to the join of a row: nothing.
LEMMA LandedJoins ==
  ASSUME StoreTypeOK(Owner), NEW m0 \in Msg \cup {None}, NEW r0, NEW x \in Cont,
         IF m0 = None THEN r0 = None ELSE m0 \in Msg \ sent /\ r0 \in Recipient(m0)
  PROVE  /\ WakeAfterSend(m0, r0)[x].kind = wake[x].kind
         /\ WakeAfterSend(m0, r0)[x].children = wake[x].children
         /\ WakeAfterSend(m0, r0)[x].race = wake[x].race
         /\ WakeAfterSend(m0, r0)[x].winner = wake[x].winner
         /\ \/ StatusAfterSend(r0)[x] = status[x]
            \/ /\ status[x] = "sleeping" /\ StatusAfterSend(r0)[x] = "ready"
               /\ wake[x].kind = "message"
<1>1. wake \in [Cont -> Wake]
  BY DEF StoreTypeOK
<1>2. \A w \in Wake : /\ [w EXCEPT !.msg = m0].kind = w.kind
                      /\ [w EXCEPT !.msg = m0].children = w.children
                      /\ [w EXCEPT !.msg = m0].race = w.race
                      /\ [w EXCEPT !.msg = m0].winner = w.winner
  BY DEF Wake
<1>3. StatusAfterSend(r0)[x] = status[x] \/ (status[x] = "sleeping" /\ StatusAfterSend(r0)[x] = "ready" /\ wake[x].kind = "message")
  BY LandedRows
<1> QED BY <1>1, <1>2, <1>3 DEF WakeAfterSend

\* A transaction that lands e and writes no other row than those of W.
LEMMA LandedQuiet ==
  ASSUME StoreTypeOK(Owner), NEW e \in Effect, NEW x \in Cont,
         status'[x] = StatusAfterSend(e.to)[x], wake'[x] = WakeAfterSend(e.msg, e.to)[x],
         parent'[x] = parent[x], conds'[x] = conds[x]
  PROVE  Quiet(x) /\ (Same(x) \/ Roused(x))
<1>1. /\ e.msg \in Msg \cup {None}
      /\ IF e.msg = None THEN e.to = None ELSE e.msg \in Msg \ sent /\ e.to \in Recipient(e.msg)
  BY EffectLands
<1>2. KeepsJoin(x)
  BY <1>1, LandedJoins DEF KeepsJoin
<1>3. \/ status'[x] = status[x]
      \/ status[x] = "sleeping" /\ status'[x] = "ready" /\ wake[x].kind = "message"
  BY <1>1, LandedJoins
<1>4. CondsKept(x)
  BY DEF CondsKept
<1> QED BY <1>2, <1>3, <1>4 DEF Quiet, Same, Roused

\* The rows once c has parked on the children S it created.
LEMMA JoinRows ==
  ASSUME StoreTypeOK(Owner), NEW c \in Cont, status[c] = "ready", NEW S \in SUBSET (Cont \ {c}),
         NEW race \in BOOLEAN, NEW e \in Effect, ParkJoin(c, S, race, e)
  PROVE  /\ status'[c] = "sleeping" /\ wake'[c] = JoinWake(S, race) /\ parent'[c] = parent[c]
         /\ CondsKept(c)
         /\ \A x \in S : parent'[x] = c /\ Started(x)
         /\ \A x \in Cont \ S : x # c => Quiet(x) /\ (Same(x) \/ Roused(x))
<1>1. status'[c] = "sleeping" /\ wake'[c] = JoinWake(S, race) /\ parent'[c] = parent[c] /\ CondsKept(c)
  BY DEF ParkJoin, CondsKept
<1>2. ASSUME NEW x \in S PROVE parent'[x] = c /\ Started(x)
  <2>1. x \in Cont /\ x # c /\ status[x] = "absent" /\ status'[x] = "ready"
        /\ wake'[x] = BareWake("timer") /\ parent'[x] = c /\ conds' = conds
    BY DEF ParkJoin
  <2>2. Bare(x)
    BY <2>1 DEF Bare, BareWake
  <2> QED BY <2>1, <2>2 DEF Started, CondsKept
<1>3. ASSUME NEW x \in Cont \ S, x # c PROVE Quiet(x) /\ (Same(x) \/ Roused(x))
  <2>1. /\ status'[x] = StatusAfterSend(e.to)[x] /\ wake'[x] = WakeAfterSend(e.msg, e.to)[x]
        /\ parent'[x] = parent[x] /\ conds'[x] = conds[x]
    BY <1>3 DEF ParkJoin
  <2> QED BY <2>1, LandedQuiet
<1> QED BY <1>1, <1>2, <1>3

LEMMA ParkJoinJoins ==
  ASSUME StoreTypeOK(Owner), JoinInv, NEW c \in Cont, status[c] = "ready",
         NEW S \in SUBSET (Cont \ {c}), NEW race \in BOOLEAN, NEW e \in Effect,
         ParkJoin(c, S, race, e), \A x \in Cont : Signalled(x) => Signalled(x)'
  PROVE  JoinInv'
<1>0. \A p \in Cont : wake[p].children \subseteq Cont
  BY DEF StoreTypeOK, Wake
<1>1. JoinWake(S, race).children = S /\ JoinWake(S, race).winner = None
      /\ JoinWake(S, race).race = race
  BY DEF JoinWake, BareWake
<1>2. \A x \in S : status[x] = "absent"
  BY DEF ParkJoin
\* The children of another parent are neither new nor c asleep.
<1>3. ASSUME NEW p \in Cont, p # c, p \notin S
      PROVE  /\ KeepsJoin(p)
             /\ \A x \in wake[p].children :
                  /\ parent'[x] = p /\ status'[x] # "absent" /\ x # p
                  /\ status'[x] = "done" => status[x] = "done"
                  /\ status[x] \in {"done", "cancelled"} => status'[x] = status[x]
  <2>1. KeepsJoin(p)
    BY <1>3, JoinRows DEF Same, Roused
  <2>2. ASSUME NEW x \in wake[p].children
        PROVE  /\ parent'[x] = p /\ status'[x] # "absent" /\ x # p
               /\ status'[x] = "done" => status[x] = "done"
               /\ status[x] \in {"done", "cancelled"} => status'[x] = status[x]
    <3>1. x \in Cont \ S /\ parent[x] = p /\ status[x] # "absent" /\ x # p
      BY <1>0, <1>2, <2>2 DEF JoinInv, Family
    <3>2. CASE x = c
      BY <3>1, <3>2, JoinRows
    <3>3. CASE x # c
      BY <3>1, <3>3, JoinRows DEF Quiet, Same, Roused
    <3> QED BY <3>2, <3>3
  <2> QED BY <2>1, <2>2
<1>4. \A p \in S : Bare(p) /\ status'[p] = "ready"
  BY JoinRows DEF Started
<1>5. Family'
  <2> SUFFICES ASSUME NEW p \in Cont, NEW x \in wake'[p].children
               PROVE  parent'[x] = p /\ status'[x] # "absent" /\ x # p
    BY DEF Family
  <2>1. CASE p = c
    BY <1>1, <2>1, JoinRows DEF Started
  <2>2. CASE p \in S
    BY <1>4, <2>2 DEF Bare
  <2>3. CASE p # c /\ p \notin S
    BY <1>3, <2>3 DEF KeepsJoin
  <2> QED BY <2>1, <2>2, <2>3
<1>6. BelowQuorum'
  <2> SUFFICES ASSUME NEW p \in Cont, Joining(p)', status'[p] = "sleeping"
               PROVE  Cardinality(DoneChildren(p)') < Quorum(wake[p])'
    BY DEF BelowQuorum
  <2>1. CASE p = c
    <3>1. wake'[p].children = S /\ wake'[p].race = race /\ S # {}
      BY <1>1, <2>1, JoinRows DEF Joining
    <3>2. DoneChildren(p)' = {}
      BY <3>1, <1>4 DEF DoneChildren
    <3>3. IsFiniteSet(S)
      BY StoreAssumption, FS_Subset
    <3>4. Cardinality(S) \in Nat /\ Cardinality(S) # 0
      BY <3>1, <3>3, FS_CardinalityType, FS_EmptySet
    <3>5. Cardinality(DoneChildren(p)') = 0
      BY <3>2, FS_EmptySet
    <3> QED BY <3>1, <3>4, <3>5 DEF Quorum
  <2>2. CASE p \in S
    BY <1>4, <2>2
  <2>3. CASE p # c /\ p \notin S
    <3>1. status[p] = "sleeping"
      BY <2>3, JoinRows DEF Same, Roused
    <3> QED BY <1>3, <2>3, <3>1, StillBelow DEF JoinInv
  <2> QED BY <2>1, <2>2, <2>3
<1>7. LosersOver'
  <2> SUFFICES ASSUME NEW p \in Cont, wake'[p].winner # None, NEW x \in wake'[p].children
               PROVE  status'[x] \in {"done", "cancelled"} \/ Signalled(x)'
    BY DEF LosersOver
  <2>1. p # c /\ p \notin S
    BY <1>1, <1>4, JoinRows DEF Bare
  <2>2. x \in wake[p].children /\ x \in Cont /\ wake[p].winner # None
    BY <1>0, <1>3, <2>1 DEF KeepsJoin
  <2>3. status[x] \in {"done", "cancelled"} \/ Signalled(x)
    BY <2>2 DEF JoinInv, LosersOver
  <2> QED BY <1>3, <2>1, <2>2, <2>3
<1>8. StopsSignalled'
  <2> SUFFICES ASSUME NEW x \in Cont, status'[x] \in {"condition", "failed"} PROVE Signalled(x)'
    BY DEF StopsSignalled
  <2>1. status'[x] = status[x]
    BY <1>4, JoinRows DEF Same, Roused
  <2> QED BY <2>1 DEF JoinInv, StopsSignalled
<1>9. NoJoinHeld'
  <2> SUFFICES ASSUME NEW p \in Cont, status'[p] = "condition" PROVE ~Joining(p)'
    BY DEF NoJoinHeld
  <2>1. Same(p)
    BY <1>4, JoinRows DEF Roused
  <2> QED BY <2>1 DEF Same, KeepsJoin, Joining, JoinInv, NoJoinHeld
<1> QED BY <1>5, <1>6, <1>7, <1>8, <1>9 DEF JoinInv

LEMMA ParkJoinHeld ==
  ASSUME StoreTypeOK(Owner), NEW c \in Cont, status[c] = "ready", NEW S \in SUBSET (Cont \ {c}),
         NEW race \in BOOLEAN, NEW e \in Effect, ParkJoin(c, S, race, e), NEW x \in Cont
  PROVE  /\ RowHeld(x) => RowHeld(x)'
         /\ HasFailed(x) => HasFailed(x)'
         /\ status[x] \in {"done", "cancelled"} => status'[x] = status[x]
         /\ status'[x] = "done" => status[x] = "done"
<1>1. \A y \in S : status[y] = "absent" /\ status'[y] = "ready" /\ CondsKept(y)
  BY JoinRows DEF Started
<1>2. CondsKept(x)
  BY <1>1, JoinRows DEF Same, Roused
<1>3. status[x] \in {"condition", "failed", "done", "cancelled"} => status'[x] = status[x]
  BY <1>1, JoinRows DEF Same, Roused
<1>4. status'[x] = "done" => status[x] = "done"
  BY <1>1, JoinRows DEF Same, Roused
<1> QED BY <1>2, <1>3, <1>4 DEF CondsKept, RowHeld, HasFailed

LEMMA ParkJoinJoined ==
  ASSUME StoreTypeOK(Owner), NEW c \in Cont, status[c] = "ready", NEW S \in SUBSET (Cont \ {c}),
         NEW race \in BOOLEAN, NEW e \in Effect, ParkJoin(c, S, race, e), NEW p \in Cont,
         wake'[p].children = wake[p].children => Sound(p)
  PROVE  Joined(p)'
<1> SUFFICES ASSUME Joining(p)', status'[p] \in {"ready", "failed"}
             PROVE  IF wake'[p].race THEN wake'[p].winner \in DoneChildren(p)'
                                     ELSE DoneChildren(p)' = wake'[p].children
  BY DEF Joined
<1>1. p # c /\ p \notin S
  BY JoinRows DEF Started, Bare, Joining
<1>2. Same(p)
  BY <1>1, JoinRows DEF Roused, Joining, KeepsJoin
<1>3. IF wake[p].race THEN wake[p].winner \in DoneChildren(p)
                      ELSE DoneChildren(p) = wake[p].children
  BY <1>2 DEF Same, KeepsJoin, Joining, Sound, Joined
<1>4. wake[p].children \subseteq Cont
  BY DEF StoreTypeOK, Wake
<1>5. DoneChildren(p)' = DoneChildren(p)
  BY <1>2, <1>4, ParkJoinHeld DEF DoneChildren, Same, KeepsJoin
<1> QED BY <1>2, <1>3, <1>5 DEF Same, KeepsJoin

\* The children of p that are done once c is.
Finished(c, p) == {x \in wake[p].children : status[x] = "done" \/ x = c}

\* c has finished and settles the parents P (one or none), whose losers it cancels.
Settles(c, P) ==
  /\ P \subseteq Cont \ {c}
  /\ status'[c] = "done" /\ KeepsJoin(c)
  /\ \A p \in P : /\ p = parent[c] /\ wake[p].kind = "join"
                  /\ status[p] = "sleeping" /\ status'[p] = "ready"
                  /\ Cardinality(Finished(c, p)) >= Quorum(wake[p])
                  /\ wake'[p].kind = "join" /\ wake'[p].children = wake[p].children
                  /\ wake'[p].race = wake[p].race
                  /\ wake'[p].winner = IF wake[p].race THEN c ELSE wake[p].winner
                  /\ \A x \in wake[p].children \ (P \cup {c}) :
                       wake[p].race => status'[x] \notin {"sleeping", "ready"}
  /\ \A x \in Cont \ (P \cup {c}) :
       /\ KeepsJoin(x)
       /\ \/ status'[x] = status[x]
          \/ status[x] = "sleeping" /\ status'[x] = "ready" /\ wake[x].kind # "join"
          \/ status[x] \in {"sleeping", "ready"} /\ status'[x] = "cancelled"
       /\ status'[x] = "sleeping" /\ parent[c] = x /\ wake[x].kind = "join" =>
            ~(Cardinality(Finished(c, x)) >= Quorum(wake[x]))

LEMMA DoneRows ==
  ASSUME StoreTypeOK(Owner), NEW c \in Cont, status[c] = "ready", NEW e \in Effect, ParkDone(c, e)
  PROVE  /\ parent' = parent /\ conds' = conds
         /\ \E P \in SUBSET Cont : Settles(c, P)
<1> DEFINE s == [StatusAfterSend(e.to) EXCEPT ![c] = "done"]
           P == Settled(c, s)
           L == Losers(c, P, s)
<1>0. /\ e.msg \in Msg \cup {None} /\ e.to \in Cont \cup {None}
      /\ IF e.msg = None THEN e.to = None ELSE e.msg \in Msg \ sent /\ e.to \in Recipient(e.msg)
  BY EffectLands, EffectType
<1>1. /\ status' = [x \in Cont |-> IF x \in P THEN "ready" ELSE IF x \in L THEN "cancelled" ELSE s[x]]
      /\ wake' = [x \in Cont |-> IF x \in P /\ wake[x].race THEN [wake[x] EXCEPT !.winner = c]
                                 ELSE WakeAfterSend(e.msg, e.to)[x]]
      /\ parent' = parent /\ conds' = conds
  BY DEF ParkDone
<1>2. /\ wake \in [Cont -> Wake] /\ parent \in [Cont -> Cont \cup {None}]
      /\ StatusAfterSend(e.to) \in [Cont -> Status]
  BY <1>0, StatusAfterSendType DEF StoreTypeOK
<1>3. /\ s[c] = "done"
      /\ \A x \in Cont : x # c => s[x] = StatusAfterSend(e.to)[x]
  BY <1>2
<1>4. ASSUME NEW x \in Cont, x # c
      PROVE  \/ s[x] = status[x]
             \/ status[x] = "sleeping" /\ s[x] = "ready" /\ wake[x].kind = "message"
  <2>1. s[x] = StatusAfterSend(e.to)[x]
    BY <1>3, <1>4
  <2> HIDE DEF s
  <2> QED BY <1>0, <2>1, LandedJoins
<1> HIDE DEF s
<1>5. ASSUME NEW p \in Cont PROVE {x \in wake[p].children : s[x] = "done"} = Finished(c, p)
  <2>1. wake[p].children \subseteq Cont
    BY <1>2 DEF Wake
  <2> QED BY <2>1, <1>3, <1>4 DEF Finished
<1>6. \A p \in P : /\ p \in Cont /\ p # c /\ p = parent[c] /\ wake[p].kind = "join"
                   /\ s[p] = "sleeping" /\ Cardinality(Finished(c, p)) >= Quorum(wake[p])
  BY <1>2, <1>3, <1>5 DEF Settled
<1>7. \A p \in Cont : s[p] = "sleeping" /\ parent[c] = p /\ wake[p].kind = "join"
                        /\ Cardinality(Finished(c, p)) >= Quorum(wake[p]) => p \in P
  BY <1>5, StoreAssumption DEF Settled
<1>8. \A x \in L : x # c /\ s[x] \in {"sleeping", "ready"}
  BY DEF Losers
<1>9. \A p \in P : wake[p].race => \A x \in wake[p].children \ {c} :
        s[x] \in {"sleeping", "ready"} => x \in L
  BY <1>2, <1>6 DEF Losers, Wake
<1> HIDE DEF P, L
<1>10. \A x \in Cont : /\ ~(x \in P /\ wake[x].race) => KeepsJoin(x)
                       /\ x \in P /\ wake[x].race => /\ wake'[x].kind = wake[x].kind
                                                     /\ wake'[x].children = wake[x].children
                                                     /\ wake'[x].race = wake[x].race
                                                     /\ wake'[x].winner = c
  <2>1. \A w \in Wake : /\ [w EXCEPT !.winner = c].kind = w.kind
                        /\ [w EXCEPT !.winner = c].children = w.children
                        /\ [w EXCEPT !.winner = c].race = w.race
                        /\ [w EXCEPT !.winner = c].winner = c
    BY DEF Wake
  <2>2. ASSUME NEW x \in Cont, ~(x \in P /\ wake[x].race) PROVE KeepsJoin(x)
    <3>1. wake'[x] = WakeAfterSend(e.msg, e.to)[x]
      BY <1>1, <2>2
    <3> QED BY <1>0, <3>1, LandedJoins DEF KeepsJoin
  <2>3. ASSUME NEW x \in Cont, x \in P /\ wake[x].race PROVE wake'[x] = [wake[x] EXCEPT !.winner = c]
    BY <1>1, <2>3
  <2>4. ASSUME NEW x \in Cont, x \in P /\ wake[x].race
        PROVE  /\ wake'[x].kind = wake[x].kind /\ wake'[x].children = wake[x].children
               /\ wake'[x].race = wake[x].race /\ wake'[x].winner = c
    <3>1. wake[x] \in Wake
      BY <1>2
    <3> QED BY ZenonT(90), <2>1, <2>3, <2>4, <3>1
  <2> QED BY <2>2, <2>4
<1>11. status'[c] = "done" /\ KeepsJoin(c)
  BY <1>1, <1>3, <1>6, <1>8, <1>10
<1>12. ASSUME NEW p \in P
       PROVE  /\ p = parent[c] /\ wake[p].kind = "join"
              /\ status[p] = "sleeping" /\ status'[p] = "ready"
              /\ Cardinality(Finished(c, p)) >= Quorum(wake[p])
              /\ wake'[p].kind = "join" /\ wake'[p].children = wake[p].children
              /\ wake'[p].race = wake[p].race
              /\ wake'[p].winner = IF wake[p].race THEN c ELSE wake[p].winner
              /\ \A x \in wake[p].children \ (P \cup {c}) :
                   wake[p].race => status'[x] \notin {"sleeping", "ready"}
  <2>1. /\ p = parent[c] /\ wake[p].kind = "join"
        /\ status[p] = "sleeping" /\ status'[p] = "ready"
        /\ Cardinality(Finished(c, p)) >= Quorum(wake[p])
    BY <1>1, <1>4, <1>6
  <2>2. /\ wake'[p].kind = "join" /\ wake'[p].children = wake[p].children
        /\ wake'[p].race = wake[p].race
        /\ wake'[p].winner = IF wake[p].race THEN c ELSE wake[p].winner
    BY <1>6, <1>10, <2>1 DEF KeepsJoin
  <2>3. ASSUME NEW x \in wake[p].children \ (P \cup {c}), wake[p].race
        PROVE  status'[x] \notin {"sleeping", "ready"}
    <3>1. x \in Cont
      BY <1>2, <1>6 DEF Wake
    <3>2. status'[x] = IF x \in L THEN "cancelled" ELSE s[x]
      BY <1>1, <2>3, <3>1
    <3> QED BY <1>9, <2>3, <3>2
  <2> QED BY <2>1, <2>2, <2>3
<1>13. ASSUME NEW x \in Cont \ (P \cup {c})
       PROVE  /\ KeepsJoin(x)
              /\ \/ status'[x] = status[x]
                 \/ status[x] = "sleeping" /\ status'[x] = "ready" /\ wake[x].kind # "join"
                 \/ status[x] \in {"sleeping", "ready"} /\ status'[x] = "cancelled"
              /\ status'[x] = "sleeping" /\ parent[c] = x /\ wake[x].kind = "join" =>
                   ~(Cardinality(Finished(c, x)) >= Quorum(wake[x]))
  <2>1. status'[x] = IF x \in L THEN "cancelled" ELSE s[x]
    BY <1>1
  <2>2. \/ status'[x] = status[x]
        \/ status[x] = "sleeping" /\ status'[x] = "ready" /\ wake[x].kind # "join"
        \/ status[x] \in {"sleeping", "ready"} /\ status'[x] = "cancelled"
    BY <1>4, <1>8, <2>1
  <2>3. status'[x] = "sleeping" => s[x] = "sleeping"
    BY <2>1
  <2> QED BY <1>7, <1>10, <2>2, <2>3
<1>14. Settles(c, P)
  BY <1>6, <1>11, <1>12, <1>13 DEF Settles
<1> QED BY <1>1, <1>6, <1>14

\* Finishing c makes no other row done, and undoes none.
LEMMA DoneStays ==
  ASSUME StoreTypeOK(Owner), NEW c \in Cont, status[c] = "ready", NEW P, Settles(c, P)
  PROVE  /\ \A x \in Cont : status'[x] = "done" <=> status[x] = "done" \/ x = c
         /\ \A x \in Cont : status[x] \in {"done", "cancelled"} => status'[x] = status[x]
         /\ \A x \in Cont : status[x] # "absent" => status'[x] # "absent"
<1> SUFFICES ASSUME NEW x \in Cont
             PROVE  /\ status'[x] = "done" <=> status[x] = "done" \/ x = c
                    /\ status[x] \in {"done", "cancelled"} => status'[x] = status[x]
                    /\ status[x] # "absent" => status'[x] # "absent"
  OBVIOUS
<1>1. CASE x = c
  BY <1>1 DEF Settles
<1>2. CASE x \in P
  BY <1>2 DEF Settles
<1>3. CASE x \in Cont \ (P \cup {c})
  BY <1>3 DEF Settles
<1> QED BY <1>1, <1>2, <1>3

LEMMA FinishedIs ==
  ASSUME StoreTypeOK(Owner), NEW c \in Cont, status[c] = "ready", NEW P, Settles(c, P),
         NEW p \in Cont, wake'[p].children = wake[p].children
  PROVE  DoneChildren(p)' = Finished(c, p)
<1>1. wake[p].children \subseteq Cont
  BY DEF StoreTypeOK, Wake
<1> QED BY <1>1, DoneStays DEF DoneChildren, Finished

LEMMA FinishedSize ==
  ASSUME StoreTypeOK(Owner), NEW c \in Cont, NEW p \in Cont
  PROVE  /\ Finished(c, p) \subseteq wake[p].children
         /\ DoneChildren(p) \subseteq Finished(c, p)
         /\ c \notin wake[p].children => Finished(c, p) = DoneChildren(p)
         /\ Cardinality(Finished(c, p)) \in Nat /\ Quorum(wake[p]) \in Nat
         /\ Cardinality(Finished(c, p)) >= Cardinality(wake[p].children) =>
              Finished(c, p) = wake[p].children
<1>1. Finished(c, p) \subseteq wake[p].children
  BY DEF Finished
<1>2. IsFiniteSet(wake[p].children) /\ Cardinality(wake[p].children) \in Nat
  BY DoneChildrenFinite
<1>3. /\ IsFiniteSet(Finished(c, p)) /\ Cardinality(Finished(c, p)) <= Cardinality(wake[p].children)
      /\ Cardinality(Finished(c, p)) = Cardinality(wake[p].children) =>
           Finished(c, p) = wake[p].children
  BY <1>1, <1>2, FS_Subset
<1>4. Cardinality(Finished(c, p)) \in Nat
  BY <1>3, FS_CardinalityType
<1>5. Quorum(wake[p]) \in Nat
  BY <1>2 DEF Quorum
<1>6. DoneChildren(p) \subseteq Finished(c, p)
      /\ (c \notin wake[p].children => Finished(c, p) = DoneChildren(p))
  BY DEF Finished, DoneChildren
<1> QED BY <1>1, <1>2, <1>3, <1>4, <1>5, <1>6

LEMMA SettleJoins ==
  ASSUME StoreTypeOK(Owner), JoinInv, NEW c \in Cont, status[c] = "ready", NEW P, Settles(c, P),
         parent' = parent, conds' = conds
  PROVE  JoinInv'
<1>0. /\ \A p \in Cont : wake[p].children \subseteq Cont
      /\ status \in [Cont -> Status]
  BY DEF StoreTypeOK, Wake
<1>1. \A p \in Cont : wake'[p].children = wake[p].children /\ wake'[p].race = wake[p].race
                      /\ wake'[p].kind = wake[p].kind
  BY DEF Settles, KeepsJoin
<1>2. Family'
  BY <1>0, <1>1, DoneStays DEF JoinInv, Family
<1>3. BelowQuorum'
  <2> SUFFICES ASSUME NEW p \in Cont, Joining(p)', status'[p] = "sleeping"
               PROVE  Cardinality(DoneChildren(p)') < Quorum(wake[p])'
    BY DEF BelowQuorum
  <2>1. p \in Cont \ (P \cup {c}) /\ status[p] = "sleeping"
    BY DEF Settles
  <2>2. Joining(p) /\ Quorum(wake[p])' = Quorum(wake[p])
    BY <1>1 DEF Joining, Quorum
  <2>3. DoneChildren(p)' = Finished(c, p)
    BY <1>1, FinishedIs
  <2>4. CASE parent[c] = p
    <3>1. ~(Cardinality(Finished(c, p)) >= Quorum(wake[p]))
      BY <2>1, <2>2, <2>4 DEF Settles, Joining
    <3> QED BY <2>2, <2>3, <3>1, FinishedSize
  <2>5. CASE parent[c] # p
    <3>1. c \notin wake[p].children
      BY <2>5 DEF JoinInv, Family
    <3>2. Cardinality(DoneChildren(p)) < Quorum(wake[p])
      BY <2>1, <2>2 DEF JoinInv, BelowQuorum
    <3>3. Finished(c, p) = DoneChildren(p)
      BY <3>1, FinishedSize
    <3> QED BY <2>2, <2>3, <3>2, <3>3
  <2> QED BY <2>4, <2>5
<1>4. LosersOver'
  <2> SUFFICES ASSUME NEW p \in Cont, wake'[p].winner # None, NEW x \in wake'[p].children
               PROVE  status'[x] \in {"done", "cancelled"} \/ Signalled(x)'
    BY DEF LosersOver
  <2>1. x \in wake[p].children /\ x \in Cont
    BY <1>0, <1>1
  <2>2. CASE p \in P /\ wake[p].race
    <3>1. status[x] # "absent" /\ x # p
      BY <2>1 DEF JoinInv, Family
    <3>2. CASE x = c
      BY <3>2 DEF Settles
    <3>3. CASE x # c
      <4>1. x \notin P
        BY <2>2, <3>1 DEF Settles
      <4>2. status'[x] \notin {"sleeping", "ready"}
        BY <2>1, <2>2, <3>3, <4>1 DEF Settles
      <4>3. status'[x] = status[x] \/ status'[x] = "cancelled"
        BY <2>1, <3>3, <4>1, <4>2 DEF Settles
      <4>4. status[x] \in Status
        BY <1>0, <2>1
      <4>5. status'[x] \in {"done", "cancelled", "condition", "failed"}
        BY <3>1, <4>2, <4>3, <4>4 DEF Status
      <4>6. status[x] \in {"condition", "failed"} => Signalled(x)'
        BY <2>1 DEF JoinInv, StopsSignalled, Signalled
      <4> QED BY <4>3, <4>5, <4>6
    <3> QED BY <3>2, <3>3
  <2>3. CASE ~(p \in P /\ wake[p].race)
    <3>1. wake[p].winner # None
      BY <2>3 DEF Settles, KeepsJoin
    <3>2. status[x] \in {"done", "cancelled"} \/ Signalled(x)
      BY <2>1, <3>1 DEF JoinInv, LosersOver
    <3> QED BY <2>1, <3>2, DoneStays DEF Signalled
  <2> QED BY <2>2, <2>3
<1>5. StopsSignalled'
  <2> SUFFICES ASSUME NEW x \in Cont, status'[x] \in {"condition", "failed"} PROVE Signalled(x)'
    BY DEF StopsSignalled
  <2>1. status[x] = status'[x]
    BY DEF Settles
  <2> QED BY <2>1 DEF JoinInv, StopsSignalled, Signalled
<1>6. NoJoinHeld'
  <2> SUFFICES ASSUME NEW p \in Cont, status'[p] = "condition" PROVE ~Joining(p)'
    BY DEF NoJoinHeld
  <2>1. status[p] = "condition"
    BY DEF Settles
  <2> QED BY <1>1, <2>1 DEF Joining, JoinInv, NoJoinHeld
<1> QED BY <1>2, <1>3, <1>4, <1>5, <1>6 DEF JoinInv

LEMMA SettleHeld ==
  ASSUME StoreTypeOK(Owner), NEW c \in Cont, status[c] = "ready", NEW P,
         Settles(c, P), conds' = conds, NEW x \in Cont
  PROVE  /\ RowHeld(x) => RowHeld(x)'
         /\ HasFailed(x) => HasFailed(x)'
         /\ status[x] \in {"done", "cancelled"} => status'[x] = status[x]
<1>1. status[x] \in {"condition", "failed"} => status'[x] = status[x]
  BY DEF Settles
<1> QED BY <1>1, DoneStays DEF RowHeld, HasFailed

LEMMA SettleJoined ==
  ASSUME StoreTypeOK(Owner), JoinInv, NEW c \in Cont, status[c] = "ready", NEW P,
         Settles(c, P), NEW p \in Cont, wake'[p].children = wake[p].children => Sound(p)
  PROVE  Joined(p)'
<1> SUFFICES ASSUME Joining(p)', status'[p] \in {"ready", "failed"}
             PROVE  IF wake'[p].race THEN wake'[p].winner \in DoneChildren(p)'
                                     ELSE DoneChildren(p)' = wake'[p].children
  BY DEF Joined
<1>0. wake'[p].children = wake[p].children /\ wake'[p].race = wake[p].race
      /\ wake'[p].kind = wake[p].kind
  BY DEF Settles, KeepsJoin
<1>1. Joining(p) /\ DoneChildren(p)' = Finished(c, p)
  BY <1>0, FinishedIs DEF Joining
<1>2. CASE p \in P
  <2>1. status[p] = "sleeping" /\ Cardinality(Finished(c, p)) >= Quorum(wake[p])
    BY <1>2 DEF Settles
  <2>2. Cardinality(DoneChildren(p)) < Quorum(wake[p])
    BY <1>1, <2>1 DEF JoinInv, BelowQuorum
  <2>3. c \in wake[p].children
    BY <2>1, <2>2, FinishedSize, DoneChildrenFinite
  <2>4. CASE wake[p].race
    <3>1. wake'[p].winner = c /\ c \in Finished(c, p)
      BY <1>2, <2>3, <2>4 DEF Settles, Finished
    <3> QED BY <1>0, <1>1, <2>4, <3>1
  <2>5. CASE ~wake[p].race
    <3>1. Finished(c, p) = wake[p].children
      BY <2>1, <2>5, FinishedSize DEF Quorum
    <3> QED BY <1>0, <1>1, <2>5, <3>1
  <2> QED BY <2>4, <2>5
<1>3. CASE p \notin P
  <2>1. p \in Cont \ (P \cup {c}) /\ KeepsJoin(p) /\ status'[p] = status[p]
    BY <1>1, <1>3 DEF Settles, Joining
  <2>2. IF wake[p].race THEN wake[p].winner \in DoneChildren(p)
                        ELSE DoneChildren(p) = wake[p].children
    BY <1>0, <1>1, <2>1 DEF Sound, Joined
  <2>3. DoneChildren(p) \subseteq Finished(c, p) /\ Finished(c, p) \subseteq wake[p].children
    BY FinishedSize
  <2>4. CASE wake[p].race
    <3>1. wake[p].winner \in Finished(c, p)
      BY <2>2, <2>3, <2>4
    <3> QED BY <1>1, <2>1, <2>4, <3>1 DEF KeepsJoin
  <2>5. CASE ~wake[p].race
    <3>1. Finished(c, p) = wake[p].children
      BY <2>2, <2>3, <2>5
    <3> QED BY <1>1, <2>1, <2>5, <3>1 DEF KeepsJoin
  <2> QED BY <2>4, <2>5
<1> QED BY <1>2, <1>3

\* An action that writes no row, or only the offers of a condition.
LEMMA StillQuiet ==
  ASSUME UNCHANGED <<status, wake, parent>>, \A x \in Cont : CondsKept(x)
  PROVE  \A x \in Cont : Quiet(x)
BY DEF Quiet, Same, KeepsJoin

LEMMA ParkSleepingQuiet ==
  ASSUME StoreTypeOK(Owner), NEW c \in Cont, status[c] = "ready", NEW e \in Effect, NEW w,
         w.kind # "join", w.children = {}, w.winner = None, ParkSleeping(c, w, e)
  PROVE  \A x \in Cont : Quiet(x)
<1> SUFFICES ASSUME NEW x \in Cont PROVE Quiet(x)
  OBVIOUS
<1>0. /\ StatusAfterSend(e.to) \in [Cont -> Status]
      /\ WakeAfterSend(e.msg, e.to) \in [Cont -> Wake]
  BY EffectType, StatusAfterSendType, WakeAfterSendType DEF StoreTypeOK
<1>1. parent'[x] = parent[x] /\ conds'[x] = conds[x]
  BY DEF ParkSleeping
<1>2. CASE x = c
  <2>1. status'[x] = "sleeping" /\ wake'[x] = w
    BY <1>0, <1>2 DEF ParkSleeping
  <2> QED BY <1>1, <1>2, <2>1 DEF Quiet, Reparked, Bare, CondsKept
<1>3. CASE x # c
  <2>1. status'[x] = StatusAfterSend(e.to)[x] /\ wake'[x] = WakeAfterSend(e.msg, e.to)[x]
    BY <1>0, <1>3 DEF ParkSleeping
  <2> QED BY <1>1, <2>1, LandedQuiet
<1> QED BY <1>2, <1>3

LEMMA ParkMessageQuiet ==
  ASSUME StoreTypeOK(Owner), NEW c \in Cont, status[c] = "ready", NEW e \in Effect, NEW t,
         ParkMessage(c, t, e)
  PROVE  \A x \in Cont : Quiet(x)
<1>0. /\ StatusAfterSend(e.to) \in [Cont -> Status]
      /\ WakeAfterSend(e.msg, e.to) \in [Cont -> Wake]
  BY EffectType, StatusAfterSendType, WakeAfterSendType DEF StoreTypeOK
<1>1. \A m : /\ MessageWake(t, m).kind = "message" /\ MessageWake(t, m).children = {}
             /\ MessageWake(t, m).winner = None
  BY DEF MessageWake, BareWake
<1>2. CASE ParkSleeping(c, MessageWake(t, None), e)
  BY <1>1, <1>2, ParkSleepingQuiet
<1>3. ASSUME NEW m,
             /\ status' = [StatusAfterSend(e.to) EXCEPT ![c] = "ready"]
             /\ wake' = [WakeAfterSend(e.msg, e.to) EXCEPT ![c] = MessageWake(t, m)]
             /\ UNCHANGED <<parent, conds>>,
             NEW x \in Cont
      PROVE  Quiet(x)
  <2>1. CASE x = c
    <3>1. status'[x] = "ready" /\ wake'[x] = MessageWake(t, m)
      BY <1>0, <1>3, <2>1
    <3> QED BY <1>1, <1>3, <2>1, <3>1 DEF Quiet, Reparked, Bare, CondsKept
  <2>2. CASE x # c
    <3>1. status'[x] = StatusAfterSend(e.to)[x] /\ wake'[x] = WakeAfterSend(e.msg, e.to)[x]
      BY <1>0, <1>3, <2>2
    <3> QED BY <1>3, <3>1, LandedQuiet
  <2> QED BY <2>1, <2>2
<1> QED BY <1>2, <1>3 DEF ParkMessage

\* The ends of a step that raise a condition.
LEMMA StopQuiet ==
  ASSUME StoreTypeOK(Owner), NEW c \in Cont, status[c] = "ready",
         \/ RecordUndecodable(c) \/ ParkFailed(c) \/ ParkCapabilityRevoked(c)
         \/ \E handed \in BOOLEAN : ParkCondition(c, handed)
  PROVE  \A x \in Cont : Quiet(x)
<1> SUFFICES ASSUME NEW x \in Cont PROVE Quiet(x)
  OBVIOUS
<1>0. status \in [Cont -> Status] /\ wake \in [Cont -> Wake] /\ conds \in [Cont -> Seq(CondRow)]
  BY DEF StoreTypeOK
<1>1. parent'[x] = parent[x]
  BY DEF RecordUndecodable, ParkFailed, ParkCapabilityRevoked, ParkCondition
<1>2. PICK class \in CondClass : conds' = Signal(c, class, TRUE)
  BY DEF RecordUndecodable, ParkFailed, ParkCapabilityRevoked, ParkCondition, CondClass
<1>3. CASE x # c
  <2>1. status'[x] = status[x] /\ wake'[x] = wake[x]
    BY <1>0, <1>3 DEF RecordUndecodable, ParkFailed, ParkCapabilityRevoked, ParkCondition
  <2>2. conds'[x] = conds[x]
    BY <1>0, <1>2, <1>3 DEF Signal
  <2> QED BY <1>1, <2>1, <2>2 DEF Quiet, Same, KeepsJoin, CondsKept
<1>4. CASE x = c
  <2>1. conds'[x] = Append(conds[x], OpenCond(class, TRUE))
    BY <1>0, <1>2, <1>4 DEF Signal
  <2>2. \/ status'[x] = "condition" /\ wake'[x] = BareWake("manual")
        \/ status'[x] = "failed" /\ wake'[x] = wake[x]
    BY <1>0, <1>4 DEF RecordUndecodable, ParkFailed, ParkCapabilityRevoked, ParkCondition
  <2>3. \/ status'[x] = "condition" /\ Bare(x)
        \/ status'[x] = "failed" /\ KeepsJoin(x)
    BY <2>2 DEF Bare, BareWake, KeepsJoin
  <2> QED BY <1>1, <1>2, <1>4, <2>1, <2>3 DEF Quiet, Stopped
<1> QED BY <1>3, <1>4

LEMMA DoorQuiet ==
  ASSUME StoreTypeOK(Owner),
         \/ \E c \in Cont : StartWorkflow(c) \/ Park(c)
         \/ TimerOnce
         \/ \E t \in Topic : WakeEvents(t)
  PROVE  \A x \in Cont : Quiet(x)
<1> SUFFICES ASSUME NEW x \in Cont PROVE Quiet(x)
  OBVIOUS
<1>0. status \in [Cont -> Status] /\ wake \in [Cont -> Wake] /\ conds \in [Cont -> Seq(CondRow)]
  BY DEF StoreTypeOK
<1>1. parent'[x] = parent[x]
  BY DEF StartWorkflow, Park, TimerOnce, WakeEvents, WakeAll
<1>2. ASSUME NEW c \in Cont, StartWorkflow(c) PROVE Quiet(x)
  <2>1. conds'[x] = conds[x]
    BY <1>2 DEF StartWorkflow
  <2>2. CASE x = c
    <3>1. status[x] = "absent" /\ status'[x] = "ready" /\ wake'[x] = BareWake("timer")
      BY <1>0, <1>2, <2>2 DEF StartWorkflow
    <3> QED BY <1>1, <2>1, <3>1 DEF Quiet, Started, Bare, BareWake, CondsKept
  <2>3. CASE x # c
    <3>1. status'[x] = status[x] /\ wake'[x] = wake[x]
      BY <1>0, <1>2, <2>3 DEF StartWorkflow
    <3> QED BY <1>1, <2>1, <3>1 DEF Quiet, Same, KeepsJoin, CondsKept
  <2> QED BY <2>2, <2>3
<1>3. ASSUME NEW c \in Cont, Park(c) PROVE Quiet(x)
  <2>1. CASE x = c
    <3>1. /\ status[x] = "absent" /\ status'[x] = "condition" /\ wake'[x] = BareWake("manual")
          /\ conds'[x] = Append(conds[x], OpenCond("signal", TRUE))
      BY <1>0, <1>3, <2>1 DEF Park, Signal
    <3>2. "signal" \in CondClass
      BY DEF CondClass
    <3>3. Bare(x)
      BY <3>1 DEF Bare, BareWake
    <3> QED BY <1>1, <3>1, <3>2, <3>3 DEF Quiet, Stopped
  <2>2. CASE x # c
    <3>1. status'[x] = status[x] /\ wake'[x] = wake[x] /\ conds'[x] = conds[x]
      BY <1>0, <1>3, <2>2 DEF Park, Signal
    <3> QED BY <1>1, <3>1 DEF Quiet, Same, KeepsJoin, CondsKept
  <2> QED BY <2>1, <2>2
<1>4. ASSUME NEW W, WakeAll(W), \A y \in W : status[y] = "sleeping" /\ wake[y].kind # "join"
      PROVE  Quiet(x)
  <2>1. conds'[x] = conds[x] /\ wake'[x] = wake[x]
        /\ status'[x] = IF x \in W THEN "ready" ELSE status[x]
    BY <1>4 DEF WakeAll
  <2> QED BY <1>1, <1>4, <2>1 DEF Quiet, Same, Roused, KeepsJoin, CondsKept
<1>5. CASE TimerOnce
  <2>1. PICK W \in SUBSET {y \in Cont : status[y] = "sleeping" /\ wake[y].kind = "timer"} : WakeAll(W)
    BY <1>5 DEF TimerOnce
  <2> QED BY <1>4, <2>1
<1>6. ASSUME NEW t \in Topic, WakeEvents(t) PROVE Quiet(x)
  BY <1>4, <1>6 DEF WakeEvents
<1> QED BY <1>2, <1>3, <1>5, <1>6

LEMMA SendQuiet ==
  ASSUME StoreTypeOK(Owner), NEW m \in Msg, SendChannel(m) PROVE \A x \in Cont : Quiet(x)
<1> SUFFICES ASSUME NEW x \in Cont PROVE Quiet(x)
  OBVIOUS
<1>1. PICK r \in Recipient(m) : status' = StatusAfterSend(r) /\ wake' = WakeAfterSend(m, r)
  BY DEF SendChannel
<1>2. m \in Msg \ sent /\ m # None /\ parent'[x] = parent[x] /\ conds'[x] = conds[x]
  BY StoreAssumption DEF SendChannel
<1>3. /\ WakeAfterSend(m, r)[x].kind = wake[x].kind
      /\ WakeAfterSend(m, r)[x].children = wake[x].children
      /\ WakeAfterSend(m, r)[x].race = wake[x].race
      /\ WakeAfterSend(m, r)[x].winner = wake[x].winner
      /\ \/ StatusAfterSend(r)[x] = status[x]
         \/ /\ status[x] = "sleeping" /\ StatusAfterSend(r)[x] = "ready"
            /\ wake[x].kind = "message"
  BY <1>2, LandedJoins
<1> QED BY <1>1, <1>2, <1>3 DEF Quiet, Same, Roused, KeepsJoin, CondsKept

LEMMA AnswerQuiet ==
  ASSUME StoreTypeOK(Owner), NEW c \in Cont, NEW i, NEW choice \in Choice, PickRestart(c, i, choice)
  PROVE  \A x \in Cont : Quiet(x)
<1> SUFFICES ASSUME NEW x \in Cont PROVE Quiet(x)
  OBVIOUS
<1>0. status \in [Cont -> Status] /\ wake \in [Cont -> Wake] /\ conds \in [Cont -> Seq(CondRow)]
  BY DEF StoreTypeOK
<1>1. parent'[x] = parent[x] /\ KeepsJoin(x)
  BY DEF PickRestart, KeepsJoin
<1>2. CASE x # c
  <2>1. status'[x] = status[x] /\ conds'[x] = conds[x]
    BY <1>0, <1>2 DEF PickRestart
  <2> QED BY <1>1, <2>1 DEF Quiet, Same, CondsKept
<1>3. CASE x = c
  <2>1. status'[x] = "ready" /\ i \in DOMAIN conds[x] /\ conds[x][i].status = "open"
    BY <1>0, <1>3 DEF PickRestart
  <2>2. conds'[x] = [conds[x] EXCEPT ![i] = [@ EXCEPT !.status = "resolved", !.choice = choice]]
    BY <1>0, <1>3 DEF PickRestart
  <2>3. conds[x] \in [1..Len(conds[x]) -> CondRow] /\ conds[x][i] \in CondRow
    BY <1>0, <2>1, ElementOfSeq, LenProperties
  <2>4. DOMAIN conds'[x] = DOMAIN conds[x] /\ \A j \in DOMAIN conds[x] \ {i} : conds'[x][j] = conds[x][j]
    BY <2>2
  <2>5. conds'[x][i].status = "resolved" /\ conds'[x][i].class = conds[x][i].class
    BY <2>1, <2>2, <2>3 DEF CondRow
  <2> QED BY <1>1, <2>1, <2>4, <2>5 DEF Quiet, Answered
<1> QED BY <1>2, <1>3

\* The three kinds of transaction, and the condition a dead task leaves.
Forms    == \E c \in Cont, S \in SUBSET Cont, race \in BOOLEAN, e \in Effect :
              status[c] = "ready" /\ c \notin S /\ ParkJoin(c, S, race, e)
Finishes == \E c \in Cont, P \in SUBSET Cont :
              status[c] = "ready" /\ Settles(c, P) /\ parent' = parent /\ conds' = conds
DeadLetter == \E k \in Kernel : cur[k].pc = "signal"

LEMMA StepKind ==
  ASSUME StoreTypeOK(Owner), NEW c \in Cont, status[c] = "ready", Steps(c)
  PROVE  (\A x \in Cont : Quiet(x)) \/ Forms \/ Finishes
<1>1. CASE \/ RecordUndecodable(c) \/ ParkFailed(c) \/ ParkCapabilityRevoked(c)
           \/ \E handed \in BOOLEAN : ParkCondition(c, handed)
  BY <1>1, StopQuiet
<1>2. ASSUME NEW handed \in BOOLEAN, ParkOutcome(c, handed)
      PROVE  (\A x \in Cont : Quiet(x)) \/ Forms \/ Finishes
  <2>1. PICK e \in Effect :
           \/ ParkDone(c, e)
           \/ ParkTimer(c, e)
           \/ \E t \in Topic \cup {None} : ParkEvent(c, t, e) \/ ParkMessage(c, t, e)
    BY <1>2 DEF ParkOutcome
  <2>2. CASE ParkDone(c, e)
    BY <2>2, DoneRows DEF Finishes
  <2>3. CASE ParkTimer(c, e)
    <3>1. /\ BareWake("timer").kind # "join" /\ BareWake("timer").children = {}
          /\ BareWake("timer").winner = None
      BY DEF BareWake
    <3> QED BY <2>3, <3>1, ParkSleepingQuiet DEF ParkTimer
  <2>4. ASSUME NEW t \in Topic \cup {None}, ParkEvent(c, t, e) PROVE \A x \in Cont : Quiet(x)
    <3>1. EventWake(t).kind # "join" /\ EventWake(t).children = {} /\ EventWake(t).winner = None
      BY DEF EventWake, BareWake
    <3> QED BY <2>4, <3>1, ParkSleepingQuiet DEF ParkEvent
  <2> QED BY <2>1, <2>2, <2>3, <2>4, ParkMessageQuiet
<1>3. CASE ParkChildren(c)
  BY <1>3 DEF ParkChildren, Forms
<1> QED BY <1>1, <1>2, <1>3 DEF Steps

LEMMA NextKind ==
  ASSUME TypeOK, [Next]_vars
  PROVE  \/ \A x \in Cont : Quiet(x)
         \/ Forms \/ Finishes
         \/ DeadLetter /\ \A x \in Cont : Mild(x)
<1>0. StoreTypeOK(Owner) /\ conds \in [Cont -> Seq(CondRow)]
  BY DEF TypeOK, Owner, StoreTypeOK
<1>1. ASSUME NEW k \in Kernel, NEW h \in batch[k], StepTask(k, h) \/ StepUndecodable(k, h)
      PROVE  (\A x \in Cont : Quiet(x)) \/ Forms \/ Finishes
  <2>1. h.ref[1] \in Cont
    BY DEF TypeOK, Held, Ref
  <2>2. Steps(h.ref[1]) /\ status[h.ref[1]] = "ready"
    BY <1>1 DEF StepTask, StepUndecodable, Steps, ClaimWins
  <2> QED BY <1>0, <2>1, <2>2, StepKind
<1>2. ASSUME \/ \E k \in Kernel : \/ \E h \in batch[k] : StepLost(k, h) \/ StepError(k, h)
                                  \/ \E S \in SUBSET {r \in Refs : Row(r).status = "ready"} :
                                       ClaimTasks(k, S)
                                  \/ FinishTask(k) \/ MarkDead(k) \/ AbandonPass(k) \/ Crash(k)
             \/ \E r \in Refs : Reap(r)
             \/ \E c \in Cont : ResumeDropped(c)
             \/ UNCHANGED vars
      PROVE  \A x \in Cont : Quiet(x)
  <2>1. UNCHANGED <<status, wake, parent, conds>>
    BY <1>2 DEF StepLost, StepError, ClaimTasks, FinishTask, MarkDead, AbandonPass, Crash, Reap,
                ResumeDropped, vars, storeVars, rowVars
  <2> QED BY <2>1, StillQuiet DEF CondsKept
<1>3. ASSUME NEW k \in Kernel, RecordStepFailed(k) PROVE DeadLetter /\ \A x \in Cont : Mild(x)
  <2>1. cur[k].pc = "signal" /\ conds' = Signal(cur[k].ref[1], "step.failed", FALSE)
        /\ UNCHANGED <<status, wake, parent>>
    BY <1>3 DEF RecordStepFailed
  <2>2. ASSUME NEW x \in Cont PROVE conds'[x] = conds[x] \/ HasFailed(x)'
    <3>1. CASE x = cur[k].ref[1]
      <4>1. conds'[x] = Append(conds[x], OpenCond("step.failed", FALSE))
        BY <1>0, <2>1, <3>1 DEF Signal
      <4>2. conds[x] \in Seq(CondRow) /\ OpenCond("step.failed", FALSE) \in CondRow
        BY <1>0 DEF OpenCond, CondRow, CondClass, Choice
      <4> DEFINE o == OpenCond("step.failed", FALSE)
      <4>3. o.class = "step.failed" /\ o \in CondRow /\ conds'[x] = Append(conds[x], o)
        BY <4>1, <4>2 DEF OpenCond
      <4> HIDE DEF o
      <4>4. /\ Len(conds'[x]) = Len(conds[x]) + 1 /\ conds'[x] \in Seq(CondRow)
            /\ conds'[x][Len(conds[x]) + 1] = o /\ Len(conds[x]) \in Nat
        BY <4>2, <4>3, AppendProperties, LenProperties
      <4>5. Len(conds[x]) + 1 \in DOMAIN conds'[x]
        BY <4>4, LenProperties
      <4> QED BY <4>3, <4>4, <4>5 DEF HasFailed
    <3>2. CASE x # cur[k].ref[1]
      BY <1>0, <2>1, <3>2 DEF Signal
    <3> QED BY <3>1, <3>2
  <2>3. ASSUME NEW x \in Cont PROVE Mild(x)
    BY <2>1, <2>2 DEF Mild, Quiet, Same, Flagged, KeepsJoin, CondsKept
  <2> QED BY <2>1, <2>3 DEF DeadLetter
<1>4. ASSUME NEW k \in Kernel, OfferAbort(k) PROVE \A x \in Cont : Quiet(x)
  <2>1. /\ conds' = [conds EXCEPT ![cur[k].ref[1]][cur[k].ref[2]].offered = TRUE]
        /\ UNCHANGED <<status, wake, parent>>
    BY <1>4 DEF OfferAbort
  <2>2. ASSUME NEW x \in Cont PROVE CondsKept(x)
    <3>1. conds[x] \in [1..Len(conds[x]) -> CondRow]
      BY <1>0, LenProperties
    <3>2. CASE x = cur[k].ref[1]
      <4>1. conds'[x] = [conds[x] EXCEPT ![cur[k].ref[2]].offered = TRUE]
        BY <1>0, <2>1, <3>2
      <4>2. \A r \in CondRow : /\ [r EXCEPT !.offered = TRUE].status = r.status
                                /\ [r EXCEPT !.offered = TRUE].class = r.class
        BY DEF CondRow
      <4> QED BY SMTT(60), <3>1, <4>1, <4>2 DEF CondsKept
    <3>3. CASE x # cur[k].ref[1]
      BY <1>0, <2>1, <3>3 DEF CondsKept
    <3> QED BY <3>2, <3>3
  <2> QED BY <2>1, <2>2, StillQuiet
<1>5. ASSUME NEW k \in Kernel, Drain(k) \/ AbandonPass(k) \/ Crash(k)
      PROVE  \/ \A x \in Cont : Quiet(x)
             \/ Forms \/ Finishes
             \/ DeadLetter /\ \A x \in Cont : Mild(x)
  BY <1>1, <1>2, <1>3, <1>4, <1>5 DEF Drain
<1>6. ASSUME \/ \E c \in Cont : Start(c) \/ ParkRequest(c)
             \/ ScanTimers
             \/ \E t \in Topic : Mutate(t)
      PROVE  \A x \in Cont : Quiet(x)
  BY <1>0, <1>6, DoorQuiet DEF Start, ParkRequest, ScanTimers, Mutate
<1>7. ASSUME NEW m \in Msg, Send(m) PROVE \A x \in Cont : Quiet(x)
  BY <1>0, <1>7, SendQuiet DEF Send
<1>8. ASSUME NEW c \in Cont, NEW i \in DOMAIN conds[c], NEW choice \in Choice,
             ResolveCondition(c, i, choice)
      PROVE  \A x \in Cont : Quiet(x)
  BY <1>0, <1>8, AnswerQuiet DEF ResolveCondition
<1>9. ASSUME NEW c \in Cont, ResumeDirect(c)
      PROVE  (\A x \in Cont : Quiet(x)) \/ Forms \/ Finishes
  BY <1>0, <1>9, StepKind DEF ResumeDirect, Steps
<1>10. ASSUME Operator PROVE (\A x \in Cont : Quiet(x)) \/ Forms \/ Finishes
  BY <1>2, <1>8, <1>9, <1>10 DEF Operator
<1> QED BY <1>2, <1>5, <1>6, <1>7, <1>10 DEF Next

LEMMA NextJoins == ASSUME TypeOK, JoinInv, [Next]_vars PROVE JoinInv'
<1>0. StoreTypeOK(Owner) /\ \A x \in Cont : Signalled(x) => Signalled(x)'
  BY SignalsStay DEF TypeOK, Owner
<1>1. CASE \A x \in Cont : Mild(x)
  BY <1>0, <1>1, MildJoins
<1>2. CASE Forms
  <2>1. PICK c \in Cont, S \in SUBSET Cont, race \in BOOLEAN, e \in Effect :
          status[c] = "ready" /\ c \notin S /\ ParkJoin(c, S, race, e)
    BY <1>2 DEF Forms
  <2> QED BY <1>0, <2>1, ParkJoinJoins
<1>3. CASE Finishes
  BY <1>0, <1>3, SettleJoins DEF Finishes
<1> QED BY <1>1, <1>2, <1>3, NextKind DEF Mild

LEMMA InitJoins == ASSUME Init PROVE JoinInv /\ AllSound
<1>1. /\ status = [c \in Cont |-> "absent"] /\ wake = [c \in Cont |-> BareWake("timer")]
      /\ conds = [c \in Cont |-> <<>>]
  BY DEF Init, StoreInit
<1>2. BareWake("timer").kind = "timer" /\ BareWake("timer").children = {}
      /\ BareWake("timer").winner = None
  BY DEF BareWake
<1>3. JoinInv
  BY <1>1, <1>2 DEF JoinInv, Family, BelowQuorum, Joining, LosersOver, StopsSignalled, NoJoinHeld
<1>4. AllSound
  BY <1>1, <1>2 DEF AllSound, RowHeld, Joined, Joining
<1> QED BY <1>3, <1>4

LEMMA JoinsKeep == Spec => []JoinInv
<1>1. Init => JoinInv
  BY InitJoins
<1>2. TypeOK /\ JoinInv /\ [Next]_vars => JoinInv'
  BY NextJoins
<1> QED BY <1>1, <1>2, TypeCorrect, PTL DEF Spec

\* What a transaction does to a row that its open condition holds.
LEMMA NextHeld ==
  ASSUME TypeOK, [Next]_vars, NEW x \in Cont
  PROVE  /\ HasFailed(x) => HasFailed(x)'
         /\ RowHeld(x) => /\ RowHeld(x)' \/ (DeadLetter /\ HasFailed(x)')
                          /\ status[x] \in {"done", "cancelled"} => status'[x] = status[x]
<1>0. StoreTypeOK(Owner)
  BY DEF TypeOK, Owner
<1>1. CASE \A y \in Cont : Quiet(y)
  BY <1>0, <1>1, FailedRow, MildHeld DEF Mild
<1>2. CASE DeadLetter /\ \A y \in Cont : Mild(y)
  BY <1>0, <1>2, FailedRow, MildHeld
<1>3. CASE Forms
  <2>1. PICK c \in Cont, S \in SUBSET Cont, race \in BOOLEAN, e \in Effect :
          status[c] = "ready" /\ c \notin S /\ ParkJoin(c, S, race, e)
    BY <1>3 DEF Forms
  <2> QED BY <1>0, <2>1, ParkJoinHeld
<1>4. CASE Finishes
  BY <1>0, <1>4, SettleHeld DEF Finishes
<1> QED BY <1>1, <1>2, <1>3, <1>4, NextKind

LEMMA NextJoined ==
  ASSUME TypeOK, JoinInv, [Next]_vars, NEW p \in Cont,
         wake'[p].children = wake[p].children => Sound(p)
  PROVE  Joined(p)'
<1>0. StoreTypeOK(Owner) /\ NoJoinHeld
  BY DEF TypeOK, Owner, JoinInv
<1>1. CASE \A y \in Cont : Mild(y)
  BY <1>0, <1>1, MildJoined
<1>2. CASE Forms
  <2>1. PICK c \in Cont, S \in SUBSET Cont, race \in BOOLEAN, e \in Effect :
          status[c] = "ready" /\ c \notin S /\ ParkJoin(c, S, race, e)
    BY <1>2 DEF Forms
  <2> QED BY <1>0, <2>1, ParkJoinJoined
<1>3. CASE Finishes
  BY <1>0, <1>3, SettleJoined DEF Finishes
<1> QED BY <1>1, <1>2, <1>3, NextKind DEF Mild

LEMMA ChildrenAre == ASSUME TypeOK, NEW p \in Cont PROVE wake[p].children \subseteq Cont
BY DEF TypeOK, StoreTypeOK, Wake

LEMMA NextResumes == ASSUME TypeOK, JoinInv, ResumeInv, [Next]_vars PROVE ResumeInv'
<1> SUFFICES ASSUME NEW c \in Cont
             PROVE  (HasFailed(c) \/ RowHeld(c))' /\ (Spoiled(c) \/ Joined(c))'
  BY DEF ResumeInv
<1>1. (HasFailed(c) \/ RowHeld(c))'
  BY NextHeld DEF ResumeInv
<1>2. ASSUME ~Spoiled(c)' PROVE Joined(c)'
  <2>1. ASSUME wake'[c].children = wake[c].children PROVE Sound(c)
    <3>1. ~Spoiled(c)
      BY <1>2, <2>1, NextHeld, ChildrenAre DEF Spoiled
    <3> QED BY <3>1, ChildrenAre DEF Spoiled, Sound, ResumeInv
  <2> QED BY <2>1, NextJoined
<1> QED BY <1>1, <1>2

LEMMA ResumesKeep == Spec => []ResumeInv
<1>1. Init => ResumeInv
  BY InitJoins DEF AllSound, ResumeInv
<1>2. TypeOK /\ JoinInv /\ ResumeInv /\ [Next]_vars => ResumeInv'
  BY NextResumes
<1> QED BY <1>1, <1>2, JoinsKeep, TypeCorrect, PTL DEF Spec

LEMMA NextSound ==
  ASSUME TypeOK, JoinInv, AllSound, ~DeadLetter, [Next]_vars PROVE AllSound'
<1> SUFFICES ASSUME NEW c \in Cont PROVE RowHeld(c)' /\ Joined(c)'
  BY DEF AllSound
<1>1. RowHeld(c)'
  BY NextHeld DEF AllSound
<1>2. Sound(c)
  BY ChildrenAre DEF AllSound, Sound
<1> QED BY <1>1, <1>2, NextJoined

LEMMA SoundKeep == Spec /\ []~DeadLetter => []AllSound
<1>1. Init => AllSound
  BY InitJoins
<1>2. TypeOK /\ JoinInv /\ AllSound /\ ~DeadLetter /\ [Next]_vars => AllSound'
  BY NextSound
<1> QED BY <1>1, <1>2, JoinsKeep, TypeCorrect, PTL DEF Spec

(* A join parent never sleeps on once enough of its children are done,     *)
(* whichever order they finish in and whoever restarts, revives or sends   *)
(* meanwhile: settleJoinParent is evaluated by the child that completes    *)
(* the quorum, in the transaction that makes it done.                      *)
THEOREM ParentsWake == Spec => []BelowQuorum
<1>1. JoinInv => BelowQuorum
  BY DEF JoinInv
<1> QED BY <1>1, JoinsKeep, PTL

(* ... and a parent that goes on was resumed by its quorum, its winner or  *)
(* all, unless it or a child of it has a step.failed: PickRestart resumes a *)
(* row whatever it waits for, and it is what a dead task leaves on a row   *)
(* that has gone on.                                                       *)
QuorumResumes ==
  \A p \in Cont : Joining(p) /\ status[p] = "ready" =>
    \/ HasFailed(p) \/ \E x \in wake[p].children : HasFailed(x)
    \/ IF wake[p].race THEN wake[p].winner \in DoneChildren(p)
                       ELSE DoneChildren(p) = wake[p].children

THEOREM ParentsResumeByQuorum == Spec => []QuorumResumes
<1>1. ResumeInv => QuorumResumes
  BY DEF ResumeInv, Spoiled, Joined, QuorumResumes
<1> QED BY <1>1, ResumesKeep, PTL

(* As long as no dead task leaves a condition, no exception is needed,     *)
(* whatever steps fail and are retried by an operator.                     *)
THEOREM JoinsWakeAtQuorum == Spec /\ []~DeadLetter => []JoinWakesAtQuorum
<1>1. JoinInv /\ AllSound => JoinWakesAtQuorum
  BY DEF JoinInv, BelowQuorum, AllSound, Joined, JoinWakesAtQuorum
<1> QED BY <1>1, JoinsKeep, SoundKeep, PTL

(* A continuation that is done or cancelled is revived only if it has a    *)
(* step.failed, whoever still holds tasks for it and whatever conditions   *)
(* were answered on its way.                                               *)
FailuresRevive ==
  [][\A c \in Cont : status[c] \in {"done", "cancelled"} /\ status'[c] # status[c] =>
       HasFailed(c)]_vars

THEOREM OnlyFailuresRevive == Spec => FailuresRevive
<1>1. TypeOK /\ ResumeInv /\ [Next]_vars =>
        [\A c \in Cont : status[c] \in {"done", "cancelled"} /\ status'[c] # status[c] =>
           HasFailed(c)]_vars
  BY NextHeld DEF ResumeInv
<1> QED BY <1>1, ResumesKeep, TypeCorrect, PTL DEF Spec, FailuresRevive

(* ... and it stays as it is as long as no dead task leaves a condition.   *)
THEOREM TerminalsStay == Spec /\ []~DeadLetter => TerminalStays
<1>1. TypeOK /\ AllSound /\ [Next]_vars =>
        [\A c \in Cont : status[c] \in {"done", "cancelled"} => status'[c] = status[c]]_vars
  BY NextHeld DEF AllSound
<1> QED BY <1>1, SoundKeep, TypeCorrect, PTL DEF Spec, TerminalStays

\* Only a row that is ready is stepped, and only one that is not there is created.
LEMMA StepSeq ==
  ASSUME StoreTypeOK(Owner), NEW c \in Cont, status[c] = "ready", Steps(c)
  PROVE  \A x \in Cont : seq'[x] # seq[x] => status[x] \in {"ready", "absent"}
<1>0. seq \in [Cont -> Nat]
  BY DEF StoreTypeOK
<1>1. CASE ParkChildren(c)
  BY <1>0, <1>1 DEF ParkChildren, ParkJoin
<1>2. CASE ~ParkChildren(c)
  <2>1. seq' = Advance(c)
    BY <1>2 DEF Steps, RecordUndecodable, ParkFailed, ParkCapabilityRevoked, ParkCondition,
                ParkOutcome, ParkDone, ParkTimer, ParkEvent, ParkMessage, ParkSleeping
  <2> QED BY <1>0, <2>1 DEF Advance
<1> QED BY <1>1, <1>2

LEMMA SeqMoves ==
  ASSUME TypeOK, [Next]_vars
  PROVE  \A x \in Cont : seq'[x] # seq[x] => status[x] \in {"ready", "absent"}
<1>0. StoreTypeOK(Owner) /\ seq \in [Cont -> Nat]
  BY DEF TypeOK, Owner, StoreTypeOK
<1>1. ASSUME NEW k \in Kernel, NEW h \in batch[k], StepTask(k, h) \/ StepUndecodable(k, h)
      PROVE  \A x \in Cont : seq'[x] # seq[x] => status[x] \in {"ready", "absent"}
  <2>1. h.ref[1] \in Cont
    BY DEF TypeOK, Held, Ref
  <2>2. Steps(h.ref[1]) /\ status[h.ref[1]] = "ready"
    BY <1>1 DEF StepTask, StepUndecodable, Steps, ClaimWins
  <2> QED BY <1>0, <2>1, <2>2, StepSeq
<1>2. ASSUME NEW c \in Cont, ResumeDirect(c)
      PROVE  \A x \in Cont : seq'[x] # seq[x] => status[x] \in {"ready", "absent"}
  BY <1>0, <1>2, StepSeq DEF ResumeDirect, Steps
<1>3. ASSUME NEW c \in Cont, Start(c) \/ ParkRequest(c)
      PROVE  \A x \in Cont : seq'[x] # seq[x] => status[x] \in {"ready", "absent"}
  BY <1>0, <1>3 DEF Start, StartWorkflow, ParkRequest, Park
<1>4. ASSUME \/ \E k \in Kernel : \/ \E h \in batch[k] : StepLost(k, h) \/ StepError(k, h)
                                  \/ \E S \in SUBSET {r \in Refs : Row(r).status = "ready"} :
                                       ClaimTasks(k, S)
                                  \/ FinishTask(k) \/ MarkDead(k) \/ RecordStepFailed(k)
                                  \/ OfferAbort(k) \/ AbandonPass(k) \/ Crash(k)
             \/ \E r \in Refs : Reap(r)
             \/ \E m \in Msg : Send(m)
             \/ ScanTimers
             \/ \E t \in Topic : Mutate(t)
             \/ \E c \in Cont : \/ \E i \in DOMAIN conds[c], choice \in Choice :
                                     ResolveCondition(c, i, choice)
                                \/ ResumeDropped(c)
             \/ UNCHANGED vars
      PROVE  seq' = seq
  BY ZenonT(90), <1>4 DEF StepLost, StepError, ClaimTasks, FinishTask, MarkDead, RecordStepFailed, OfferAbort,
              AbandonPass, Crash, Reap, Send, SendChannel, ScanTimers, TimerOnce, Mutate, WakeEvents,
              WakeAll, ResolveCondition, PickRestart, ResumeDropped, vars, storeVars, rowVars
<1> QED BY <1>1, <1>2, <1>3, <1>4 DEF Next, Drain, Operator

(* Once a race has its winner the others do no more work, whoever holds    *)
(* tasks for them: settleJoinParent leaves each of them done, cancelled or *)
(* with a condition, in the transaction that names the winner, and only an *)
(* answered condition sets one going again.                                *)
THEOREM RacesEnd == Spec => LosersStop
<1>1. TypeOK /\ JoinInv /\ [Next]_vars =>
        [\A p \in Cont : wake[p].winner # None =>
           \A x \in wake[p].children : seq'[x] # seq[x] => conds[x] # <<>>]_vars
  <2> SUFFICES ASSUME TypeOK, JoinInv, [Next]_vars, NEW p \in Cont, wake[p].winner # None,
                      NEW x \in wake[p].children, seq'[x] # seq[x]
               PROVE  conds[x] # <<>>
    OBVIOUS
  <2>1. x \in Cont
    BY DEF TypeOK, StoreTypeOK, Wake
  <2>2. status[x] \in {"ready", "absent"}
    BY <2>1, SeqMoves
  <2> QED BY <2>2 DEF JoinInv, LosersOver, Signalled
<1> QED BY <1>1, JoinsKeep, TypeCorrect, PTL DEF Spec, LosersStop
=============================================================================
