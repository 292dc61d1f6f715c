------------------------- MODULE TaskReactorProofs -------------------------
(***************************************************************************)
(* Proofs about TaskReactor: type correctness, and that a ready            *)
(* continuation is always driven.                                          *)
(***************************************************************************)
EXTENDS TaskReactor, SequenceTheorems, TLAPS

Owner == Kernel \cup {None}
RowT  == TaskRow(Owner)

---------------------------------------------------------------------------
(* Lemmas about the rows.                                                  *)

\* A fresh task is a task row.
LEMMA FreshTaskType == ASSUME NEW n \in Nat PROVE FreshTask(n) \in RowT
BY DEF FreshTask, RowT, TaskRow, Owner, TaskState

\* Enqueuing keeps the tasks of every continuation a sequence of task rows.
LEMMA EnqueueType ==
  ASSUME tasks \in [Cont -> Seq(RowT)], NEW W, NEW n \in [Cont -> Nat]
  PROVE  Enqueue(W, n) \in [Cont -> Seq(RowT)]
<1> SUFFICES ASSUME NEW x \in Cont PROVE Append(tasks[x], FreshTask(n[x])) \in Seq(RowT)
  BY DEF Enqueue
<1> QED BY FreshTaskType

\* Writing a condition row keeps the conditions typed.
LEMMA SignalType ==
  ASSUME conds \in [Cont -> Seq(CondRow)], NEW c \in Cont, NEW class \in CondClass,
         NEW offered \in BOOLEAN
  PROVE  Signal(c, class, offered) \in [Cont -> Seq(CondRow)]
<1>1. OpenCond(class, offered) \in CondRow
  BY DEF OpenCond, CondRow, Choice
<1>2. Append(conds[c], OpenCond(class, offered)) \in Seq(CondRow)
  BY <1>1
<1> QED BY <1>2 DEF Signal

\* Resolving a condition row with a restart, or offering one, gives a condition row.
LEMMA ResolvedType ==
  ASSUME NEW row \in CondRow, NEW choice \in Choice
  PROVE  [row EXCEPT !.status = "resolved", !.choice = choice] \in CondRow
<1>1. [row EXCEPT !.status = "resolved"] \in CondRow
  BY DEF CondRow
<1>2. \A r \in CondRow : [r EXCEPT !.choice = choice] \in CondRow
  BY DEF CondRow
<1>3. [row EXCEPT !.status = "resolved", !.choice = choice]
        = [[row EXCEPT !.status = "resolved"] EXCEPT !.choice = choice]
  OBVIOUS
<1> QED BY <1>1, <1>2, <1>3

\* The wakes the actions write are wakes.
LEMMA BareWakeType == ASSUME NEW k \in WakeKind PROVE BareWake(k) \in Wake
BY DEF BareWake, Wake, WakeKind

LEMMA MessageWakeType ==
  ASSUME NEW t \in Topic \cup {None}, NEW m \in Msg \cup {None}
  PROVE  MessageWake(t, m) \in Wake
BY DEF MessageWake, BareWake, Wake, WakeKind

LEMMA EventWakeType == ASSUME NEW t \in Topic \cup {None} PROVE EventWake(t) \in Wake
BY DEF EventWake, BareWake, Wake, WakeKind

LEMMA JoinWakeType ==
  ASSUME NEW S \in SUBSET Cont, NEW r \in BOOLEAN PROVE JoinWake(S, r) \in Wake
BY DEF JoinWake, BareWake, Wake, WakeKind

\* Pinning a message in a wake, or naming the winner of a race, gives a wake.
LEMMA PinType ==
  ASSUME NEW w \in Wake, NEW m \in Msg \cup {None} PROVE [w EXCEPT !.msg = m] \in Wake
BY DEF Wake

LEMMA WinnerType ==
  ASSUME NEW w \in Wake, NEW c \in Cont PROVE [w EXCEPT !.winner = c] \in Wake
BY DEF Wake

\* A recipient is a sleeping receiver, or nobody.
LEMMA RecipientType ==
  ASSUME NEW m \in Msg, NEW r \in Recipient(m)
  PROVE  r = None \/ (r \in Cont /\ r \in Receivers(m) /\ status[r] = "sleeping")
BY DEF Recipient, Receivers

\* What a step may record.
LEMMA EffectType ==
  ASSUME NEW e \in Effect
  PROVE  /\ e.mail \in BOOLEAN
         /\ e.msg \in Msg \cup {None}
         /\ e.to = None \/ (e.msg \in Msg \ sent /\ e.to \in Cont /\ status[e.to] = "sleeping")
         /\ e.msg # None => e.msg \in Msg \ sent /\ e.to \in Recipient(e.msg)
<1>1. CASE e = NoEffect
  BY <1>1 DEF NoEffect
<1>2. CASE e = [NoEffect EXCEPT !.mail = TRUE]
  <2>1. e = [mail |-> TRUE, msg |-> None, to |-> None]
    BY <1>2 DEF NoEffect
  <2> QED BY <2>1
<1>3. CASE \E m \in Msg \ sent : \E r \in Recipient(m) : e = [mail |-> FALSE, msg |-> m, to |-> r]
  <2>0. PICK m \in Msg \ sent : \E r \in Recipient(m) : e = [mail |-> FALSE, msg |-> m, to |-> r]
    BY <1>3
  <2>1. PICK r \in Recipient(m) : e = [mail |-> FALSE, msg |-> m, to |-> r]
    BY <2>0
  <2>2. r = None \/ (r \in Cont /\ r \in Receivers(m) /\ status[r] = "sleeping")
    BY RecipientType
  <2> QED BY <2>1, <2>2
<1> QED BY <1>1, <1>2, <1>3 DEF Effect

LEMMA StatusAfterSendType ==
  ASSUME status \in [Cont -> Status], NEW r
  PROVE  StatusAfterSend(r) \in [Cont -> Status]
BY DEF StatusAfterSend, Status

LEMMA WakeAfterSendType ==
  ASSUME wake \in [Cont -> Wake], NEW m \in Msg \cup {None}, NEW r
  PROVE  WakeAfterSend(m, r) \in [Cont -> Wake]
BY PinType DEF WakeAfterSend

LEMMA ClaimAfterSendType ==
  ASSUME claimedBy \in [Msg -> Cont \cup {None}], NEW m \in Msg \cup {None},
         NEW r \in Cont \cup {None}
  PROVE  ClaimAfterSend(m, r) \in [Msg -> Cont \cup {None}]
BY DEF ClaimAfterSend

LEMMA WriteEffectsType ==
  ASSUME StoreTypeOK(Owner), NEW c \in Cont, NEW e \in Effect, WriteEffects(c, e)
  PROVE  /\ sent' \subseteq Msg
         /\ outbox' \subseteq Cont \X Nat \X {"mail", "send"}
         /\ performed' \subseteq Cont \X Nat
<1>1. seq[c] + 1 \in Nat
  BY DEF StoreTypeOK
<1> QED BY <1>1, EffectType DEF WriteEffects, StoreTypeOK

LEMMA ConsumeType ==
  ASSUME StoreTypeOK(Owner), NEW c \in Cont, NEW handed \in BOOLEAN, Consume(c, handed)
  PROVE  receipts' \in [Msg -> Nat]
<1>1. wake[c].msg \in Msg \cup {None}
  BY DEF StoreTypeOK, Wake
<1> QED BY <1>1 DEF Consume, StoreTypeOK

LEMMA AdvanceType ==
  ASSUME StoreTypeOK(Owner), NEW c \in Cont PROVE Advance(c) \in [Cont -> Nat]
BY DEF Advance, StoreTypeOK

---------------------------------------------------------------------------
(* Every way a step may end keeps the store typed.                         *)

\* The ends that write a condition.
LEMMA StepConditionType ==
  ASSUME StoreTypeOK(Owner), NEW c \in Cont, NEW handed \in BOOLEAN,
         \/ RecordUndecodable(c) \/ ParkCapabilityRevoked(c) \/ ParkFailed(c) \/ ParkCondition(c, handed)
  PROVE  StoreTypeOK(Owner)'
<1>1. Advance(c) \in [Cont -> Nat]
  BY AdvanceType
<1>2. \A class \in CondClass : Signal(c, class, TRUE) \in [Cont -> Seq(CondRow)]
  BY SignalType DEF StoreTypeOK
<1>3. BareWake("manual") \in Wake
  BY BareWakeType DEF WakeKind
<1>4. CASE RecordUndecodable(c) \/ ParkFailed(c)
  BY <1>1, <1>2, <1>4 DEF RecordUndecodable, ParkFailed, StoreTypeOK, Status, CondClass, history
<1>5. CASE ParkCapabilityRevoked(c)
  BY <1>1, <1>2, <1>3, <1>5 DEF ParkCapabilityRevoked, StoreTypeOK, Status, CondClass, history
<1>6. CASE ParkCondition(c, handed)
  <2>1. receipts' \in [Msg -> Nat]
    BY <1>6, ConsumeType DEF ParkCondition
  <2>2. performed' \subseteq Cont \X Nat
    BY <1>6 DEF ParkCondition, StoreTypeOK
  <2> QED BY <1>1, <1>2, <1>3, <1>6, <2>1, <2>2
          DEF ParkCondition, StoreTypeOK, Status, ParkKind, CondClass
<1> QED BY <1>4, <1>5, <1>6

LEMMA ParkSleepingType ==
  ASSUME StoreTypeOK(Owner), NEW c \in Cont, NEW handed \in BOOLEAN, NEW e \in Effect, NEW w \in Wake,
         ParkSleeping(c, w, e), Consume(c, handed)
  PROVE  StoreTypeOK(Owner)'
<1>1. Advance(c) \in [Cont -> Nat]
  BY AdvanceType
<1>2. StatusAfterSend(e.to) \in [Cont -> Status] /\ WakeAfterSend(e.msg, e.to) \in [Cont -> Wake]
  BY StatusAfterSendType, WakeAfterSendType, EffectType DEF StoreTypeOK
<1>3. ClaimAfterSend(e.msg, e.to) \in [Msg -> Cont \cup {None}]
  BY ClaimAfterSendType, EffectType DEF StoreTypeOK
<1>4. Enqueue({e.to}, seq) \in [Cont -> Seq(RowT)]
  BY EnqueueType DEF StoreTypeOK, RowT
<1>5. receipts' \in [Msg -> Nat]
  BY ConsumeType
<1>6. /\ sent' \subseteq Msg
      /\ outbox' \subseteq Cont \X Nat \X {"mail", "send"}
      /\ performed' \subseteq Cont \X Nat
  BY WriteEffectsType DEF ParkSleeping
<1> QED BY <1>1, <1>2, <1>3, <1>4, <1>5, <1>6 DEF ParkSleeping, StoreTypeOK, RowT, Status, ParkKind

LEMMA ParkMessageType ==
  ASSUME StoreTypeOK(Owner), NEW c \in Cont, NEW handed \in BOOLEAN, NEW e \in Effect, NEW t \in Topic \cup {None},
         ParkMessage(c, t, e), Consume(c, handed)
  PROVE  StoreTypeOK(Owner)'
<1>1. CASE ParkSleeping(c, MessageWake(t, None), e)
  BY <1>1, ParkSleepingType, MessageWakeType
<1>2. ASSUME NEW m \in Waiting(t, e),
             /\ WriteEffects(c, e)
             /\ seq' = Advance(c)
             /\ status' = [StatusAfterSend(e.to) EXCEPT ![c] = "ready"]
             /\ frames' = [frames EXCEPT ![c] = "wake"]
             /\ wake' = [WakeAfterSend(e.msg, e.to) EXCEPT ![c] = MessageWake(t, m)]
             /\ claimedBy' = [ClaimAfterSend(e.msg, e.to) EXCEPT ![m] = c]
             /\ tasks' = Enqueue({e.to, c}, seq')
             /\ UNCHANGED <<parent, conds>>
      PROVE  StoreTypeOK(Owner)'
  <2>1. m \in Msg
    BY EffectType DEF Waiting, StoreTypeOK
  <2>2. seq' \in [Cont -> Nat]
    BY <1>2, AdvanceType
  <2>3. StatusAfterSend(e.to) \in [Cont -> Status] /\ WakeAfterSend(e.msg, e.to) \in [Cont -> Wake]
    BY StatusAfterSendType, WakeAfterSendType, EffectType DEF StoreTypeOK
  <2>4. ClaimAfterSend(e.msg, e.to) \in [Msg -> Cont \cup {None}]
    BY ClaimAfterSendType, EffectType DEF StoreTypeOK
  <2>5. tasks' \in [Cont -> Seq(RowT)]
    BY <1>2, <2>2, EnqueueType DEF StoreTypeOK, RowT
  <2>6. MessageWake(t, m) \in Wake
    BY <2>1, MessageWakeType
  <2>7. receipts' \in [Msg -> Nat]
    BY ConsumeType
  <2>8. /\ sent' \subseteq Msg
        /\ outbox' \subseteq Cont \X Nat \X {"mail", "send"}
        /\ performed' \subseteq Cont \X Nat
    BY <1>2, WriteEffectsType
  <2> QED BY <1>2, <2>1, <2>2, <2>3, <2>4, <2>5, <2>6, <2>7, <2>8
          DEF StoreTypeOK, RowT, Status, ParkKind
<1> QED BY <1>1, <1>2 DEF ParkMessage

LEMMA ParkJoinType ==
  ASSUME StoreTypeOK(Owner), NEW c \in Cont, NEW handed \in BOOLEAN, NEW e \in Effect, NEW S \in SUBSET (Cont \ {c}),
         NEW race \in BOOLEAN, ParkJoin(c, S, race, e), Consume(c, handed)
  PROVE  StoreTypeOK(Owner)'
<1>1. seq' \in [Cont -> Nat] /\ parent' \in [Cont -> Cont \cup {None}]
  BY DEF ParkJoin, StoreTypeOK
<1>2. StatusAfterSend(e.to) \in [Cont -> Status] /\ WakeAfterSend(e.msg, e.to) \in [Cont -> Wake]
  BY StatusAfterSendType, WakeAfterSendType, EffectType DEF StoreTypeOK
<1>3. status' \in [Cont -> Status] /\ frames' \in [Cont -> ParkKind]
  BY <1>2 DEF ParkJoin, StoreTypeOK, Status, ParkKind
<1>4. wake' \in [Cont -> Wake]
  <2>1. JoinWake(S, race) \in Wake /\ BareWake("timer") \in Wake
    BY JoinWakeType, BareWakeType DEF WakeKind
  <2> QED BY <1>2, <2>1 DEF ParkJoin
<1>5. claimedBy' \in [Msg -> Cont \cup {None}]
  BY ClaimAfterSendType, EffectType DEF ParkJoin, StoreTypeOK
<1>6. tasks' \in [Cont -> Seq(RowT)]
  BY <1>1, EnqueueType DEF ParkJoin, StoreTypeOK, RowT
<1>7. receipts' \in [Msg -> Nat]
  BY ConsumeType
<1>8. /\ sent' \subseteq Msg
      /\ outbox' \subseteq Cont \X Nat \X {"mail", "send"}
      /\ performed' \subseteq Cont \X Nat
  BY WriteEffectsType DEF ParkJoin
<1>9. UNCHANGED conds
  BY DEF ParkJoin
<1> QED BY <1>1, <1>3, <1>4, <1>5, <1>6, <1>7, <1>8, <1>9 DEF StoreTypeOK, RowT

LEMMA ParkDoneType ==
  ASSUME StoreTypeOK(Owner), NEW c \in Cont, NEW handed \in BOOLEAN, NEW e \in Effect, ParkDone(c, e), Consume(c, handed)
  PROVE  StoreTypeOK(Owner)'
<1> DEFINE s == [StatusAfterSend(e.to) EXCEPT ![c] = "done"]
           P == Settled(c, s)
<1>1. seq' \in [Cont -> Nat] /\ frames' \in [Cont -> ParkKind]
  BY AdvanceType DEF ParkDone, StoreTypeOK, ParkKind
<1>2. s \in [Cont -> Status] /\ WakeAfterSend(e.msg, e.to) \in [Cont -> Wake]
  BY StatusAfterSendType, WakeAfterSendType, EffectType DEF StoreTypeOK, Status
<1>3. status' = [x \in Cont |-> IF x \in P THEN "ready"
                                ELSE IF x \in Losers(c, P, s) THEN "cancelled" ELSE s[x]]
  BY DEF ParkDone
<1>4. status' \in [Cont -> Status]
  <2> HIDE DEF s, P
  <2> QED BY <1>2, <1>3 DEF Status
<1>5. wake' = [x \in Cont |-> IF x \in P /\ wake[x].race THEN [wake[x] EXCEPT !.winner = c]
                              ELSE WakeAfterSend(e.msg, e.to)[x]]
  BY DEF ParkDone
<1>6. wake' \in [Cont -> Wake]
  <2>1. \A x \in Cont : [wake[x] EXCEPT !.winner = c] \in Wake
    BY WinnerType DEF StoreTypeOK
  <2> HIDE DEF s, P
  <2> QED BY <1>2, <1>5, <2>1
<1>7. claimedBy' \in [Msg -> Cont \cup {None}]
  BY ClaimAfterSendType, EffectType DEF ParkDone, StoreTypeOK
<1>8. tasks' \in [Cont -> Seq(RowT)]
  <2>1. tasks' = Enqueue(P \cup {e.to}, seq')
    BY DEF ParkDone
  <2> HIDE DEF s, P
  <2> QED BY <1>1, <2>1, EnqueueType DEF StoreTypeOK, RowT
<1>9. receipts' \in [Msg -> Nat]
  BY ConsumeType
<1>10. /\ sent' \subseteq Msg
       /\ outbox' \subseteq Cont \X Nat \X {"mail", "send"}
       /\ performed' \subseteq Cont \X Nat
  BY WriteEffectsType DEF ParkDone
<1>11. UNCHANGED <<parent, conds>>
  BY DEF ParkDone
<1> QED BY <1>1, <1>4, <1>6, <1>7, <1>8, <1>9, <1>10, <1>11 DEF StoreTypeOK, RowT

LEMMA ParkOutcomeType ==
  ASSUME StoreTypeOK(Owner), NEW c \in Cont, NEW handed \in BOOLEAN, ParkOutcome(c, handed) \/ ParkChildren(c)
  PROVE  StoreTypeOK(Owner)'
<1>1. CASE ParkOutcome(c, handed)
  <2>1. PICK e \in Effect :
           \/ ParkDone(c, e)
           \/ ParkTimer(c, e)
           \/ \E t \in Topic \cup {None} : ParkEvent(c, t, e) \/ ParkMessage(c, t, e)
    BY <1>1 DEF ParkOutcome
  <2>2. Consume(c, handed)
    BY <1>1 DEF ParkOutcome
  <2>3. CASE ParkDone(c, e)
    BY <2>2, <2>3, ParkDoneType
  <2>4. CASE ParkTimer(c, e)
    BY <2>2, <2>4, ParkSleepingType, BareWakeType DEF ParkTimer, WakeKind
  <2>5. ASSUME NEW t \in Topic \cup {None}, ParkEvent(c, t, e) PROVE StoreTypeOK(Owner)'
    BY <2>2, <2>5, ParkSleepingType, EventWakeType DEF ParkEvent
  <2>6. ASSUME NEW t \in Topic \cup {None}, ParkMessage(c, t, e) PROVE StoreTypeOK(Owner)'
    BY <2>2, <2>6, ParkMessageType
  <2> QED BY <2>1, <2>3, <2>4, <2>5, <2>6
<1>2. CASE ParkChildren(c)
  <2>1. PICK e \in Effect, S \in SUBSET (Cont \ {c}), race \in BOOLEAN : ParkJoin(c, S, race, e)
    BY <1>2 DEF ParkChildren
  <2>2. Consume(c, TRUE)
    BY <1>2 DEF ParkChildren
  <2> QED BY <2>1, <2>2, ParkJoinType
<1> QED BY <1>1, <1>2

\* The doors of the store keep it typed.
LEMMA DoorType ==
  ASSUME StoreTypeOK(Owner),
         \/ \E c \in Cont : StartWorkflow(c) \/ Park(c)
         \/ \E m \in Msg : SendChannel(m)
         \/ TimerOnce
         \/ \E t \in Topic : WakeEvents(t)
         \/ \E c \in Cont : \E x \in DOMAIN conds[c] : \E choice \in Choice : PickRestart(c, x, choice)
  PROVE  StoreTypeOK(Owner)'
<1>1. ASSUME NEW c \in Cont, StartWorkflow(c) PROVE StoreTypeOK(Owner)'
  <2>1. seq' \in [Cont -> Nat] /\ BareWake("timer") \in Wake
    BY <1>1, BareWakeType DEF StartWorkflow, StoreTypeOK, WakeKind
  <2>2. tasks' \in [Cont -> Seq(RowT)]
    BY <1>1, <2>1, EnqueueType DEF StartWorkflow, StoreTypeOK, RowT
  <2> QED BY <1>1, <2>1, <2>2 DEF StartWorkflow, StoreTypeOK, RowT, Status, ParkKind, history
<1>2. ASSUME NEW c \in Cont, Park(c) PROVE StoreTypeOK(Owner)'
  <2>1. seq' \in [Cont -> Nat] /\ BareWake("manual") \in Wake
    BY <1>2, BareWakeType DEF Park, StoreTypeOK, WakeKind
  <2>2. conds' \in [Cont -> Seq(CondRow)]
    BY <1>2, SignalType DEF Park, StoreTypeOK, CondClass
  <2> QED BY <1>2, <2>1, <2>2 DEF Park, StoreTypeOK, Status, ParkKind, history
<1>3. ASSUME NEW m \in Msg, SendChannel(m) PROVE StoreTypeOK(Owner)'
  <2>1. PICK r \in Recipient(m) : /\ status' = StatusAfterSend(r)
                                  /\ wake' = WakeAfterSend(m, r)
                                  /\ claimedBy' = ClaimAfterSend(m, r)
                                  /\ tasks' = Enqueue({r}, seq)
    BY <1>3 DEF SendChannel
  <2>2. r \in Cont \cup {None}
    BY RecipientType
  <2>3. tasks' \in [Cont -> Seq(RowT)]
    BY <2>1, EnqueueType DEF StoreTypeOK, RowT
  <2>4. status' \in [Cont -> Status] /\ wake' \in [Cont -> Wake]
    BY <2>1, StatusAfterSendType, WakeAfterSendType DEF StoreTypeOK
  <2>5. claimedBy' \in [Msg -> Cont \cup {None}]
    BY <2>1, <2>2, ClaimAfterSendType DEF StoreTypeOK
  <2> QED BY <1>3, <2>3, <2>4, <2>5 DEF SendChannel, StoreTypeOK, RowT, history
<1>4. ASSUME NEW W, WakeAll(W) PROVE StoreTypeOK(Owner)'
  <2>1. tasks' \in [Cont -> Seq(RowT)]
    BY <1>4, EnqueueType DEF WakeAll, StoreTypeOK, RowT
  <2> QED BY <1>4, <2>1 DEF WakeAll, StoreTypeOK, RowT, Status, history
<1>5. ASSUME NEW c \in Cont, NEW x \in DOMAIN conds[c], NEW choice \in Choice,
             PickRestart(c, x, choice)
      PROVE  StoreTypeOK(Owner)'
  <2>1. tasks' \in [Cont -> Seq(RowT)]
    BY <1>5, EnqueueType DEF PickRestart, StoreTypeOK, RowT
  <2>2. conds' \in [Cont -> Seq(CondRow)]
    <3>1. conds[c] \in Seq(CondRow) /\ x \in 1 .. Len(conds[c])
      BY DEF StoreTypeOK
    <3>2. [conds[c][x] EXCEPT !.status = "resolved", !.choice = choice] \in CondRow
      BY <3>1, ElementOfSeq, ResolvedType
    <3>3. [conds[c] EXCEPT ![x] = [conds[c][x] EXCEPT !.status = "resolved", !.choice = choice]]
            \in Seq(CondRow)
      BY <3>1, <3>2, ExceptSeq
    <3>4. conds' = [conds EXCEPT ![c] =
            [conds[c] EXCEPT ![x] = [conds[c][x] EXCEPT !.status = "resolved", !.choice = choice]]]
      BY <1>5 DEF PickRestart
    <3> QED BY <3>3, <3>4 DEF StoreTypeOK
  <2> QED BY <1>5, <2>1, <2>2 DEF PickRestart, StoreTypeOK, RowT, Status, history
<1> QED BY <1>1, <1>2, <1>3, <1>4, <1>5 DEF TimerOnce, WakeEvents

---------------------------------------------------------------------------
(* The reactor.                                                            *)

\* A reference to a task that exists.
LEMMA RefsAre ==
  ASSUME tasks \in [Cont -> Seq(RowT)], NEW r \in Refs
  PROVE  /\ r \in Ref /\ r = <<r[1], r[2]>>
         /\ r[1] \in Cont /\ r[2] \in 1 .. Len(tasks[r[1]])
         /\ Row(r) \in RowT
<1>0. PICK c \in Cont : \E i \in DOMAIN tasks[c] : r = <<c, i>>
  BY DEF Refs
<1>1. PICK i \in DOMAIN tasks[c] : r = <<c, i>>
  BY <1>0
<1>2. tasks[c] \in Seq(RowT) /\ i \in 1 .. Len(tasks[c])
  BY <1>1
<1> QED BY <1>1, <1>2, ElementOfSeq DEF Ref, Row

\* Writing status and owner of an existing task row.
LEMMA SetRowType ==
  ASSUME tasks \in [Cont -> Seq(RowT)], NEW r \in Refs, NEW v \in TaskState, NEW o \in Owner
  PROVE  /\ SetRow(r, v, o) \in [Cont -> Seq(RowT)]
         /\ \A c \in Cont : DOMAIN SetRow(r, v, o)[c] = DOMAIN tasks[c]
         /\ \A c \in Cont : \A i \in DOMAIN tasks[c] :
              /\ SetRow(r, v, o)[c][i].seq = tasks[c][i].seq
              /\ <<c, i>> = r => SetRow(r, v, o)[c][i].status = v
              /\ <<c, i>> # r => SetRow(r, v, o)[c][i].status = tasks[c][i].status
<1> DEFINE d == r[1]
           j == r[2]
           row == [tasks[d][j] EXCEPT !.status = v, !.owner = o]
<1>1. d \in Cont /\ j \in 1 .. Len(tasks[d]) /\ tasks[d][j] \in RowT /\ r = <<d, j>>
  BY RefsAre DEF Row
<1>2. row \in RowT
  <2>1. \A q \in RowT : [q EXCEPT !.status = v] \in RowT
    BY DEF RowT, TaskRow
  <2>2. \A q \in RowT : [q EXCEPT !.owner = o] \in RowT
    BY DEF RowT, TaskRow
  <2>3. row = [[tasks[d][j] EXCEPT !.status = v] EXCEPT !.owner = o]
    OBVIOUS
  <2> QED BY <1>1, <2>1, <2>2, <2>3
<1>3. SetRow(r, v, o) = [tasks EXCEPT ![d] = [tasks[d] EXCEPT ![j] = row]]
  BY <1>1 DEF SetRow
<1>4. /\ [tasks[d] EXCEPT ![j] = row] \in Seq(RowT)
      /\ Len([tasks[d] EXCEPT ![j] = row]) = Len(tasks[d])
      /\ \A i \in 1 .. Len(tasks[d]) :
           [tasks[d] EXCEPT ![j] = row][i] = IF i = j THEN row ELSE tasks[d][i]
  BY <1>1, <1>2, ExceptSeq
<1> HIDE DEF row, d, j
<1>5. SetRow(r, v, o) \in [Cont -> Seq(RowT)] /\ \A c \in Cont : DOMAIN SetRow(r, v, o)[c] = DOMAIN tasks[c]
  BY ZenonT(90), <1>1, <1>3, <1>4
<1>6. row.seq = tasks[d][j].seq /\ row.status = v
  BY <1>1 DEF row, RowT, TaskRow
<1>7. ASSUME NEW c \in Cont, NEW i \in DOMAIN tasks[c]
      PROVE  SetRow(r, v, o)[c][i] = IF <<c, i>> = r THEN row ELSE tasks[c][i]
  <2>1. CASE c = d
    <3>1. i \in 1 .. Len(tasks[d])
      BY <2>1
    <3> QED BY <1>1, <1>3, <1>4, <2>1, <3>1
  <2>2. CASE c # d
    BY <1>1, <1>3, <2>2
  <2> QED BY <2>1, <2>2
<1>8. ASSUME NEW c \in Cont, NEW i \in DOMAIN tasks[c], <<c, i>> = r PROVE c = d /\ i = j
  BY <1>1, <1>8
<1> QED BY <1>5, <1>6, <1>7, <1>8

---------------------------------------------------------------------------
(* The tasks a kernel has in hand exist: what makes ReadyIsDriven          *)
(* inductive, because a task just enqueued is then in nobody's hand.       *)
RefsExist ==
  \A k \in Kernel : /\ \A h \in batch[k] : h.ref \in Refs
                    /\ cur[k].pc \in {"finish", "dead"} => cur[k].ref \in Refs
                    /\ cur[k].pc # "idle" => cur[k].ref \in Ref

IInv == TypeOK /\ RefsExist /\ ReadyIsDriven

\* A store action appends at most one task to a continuation, at its new step_seq.
Grows ==
  \A x \in Cont : \/ tasks'[x] = tasks[x]
                  \/ tasks'[x] = Append(tasks[x], FreshTask(seq'[x]))

\* Every continuation it leaves ready got that task, unless it was ready
\* before and is not one of W, which the action steps.
Wakes(W) ==
  \A x \in Cont : status'[x] = "ready" =>
    \/ tasks'[x] = Append(tasks[x], FreshTask(seq'[x]))
    \/ /\ x \notin W
       /\ status[x] = "ready" /\ seq'[x] = seq[x] /\ tasks'[x] = tasks[x]

LEMMA GrowsRefs ==
  ASSUME tasks \in [Cont -> Seq(RowT)], seq' \in [Cont -> Nat], Grows
  PROVE  /\ \A r \in Refs : r \in Refs'
         /\ \A x \in Cont : \A i \in DOMAIN tasks[x] : /\ i \in DOMAIN tasks'[x]
                                                    /\ tasks'[x][i] = tasks[x][i]
<1>1. ASSUME NEW x \in Cont, NEW i \in DOMAIN tasks[x]
      PROVE  i \in DOMAIN tasks'[x] /\ tasks'[x][i] = tasks[x][i]
  <2>1. tasks[x] \in Seq(RowT) /\ i \in 1 .. Len(tasks[x])
    OBVIOUS
  <2>2. CASE tasks'[x] = tasks[x]
    BY <2>2
  <2>3. CASE tasks'[x] = Append(tasks[x], FreshTask(seq'[x]))
    <3>1. FreshTask(seq'[x]) \in RowT
      BY FreshTaskType
    <3> QED BY <2>1, <2>3, <3>1, AppendProperties
  <2> QED BY <2>2, <2>3 DEF Grows
<1>2. ASSUME NEW r \in Refs PROVE r \in Refs'
  <2>1. r \in Ref /\ r = <<r[1], r[2]>> /\ r[1] \in Cont /\ r[2] \in DOMAIN tasks[r[1]]
    BY RefsAre
  <2> QED BY <1>1, <2>1 DEF Refs
<1> QED BY <1>1, <1>2

\* What a store action must keep for every ready continuation to stay driven.
LEMMA StoreKeepsDriven ==
  ASSUME IInv, seq' \in [Cont -> Nat], Grows, NEW W, Wakes(W),
         \A k \in Kernel : cur'[k].pc = "finish" =>
            \/ cur'[k] = cur[k]
            \/ cur'[k].ref \in Refs /\ (cur'[k].verdict = "done" => cur'[k].ref[1] \in W)
  PROVE  ReadyIsDriven'
<1>1. tasks \in [Cont -> Seq(RowT)]
  BY DEF IInv, TypeOK, StoreTypeOK, RowT, Owner
<1>2. \A k \in Kernel : cur'[k].pc = "finish" => cur'[k].ref \in Refs
  BY DEF IInv, RefsExist
<1>3. ASSUME NEW x \in Cont, status'[x] = "ready"
      PROVE  \E i \in DOMAIN tasks'[x] : Drives(x, i)'
  <2>1. CASE tasks'[x] = Append(tasks[x], FreshTask(seq'[x]))
    <3>1. tasks[x] \in Seq(RowT) /\ FreshTask(seq'[x]) \in RowT
      BY <1>1, FreshTaskType
    <3>n. PICK n \in Nat : n = Len(tasks[x]) + 1
      BY <3>1
    <3>2. n \in DOMAIN tasks'[x] /\ tasks'[x][n] = FreshTask(seq'[x])
      BY <2>1, <3>1, <3>n, AppendProperties
    <3>3. <<x, n>> \notin Refs
      BY <1>1, <3>n, RefsAre
    <3>4. tasks'[x][n].seq = seq'[x] /\ tasks'[x][n].status # "done"
      BY <3>2 DEF FreshTask
    <3>5. \A k \in Kernel : ~(cur'[k].pc = "finish" /\ cur'[k].ref = <<x, n>>)
      BY <1>2, <3>3
    <3>6. Drives(x, n)'
      BY <3>4, <3>5 DEF Drives
    <3> QED BY <3>2, <3>6
  <2>2. CASE x \notin W /\ status[x] = "ready" /\ seq'[x] = seq[x] /\ tasks'[x] = tasks[x]
    <3>1. PICK i \in DOMAIN tasks[x] : Drives(x, i)
      BY <2>2 DEF IInv, ReadyIsDriven
    <3>2. ASSUME NEW k \in Kernel, cur'[k].pc = "finish", cur'[k].ref = <<x, i>>,
                 cur'[k].verdict = "done"
          PROVE  FALSE
      BY <2>2, <3>1, <3>2 DEF Drives
    <3>3. /\ tasks'[x][i].seq = seq'[x] /\ tasks'[x][i].status # "done"
          /\ i \in DOMAIN tasks'[x]
      BY <2>2, <3>1 DEF Drives
    <3>4. Drives(x, i)'
      BY <3>2, <3>3 DEF Drives
    <3> QED BY <3>3, <3>4
  <2> QED BY <1>3, <2>1, <2>2 DEF Wakes
<1> QED BY <1>3 DEF ReadyIsDriven

\* The two halves for an action that enqueues W at the new step_seq.
LEMMA EnqueueGrows ==
  ASSUME NEW W, tasks' = Enqueue(W, seq') PROVE Grows
BY DEF Enqueue, Grows

LEMMA EnqueueWakes ==
  ASSUME NEW W, NEW D, tasks' = Enqueue(W, seq'),
         \A x \in Cont : status'[x] = "ready" =>
            x \in W \/ (x \notin D /\ status[x] = "ready" /\ seq'[x] = seq[x])
  PROVE  Wakes(D)
BY DEF Enqueue, Wakes

\* Enqueuing continuations the action does not step, at the old step_seq.
LEMMA EnqueueOld ==
  ASSUME NEW W, tasks' = Enqueue(W, seq), \A x \in Cont \cap W : seq'[x] = seq[x]
  PROVE  tasks' = Enqueue(W, seq')
BY DEF Enqueue

LEMMA ParkSleepingDrives ==
  ASSUME StoreTypeOK(Owner), NEW c \in Cont, status[c] = "ready", NEW e \in Effect, NEW w,
         ParkSleeping(c, w, e)
  PROVE  Grows /\ Wakes({c})
<1>1. e.to = None \/ (e.to \in Cont /\ status[e.to] = "sleeping")
  BY EffectType
<1>2. \A x \in Cont : x # c => seq'[x] = seq[x]
  BY DEF ParkSleeping, Advance, StoreTypeOK
<1>3. None \notin Cont
  BY StoreAssumption
<1>4. tasks' = Enqueue({e.to}, seq')
  BY <1>1, <1>2, <1>3, EnqueueOld DEF ParkSleeping
<1>5. \A x \in Cont : status'[x] = "ready" => x = e.to \/ (x # c /\ status[x] = "ready")
  BY <1>1 DEF ParkSleeping, StatusAfterSend, StoreTypeOK
<1> QED BY <1>2, <1>4, <1>5, EnqueueGrows, EnqueueWakes

LEMMA ParkMessageDrives ==
  ASSUME StoreTypeOK(Owner), NEW c \in Cont, status[c] = "ready", NEW e \in Effect, NEW t,
         ParkMessage(c, t, e)
  PROVE  Grows /\ Wakes({c})
<1>1. CASE ParkSleeping(c, MessageWake(t, None), e)
  BY <1>1, ParkSleepingDrives
<1>2. CASE /\ seq' = Advance(c)
           /\ status' = [StatusAfterSend(e.to) EXCEPT ![c] = "ready"]
           /\ tasks' = Enqueue({e.to, c}, seq')
  <2>1. \A x \in Cont : x # c => seq'[x] = seq[x]
    BY <1>2 DEF Advance, StoreTypeOK
  <2>2. \A x \in Cont : status'[x] = "ready" => x \in {e.to, c} \/ (x # c /\ status[x] = "ready")
    BY <1>2 DEF StatusAfterSend, StoreTypeOK
  <2> QED BY <1>2, <2>1, <2>2, EnqueueGrows, EnqueueWakes
<1> QED BY <1>1, <1>2 DEF ParkMessage

LEMMA ParkJoinDrives ==
  ASSUME StoreTypeOK(Owner), NEW c \in Cont, status[c] = "ready", NEW e \in Effect, NEW S, NEW race,
         ParkJoin(c, S, race, e)
  PROVE  Grows /\ Wakes({c})
<1>1. \A x \in Cont : x # c /\ x \notin S => seq'[x] = seq[x]
  BY DEF ParkJoin
<1>2. \A x \in Cont : status'[x] = "ready" => x \in S \cup {e.to} \/ (x # c /\ x \notin S /\ status[x] = "ready")
  BY DEF ParkJoin, StatusAfterSend, StoreTypeOK
<1>3. tasks' = Enqueue(S \cup {e.to}, seq')
  BY DEF ParkJoin
<1> QED BY <1>1, <1>2, <1>3, EnqueueGrows, EnqueueWakes

LEMMA ParkDoneDrives ==
  ASSUME StoreTypeOK(Owner), NEW c \in Cont, status[c] = "ready", NEW e \in Effect, ParkDone(c, e)
  PROVE  Grows /\ Wakes({c})
<1> DEFINE s == [StatusAfterSend(e.to) EXCEPT ![c] = "done"]
           P == Settled(c, s)
<1>1. tasks' = Enqueue(P \cup {e.to}, seq')
  BY DEF ParkDone
<1>2. \A x \in Cont : x # c => seq'[x] = seq[x]
  BY DEF ParkDone, Advance, StoreTypeOK
<1>3. \A x \in Cont : status'[x] = "ready" => x \in P \/ s[x] = "ready"
  BY DEF ParkDone
<1>4. \A x \in Cont : s[x] = "ready" => x = e.to \/ (x # c /\ status[x] = "ready")
  BY DEF StatusAfterSend, StoreTypeOK
<1> HIDE DEF s, P
<1> QED BY <1>1, <1>2, <1>3, <1>4, EnqueueGrows, EnqueueWakes

\* Whatever way the step of c ends, every continuation it leaves ready is driven.
Steps(c) == \/ \E handed \in BOOLEAN : ParkOutcome(c, handed) \/ ParkCondition(c, handed)
            \/ ParkChildren(c)
            \/ ParkFailed(c) \/ ParkCapabilityRevoked(c) \/ RecordUndecodable(c)

LEMMA StepDrives ==
  ASSUME StoreTypeOK(Owner), NEW c \in Cont, status[c] = "ready", Steps(c)
  PROVE  Grows /\ Wakes({c})
<1>1. ASSUME NEW handed \in BOOLEAN, ParkOutcome(c, handed) PROVE Grows /\ Wakes({c})
  <2>1. PICK e \in Effect :
           \/ ParkDone(c, e)
           \/ ParkTimer(c, e)
           \/ \E t \in Topic \cup {None} : ParkEvent(c, t, e) \/ ParkMessage(c, t, e)
    BY <1>1 DEF ParkOutcome
  <2> QED BY <2>1, ParkDoneDrives, ParkSleepingDrives, ParkMessageDrives DEF ParkTimer, ParkEvent
<1>2. CASE ParkChildren(c)
  BY <1>2, ParkJoinDrives DEF ParkChildren
<1>3. CASE (\E handed \in BOOLEAN : ParkCondition(c, handed)) \/ ParkFailed(c) \/ ParkCapabilityRevoked(c) \/ RecordUndecodable(c)
  BY <1>3 DEF ParkCondition, ParkFailed, ParkCapabilityRevoked, RecordUndecodable, Grows, Wakes,
              Advance, StoreTypeOK
<1> QED BY <1>1, <1>2, <1>3 DEF Steps

\* ... and so does every other door of the store.
LEMMA DoorDrives ==
  ASSUME StoreTypeOK(Owner),
         \/ \E c \in Cont : StartWorkflow(c) \/ Park(c)
         \/ \E m \in Msg : SendChannel(m)
         \/ TimerOnce
         \/ \E t \in Topic : WakeEvents(t)
         \/ \E c \in Cont : \E x \in DOMAIN conds[c] : \E choice \in Choice : PickRestart(c, x, choice)
  PROVE  Grows /\ Wakes({})
<1>1. ASSUME NEW c \in Cont, StartWorkflow(c) PROVE Grows /\ Wakes({})
  BY <1>1, EnqueueGrows, EnqueueWakes DEF StartWorkflow, StoreTypeOK
<1>2. ASSUME NEW c \in Cont, Park(c) PROVE Grows /\ Wakes({})
  BY <1>2 DEF Park, Grows, Wakes, StoreTypeOK
<1>3. ASSUME NEW m \in Msg, SendChannel(m) PROVE Grows /\ Wakes({})
  <2>1. PICK r \in Recipient(m) : status' = StatusAfterSend(r) /\ tasks' = Enqueue({r}, seq)
    BY <1>3 DEF SendChannel
  <2>2. seq' = seq
    BY <1>3 DEF SendChannel
  <2>3. \A x \in Cont : status'[x] = "ready" => x = r \/ status[x] = "ready"
    BY <2>1 DEF StatusAfterSend, StoreTypeOK
  <2> QED BY <2>1, <2>2, <2>3, EnqueueGrows, EnqueueWakes
<1>4. ASSUME NEW W, WakeAll(W) PROVE Grows /\ Wakes({})
  BY <1>4, EnqueueGrows, EnqueueWakes DEF WakeAll, StoreTypeOK
<1>5. ASSUME NEW c \in Cont, NEW x \in DOMAIN conds[c], NEW choice \in Choice,
             PickRestart(c, x, choice)
      PROVE  Grows /\ Wakes({})
  BY ZenonT(90), <1>5, EnqueueGrows, EnqueueWakes DEF PickRestart, StoreTypeOK
<1> QED BY <1>1, <1>2, <1>3, <1>4, <1>5 DEF TimerOnce, WakeEvents

---------------------------------------------------------------------------
(* The inductive step, by the shape of what an action does to the tasks.   *)

\* The state of the reactor itself.
ReactorTypeOK ==
  /\ up \subseteq Kernel
  /\ batch \in [Kernel -> SUBSET Held]
  /\ cur \in [Kernel -> Current]
  /\ direct \subseteq Cont
  /\ faults \in Nat

LEMMA IInvTasks == ASSUME IInv PROVE tasks \in [Cont -> Seq(RowT)]
BY DEF IInv, TypeOK, StoreTypeOK, RowT, Owner

\* The hands of the kernels stay in order: nothing new but r, which exists.
HandsKept ==
  \A k \in Kernel :
    /\ batch'[k] \subseteq batch[k]
    /\ cur'[k] = cur[k] \/ cur'[k].pc = "idle" \/ (cur'[k].ref \in Refs /\ cur'[k].ref \in Ref)

LEMMA RefsKept ==
  ASSUME RefsExist, HandsKept, \A r \in Refs : r \in Refs' PROVE RefsExist'
BY DEF RefsExist, HandsKept

\* An action of the store, and what the reactor does with it.
LEMMA StoreInv ==
  ASSUME IInv, StoreTypeOK(Owner)', ReactorTypeOK', HandsKept, Grows, NEW W, Wakes(W),
         \A k \in Kernel : cur'[k].pc = "finish" =>
            \/ cur'[k] = cur[k]
            \/ cur'[k].ref \in Refs /\ (cur'[k].verdict = "done" => cur'[k].ref[1] \in W)
  PROVE  IInv'
<1>1. seq' \in [Cont -> Nat]
  BY DEF StoreTypeOK
<1>2. \A r \in Refs : r \in Refs'
  BY <1>1, IInvTasks, GrowsRefs
<1>3. RefsExist'
  BY <1>2, RefsKept DEF IInv
<1>4. ReadyIsDriven'
  BY <1>1, StoreKeepsDriven
<1>5. TypeOK'
  BY DEF TypeOK, ReactorTypeOK, Owner
<1> QED BY <1>3, <1>4, <1>5 DEF IInv

\* An action that writes one task row, and closes it only when it drives nothing.
LEMMA RowInv ==
  ASSUME IInv, NEW r \in Refs, NEW v \in TaskState, tasks' = SetRow(r, v, None),
         UNCHANGED <<status, seq, frames, wake, parent, conds, sent, claimedBy, outbox, history>>,
         v = "done" => \A x \in Cont : \A i \in DOMAIN tasks[x] : Drives(x, i) => <<x, i>> # r,
         ReactorTypeOK', HandsKept,
         \A k \in Kernel : cur'[k] = cur[k] \/ cur'[k].pc # "finish"
  PROVE  IInv'
<1>1. tasks \in [Cont -> Seq(RowT)] /\ None \in Owner
  BY IInvTasks DEF Owner
<1>2. tasks' \in [Cont -> Seq(RowT)]
  BY <1>1, SetRowType
<1>3. \A c \in Cont : DOMAIN tasks'[c] = DOMAIN tasks[c]
  BY <1>1, SetRowType
<1>4. \A c \in Cont : \A i \in DOMAIN tasks[c] :
         /\ tasks'[c][i].seq = tasks[c][i].seq
         /\ <<c, i>> = r => tasks'[c][i].status = v
         /\ <<c, i>> # r => tasks'[c][i].status = tasks[c][i].status
  BY <1>1, SetRowType
<1>5. ReadyIsDriven'
  <2> SUFFICES ASSUME NEW x \in Cont, status'[x] = "ready"
               PROVE  \E i \in DOMAIN tasks'[x] : Drives(x, i)'
    BY DEF ReadyIsDriven
  <2>1. PICK i \in DOMAIN tasks[x] : Drives(x, i)
    BY DEF IInv, ReadyIsDriven
  <2>2. tasks'[x][i].seq = seq'[x] /\ tasks'[x][i].status # "done"
    BY <1>4, <2>1 DEF Drives
  <2>3. ASSUME NEW k \in Kernel, cur'[k].pc = "finish", cur'[k].ref = <<x, i>>,
               cur'[k].verdict = "done"
        PROVE  FALSE
    BY <2>1, <2>3 DEF Drives
  <2>4. Drives(x, i)'
    BY <2>2, <2>3 DEF Drives
  <2> QED BY <1>3, <2>4
<1>6. RefsExist'
  <2>1. \A q \in Refs : q \in Refs'
    BY <1>3 DEF Refs
  <2> QED BY <2>1, RefsKept DEF IInv
<1>7. TypeOK'
  <2>1. StoreTypeOK(Owner)'
    BY <1>2 DEF IInv, TypeOK, StoreTypeOK, RowT, Owner, history
  <2> QED BY <2>1 DEF TypeOK, ReactorTypeOK, Owner
<1> QED BY <1>5, <1>6, <1>7 DEF IInv

\* An action that leaves continuations and tasks alone.
LEMMA StillInv ==
  ASSUME IInv, UNCHANGED <<status, seq, tasks>>, StoreTypeOK(Owner)', ReactorTypeOK', HandsKept,
         \A k \in Kernel : cur'[k].pc = "finish" /\ cur'[k].verdict = "done" =>
            \/ cur'[k] = cur[k]
            \/ \A x \in Cont : \A i \in DOMAIN tasks[x] :
                 status[x] = "ready" /\ Drives(x, i) => <<x, i>> # cur'[k].ref
  PROVE  IInv'
<1>1. ReadyIsDriven'
  <2> SUFFICES ASSUME NEW x \in Cont, status'[x] = "ready"
               PROVE  \E i \in DOMAIN tasks'[x] : Drives(x, i)'
    BY DEF ReadyIsDriven
  <2>1. PICK i \in DOMAIN tasks[x] : Drives(x, i)
    BY DEF IInv, ReadyIsDriven
  <2>2. ASSUME NEW k \in Kernel, cur'[k].pc = "finish", cur'[k].ref = <<x, i>>,
               cur'[k].verdict = "done"
        PROVE  FALSE
    BY <2>1, <2>2 DEF Drives
  <2>3. Drives(x, i)'
    BY <2>1, <2>2 DEF Drives
  <2> QED BY <2>3
<1>2. RefsExist'
  BY RefsKept DEF IInv, Refs
<1>3. TypeOK'
  BY DEF TypeOK, ReactorTypeOK, Owner
<1> QED BY <1>1, <1>2, <1>3 DEF IInv

---------------------------------------------------------------------------
(* The invariant of the reactor, action by action.                         *)

LEMMA InitInv == ASSUME Init PROVE IInv
<1>1. BareWake("timer") \in Wake
  BY BareWakeType DEF WakeKind
<1>2. StoreTypeOK(Owner)
  BY <1>1 DEF Init, StoreInit, StoreTypeOK, Status, ParkKind
<1>3. ReactorTypeOK
  BY DEF Init, ReactorTypeOK, Idle, Current
<1>4. RefsExist /\ ReadyIsDriven
  BY DEF Init, StoreInit, Idle, RefsExist, ReadyIsDriven
<1> QED BY <1>2, <1>3, <1>4 DEF IInv, TypeOK, ReactorTypeOK, Owner

\* What the drain loop puts in its hand.
LEMMA InHandType ==
  ASSUME IInv, NEW k \in Kernel, NEW h, InHand(k, h)
  PROVE  /\ h.ref \in Refs /\ h.ref \in Ref /\ h.ref[1] \in Cont /\ h \in Held
         /\ \A v \in {"done", "ready", "dead"} : Finishing(h.ref, v) \in Current
         /\ Failing(h) \in Current /\ Failing(h).ref = h.ref /\ Failing(h).verdict # "done"
<1>1. h.ref \in Refs
  BY DEF InHand, IInv, RefsExist
<1>2. h.ref \in Ref /\ h.ref[1] \in Cont
  BY <1>1, IInvTasks, RefsAre
<1>3. h \in Held
  BY DEF InHand, IInv, TypeOK
<1> QED BY <1>1, <1>2, <1>3 DEF Finishing, Failing, Current

LEMMA TakeType ==
  ASSUME IInv, NEW k \in Kernel, NEW h, InHand(k, h), NEW next \in Current, next.ref = h.ref,
         Take(k, h, next), UNCHANGED <<up, direct>>, faults' \in Nat
  PROVE  /\ ReactorTypeOK' /\ HandsKept
         /\ \A j \in Kernel : cur'[j] = cur[j] \/ cur'[j] = next
<1>1. h.ref \in Refs /\ h.ref \in Ref
  BY InHandType
<1>2. ReactorTypeOK'
  BY DEF Take, ReactorTypeOK, IInv, TypeOK
<1>3. \A j \in Kernel : cur'[j] = cur[j] \/ cur'[j] = next
  BY DEF Take, IInv, TypeOK
<1>4. \A j \in Kernel : batch'[j] \subseteq batch[j]
  BY DEF Take, IInv, TypeOK
<1> QED BY <1>1, <1>2, <1>3, <1>4 DEF HandsKept

LEMMA StepTaskInv ==
  ASSUME IInv, NEW k \in Kernel, NEW h \in batch[k], StepTask(k, h) PROVE IInv'
<1>1. InHand(k, h) /\ status[h.ref[1]] = "ready" /\ Steps(h.ref[1]) /\ Take(k, h, Finishing(h.ref, "done"))
  BY DEF StepTask, ClaimWins, Steps
<1>2. h.ref \in Refs /\ h.ref[1] \in Cont /\ Finishing(h.ref, "done") \in Current
  BY <1>1, InHandType
<1>3. StoreTypeOK(Owner)
  BY DEF IInv, TypeOK, Owner
<1>4. StoreTypeOK(Owner)' /\ Grows /\ Wakes({h.ref[1]})
  BY <1>1, <1>2, <1>3, StepDrives, StepConditionType, ParkOutcomeType DEF Steps
<1>5. /\ ReactorTypeOK' /\ HandsKept
      /\ \A j \in Kernel : cur'[j] = cur[j] \/ cur'[j] = Finishing(h.ref, "done")
  <2>1. faults' \in Nat /\ UNCHANGED <<up, direct>>
    BY DEF StepTask, IInv, TypeOK
  <2>2. Finishing(h.ref, "done").ref = h.ref
    BY DEF Finishing
  <2> QED BY <1>1, <1>2, <2>1, <2>2, TakeType
<1> QED BY <1>2, <1>4, <1>5, StoreInv DEF Finishing

LEMMA StepUndecodableInv ==
  ASSUME IInv, NEW k \in Kernel, NEW h \in batch[k], StepUndecodable(k, h) PROVE IInv'
<1>1. InHand(k, h) /\ status[h.ref[1]] = "ready" /\ RecordUndecodable(h.ref[1]) /\ Take(k, h, Failing(h))
  BY DEF StepUndecodable, ClaimWins
<1>2. h.ref \in Refs /\ h.ref[1] \in Cont /\ Failing(h) \in Current /\ Failing(h).ref = h.ref
  BY <1>1, InHandType
<1>3. StoreTypeOK(Owner)
  BY DEF IInv, TypeOK, Owner
<1>4. StoreTypeOK(Owner)' /\ Grows /\ Wakes({h.ref[1]})
  BY <1>1, <1>2, <1>3, StepDrives, StepConditionType DEF Steps
<1>5. /\ ReactorTypeOK' /\ HandsKept
      /\ \A j \in Kernel : cur'[j] = cur[j] \/ cur'[j] = Failing(h)
  <2>1. faults' \in Nat /\ UNCHANGED <<up, direct>>
    BY DEF StepUndecodable, IInv, TypeOK
  <2> QED BY <1>1, <1>2, <2>1, TakeType
<1> QED BY <1>2, <1>4, <1>5, StoreInv

\* A step that lost its claim closes a task that drives nothing: the
\* continuation is not ready, or is ready for another step_seq.
LEMMA StepLostInv ==
  ASSUME IInv, NEW k \in Kernel, NEW h \in batch[k], StepLost(k, h) PROVE IInv'
<1>1. InHand(k, h) /\ ~ClaimWins(h.ref[1], Row(h.ref).seq) /\ Take(k, h, Finishing(h.ref, "done"))
  BY DEF StepLost
<1>2. Finishing(h.ref, "done") \in Current /\ Finishing(h.ref, "done").ref = h.ref
  BY <1>1, InHandType DEF Finishing
<1>3. /\ ReactorTypeOK' /\ HandsKept
      /\ \A j \in Kernel : cur'[j] = cur[j] \/ cur'[j] = Finishing(h.ref, "done")
  <2>1. faults' \in Nat /\ UNCHANGED <<up, direct>>
    BY DEF StepLost, IInv, TypeOK
  <2> QED BY <1>1, <1>2, <2>1, TakeType
<1>4. UNCHANGED storeVars
  BY DEF StepLost
<1>5. StoreTypeOK(Owner)'
  BY <1>4 DEF IInv, TypeOK, StoreTypeOK, Owner, storeVars, rowVars, history
<1>6. ASSUME NEW x \in Cont, NEW i \in DOMAIN tasks[x], status[x] = "ready", Drives(x, i)
      PROVE  <<x, i>> # h.ref
  BY <1>1, <1>6 DEF Drives, ClaimWins, Row
<1>7. \A j \in Kernel : cur'[j] = cur[j] \/ cur'[j].ref = h.ref
  BY <1>2, <1>3
<1> QED BY <1>3, <1>4, <1>5, <1>6, <1>7, StillInv DEF storeVars, rowVars

LEMMA StepErrorInv ==
  ASSUME IInv, NEW k \in Kernel, NEW h \in batch[k], StepError(k, h) PROVE IInv'
<1>1. InHand(k, h) /\ Take(k, h, Failing(h))
  BY DEF StepError
<1>2. Failing(h) \in Current /\ Failing(h).ref = h.ref /\ Failing(h).verdict # "done"
  BY <1>1, InHandType
<1>3. /\ ReactorTypeOK' /\ HandsKept
      /\ \A j \in Kernel : cur'[j] = cur[j] \/ cur'[j] = Failing(h)
  <2>1. faults' \in Nat /\ UNCHANGED <<up, direct>>
    BY DEF StepError, Fault, IInv, TypeOK
  <2> QED BY <1>1, <1>2, <2>1, TakeType
<1>4. UNCHANGED storeVars
  BY DEF StepError
<1>5. StoreTypeOK(Owner)'
  BY <1>4 DEF IInv, TypeOK, StoreTypeOK, Owner, storeVars, rowVars, history
<1> QED BY <1>2, <1>3, <1>4, <1>5, StillInv DEF storeVars, rowVars

LEMMA ClaimTasksInv ==
  ASSUME IInv, NEW k \in Kernel, NEW S, ClaimTasks(k, S) PROVE IInv'
<1>1. tasks \in [Cont -> Seq(RowT)]
  BY IInvTasks
<1>2. ASSUME NEW c \in Cont
      PROVE  /\ tasks'[c] \in Seq(RowT) /\ DOMAIN tasks'[c] = DOMAIN tasks[c]
             /\ \A i \in DOMAIN tasks[c] : /\ tasks'[c][i].seq = tasks[c][i].seq
                                          /\ tasks[c][i].status # "done" => tasks'[c][i].status # "done"
  <2>1. PICK n \in Nat : tasks[c] \in [1 .. n -> RowT]
    BY <1>1, SeqDef
  <2>2. tasks'[c] = [i \in 1 .. n |-> IF <<c, i>> \in S THEN Leased(tasks[c][i], k) ELSE tasks[c][i]]
    BY <2>1 DEF ClaimTasks
  <2>3. ASSUME NEW row \in RowT
        PROVE  Leased(row, k) \in RowT /\ Leased(row, k).seq = row.seq /\ Leased(row, k).status = "running"
    <3>1. AtMost(AttemptCeiling, row.attempts) \in Nat /\ row.seq \in Nat
      BY ReactorAssumption DEF RowT, TaskRow, AtMost
    <3> QED BY <3>1 DEF Leased, RowT, TaskRow, TaskState, Owner
  <2>4. tasks'[c] \in [1 .. n -> RowT]
    <3> SUFFICES ASSUME NEW i \in 1 .. n
                 PROVE  (IF <<c, i>> \in S THEN Leased(tasks[c][i], k) ELSE tasks[c][i]) \in RowT
      BY <2>2
    <3>1. tasks[c][i] \in RowT
      BY <2>1
    <3> QED BY <2>3, <3>1
  <2>5. tasks'[c] \in Seq(RowT)
    BY <2>4, SeqDef
  <2>6. DOMAIN tasks'[c] = 1 .. n /\ DOMAIN tasks[c] = 1 .. n
    BY <2>1, <2>4
  <2>7. ASSUME NEW i \in 1 .. n
        PROVE  /\ tasks'[c][i].seq = tasks[c][i].seq
               /\ tasks[c][i].status # "done" => tasks'[c][i].status # "done"
    <3>1. tasks[c][i] \in RowT
      BY <2>1
    <3> QED BY <2>2, <2>3, <3>1
  <2> QED BY <2>5, <2>6, <2>7
<1>3. tasks' \in [Cont -> Seq(RowT)]
  <2>1. tasks' = [c \in Cont |-> tasks'[c]]
    BY DEF ClaimTasks
  <2> QED BY <1>2, <2>1
<1>4. StoreTypeOK(Owner)'
  BY <1>3 DEF ClaimTasks, IInv, TypeOK, StoreTypeOK, RowT, Owner, history
<1>5. \A r \in Refs : r \in Refs' /\ r \in Ref
  BY <1>1, <1>2, RefsAre DEF Refs
<1>6. S \subseteq Refs
  BY DEF ClaimTasks
<1> DEFINE B == {[ref |-> r, attempts |-> AtMost(AttemptCeiling, Row(r).attempts)] : r \in S}
<1>6a. B \subseteq Held
  <2> SUFFICES ASSUME NEW r \in S
               PROVE  [ref |-> r, attempts |-> AtMost(AttemptCeiling, Row(r).attempts)] \in Held
    OBVIOUS
  <2>1. r \in Ref /\ Row(r) \in RowT
    BY <1>1, <1>6, RefsAre
  <2>2. AtMost(AttemptCeiling, Row(r).attempts) \in Nat
    BY <2>1, ReactorAssumption DEF RowT, TaskRow, AtMost
  <2> QED BY <2>1, <2>2 DEF Held
<1>6b. \A h \in B : h.ref \in Refs
  BY <1>6
<1>6c. batch' = [batch EXCEPT ![k] = B]
  BY DEF ClaimTasks
<1> HIDE DEF B
<1>7. ReactorTypeOK'
  BY <1>6a, <1>6c DEF ClaimTasks, ReactorTypeOK, IInv, TypeOK
<1>8. RefsExist'
  <2>1. \A j \in Kernel : batch'[j] \subseteq batch[j] \cup B
    BY <1>6c DEF IInv, TypeOK
  <2>2. cur' = cur
    BY DEF ClaimTasks
  <2> QED BY <1>5, <1>6b, <2>1, <2>2 DEF IInv, RefsExist
<1>9. ReadyIsDriven'
  <2> SUFFICES ASSUME NEW x \in Cont, status'[x] = "ready"
               PROVE  \E i \in DOMAIN tasks'[x] : Drives(x, i)'
    BY DEF ReadyIsDriven
  <2>1. status' = status /\ seq' = seq /\ cur' = cur
    BY DEF ClaimTasks
  <2>2. PICK i \in DOMAIN tasks[x] : Drives(x, i)
    BY <2>1 DEF IInv, ReadyIsDriven
  <2>3. tasks'[x][i].seq = seq'[x] /\ tasks'[x][i].status # "done"
    <3>1. tasks[x][i].seq = seq[x] /\ tasks[x][i].status # "done"
      BY <2>2 DEF Drives
    <3>2. tasks'[x][i] = IF <<x, i>> \in S THEN Leased(tasks[x][i], k) ELSE tasks[x][i]
      BY DEF ClaimTasks
    <3>4. Leased(tasks[x][i], k).seq = tasks[x][i].seq /\ Leased(tasks[x][i], k).status = "running"
      BY DEF Leased
    <3>3. seq'[x] = seq[x]
      BY <2>1
    <3> QED BY <3>1, <3>2, <3>3, <3>4
  <2>4. \A j \in Kernel : ~(cur'[j].pc = "finish" /\ cur'[j].ref = <<x, i>> /\ cur'[j].verdict = "done")
    BY <2>1, <2>2 DEF Drives
  <2>5. Drives(x, i)'
    BY <2>3, <2>4 DEF Drives
  <2> QED BY <1>2, <2>5
<1> QED BY <1>4, <1>7, <1>8, <1>9 DEF IInv, TypeOK, ReactorTypeOK, Owner

\* Closing a row: nobody else counts on it, by Drives.
LEMMA FinishTaskInv ==
  ASSUME IInv, NEW k \in Kernel, FinishTask(k) \/ MarkDead(k) PROVE IInv'
<1> DEFINE r == cur[k].ref
<1>1. r \in Refs /\ r \in Ref
  BY DEF FinishTask, MarkDead, IInv, RefsExist
<1>2. cur \in [Kernel -> Current] /\ cur[k].verdict \in TaskState
  BY DEF IInv, TypeOK, Current, TaskState
<1>3. CASE FinishTask(k)
  <2>1. ASSUME cur[k].verdict = "done", NEW x \in Cont, NEW i \in DOMAIN tasks[x], Drives(x, i)
        PROVE  <<x, i>> # r
    BY <1>3, <2>1 DEF FinishTask, Drives
  <2>2. ReactorTypeOK' /\ \A j \in Kernel : cur'[j] = cur[j] \/ cur'[j] = Idle
    BY <1>2, <1>3 DEF FinishTask, ReactorTypeOK, IInv, TypeOK, Current, Idle
  <2>3. HandsKept
    BY <1>3, <2>2 DEF HandsKept, FinishTask, Idle
  <2>4. /\ tasks' = SetRow(r, cur[k].verdict, None)
        /\ UNCHANGED <<status, seq, frames, wake, parent, conds, sent, claimedBy, outbox, history>>
    BY <1>3 DEF FinishTask
  <2>5. \A j \in Kernel : cur'[j] = cur[j] \/ cur'[j].pc # "finish"
    BY <2>2 DEF Idle
  <2> HIDE DEF r
  <2> QED BY <1>1, <1>2, <2>1, <2>2, <2>3, <2>4, <2>5, RowInv
<1>4. CASE MarkDead(k)
  <2>1. /\ ReactorTypeOK'
        /\ \A j \in Kernel : cur'[j] = cur[j] \/ (cur'[j].pc = "signal" /\ cur'[j].ref = r)
    <3>1. [cur[k] EXCEPT !.pc = "signal"] \in Current
      BY <1>2 DEF Current
    <3> QED BY <1>2, <1>4, <3>1 DEF MarkDead, ReactorTypeOK, IInv, TypeOK, Current
  <2>2. HandsKept
    BY <1>1, <1>4, <2>1 DEF HandsKept, MarkDead
  <2>3. /\ tasks' = SetRow(r, "dead", None)
        /\ UNCHANGED <<status, seq, frames, wake, parent, conds, sent, claimedBy, outbox, history>>
    BY <1>4 DEF MarkDead
  <2>4. "dead" \in TaskState
    BY DEF TaskState
  <2>5. \A j \in Kernel : cur'[j] = cur[j] \/ cur'[j].pc # "finish"
    BY <2>1
  <2> HIDE DEF r
  <2> QED BY <1>1, <2>1, <2>2, <2>3, <2>4, <2>5, RowInv
<1> QED BY <1>3, <1>4

LEMMA ReapInv == ASSUME IInv, NEW r \in Refs, Reap(r) PROVE IInv'
<1>1. /\ tasks' = SetRow(r, "ready", None)
      /\ UNCHANGED <<status, seq, frames, wake, parent, conds, sent, claimedBy, outbox, history>>
      /\ UNCHANGED <<up, batch, cur, direct>> /\ faults' \in Nat
  BY DEF Reap, Fault, IInv, TypeOK
<1>2. ReactorTypeOK' /\ HandsKept /\ \A k \in Kernel : cur'[k] = cur[k]
  BY <1>1 DEF ReactorTypeOK, HandsKept, IInv, TypeOK
<1>3. "ready" \in TaskState
  BY DEF TaskState
<1> QED BY <1>1, <1>2, <1>3, RowInv

\* The two statements of deadTask that write the condition, and the faults.
LEMMA DeadLetterInv ==
  ASSUME IInv, NEW k \in Kernel, RecordStepFailed(k) \/ OfferAbort(k) PROVE IInv'
<1> DEFINE c == cur[k].ref[1]
           j == cur[k].ref[2]
<1>1. cur \in [Kernel -> Current] /\ conds \in [Cont -> Seq(CondRow)]
  BY DEF IInv, TypeOK, StoreTypeOK
<1>2. c \in Cont
  BY DEF RecordStepFailed, OfferAbort, IInv, RefsExist, Ref
<1>3. CASE RecordStepFailed(k)
  <2>1. conds' \in [Cont -> Seq(CondRow)]
    BY <1>1, <1>2, <1>3, SignalType DEF RecordStepFailed, CondClass
  <2>2. conds'[c] = Append(conds[c], OpenCond("step.failed", FALSE))
    BY <1>1, <1>2, <1>3 DEF RecordStepFailed, Signal
  <2>3. Len(conds'[c]) \in Nat \ {0}
    BY <1>1, <1>2, <2>2
  <2>4. cur' = [cur EXCEPT ![k] = [pc |-> "offer", verdict |-> "dead", ref |-> <<c, Len(conds'[c])>>]]
    BY <1>1, <1>3 DEF RecordStepFailed
  <2>5. [pc |-> "offer", verdict |-> "dead", ref |-> <<c, Len(conds'[c])>>] \in Current
    BY <1>2, <2>3 DEF Current, Ref
  <2>6. StoreTypeOK(Owner)'
    BY <1>3, <2>1 DEF RecordStepFailed, IInv, TypeOK, StoreTypeOK, Owner, history
  <2>7. cur' \in [Kernel -> Current] /\ cur'[k].ref \in Ref /\ cur'[k].pc = "offer"
        /\ \A q \in Kernel : q # k => cur'[q] = cur[q]
    BY <1>1, <1>2, <2>3, <2>4, <2>5 DEF Ref
  <2>8. TypeOK'
    BY <1>3, <2>6, <2>7 DEF RecordStepFailed, TypeOK, Owner, IInv
  <2>9. RefsExist'
    BY <1>3, <2>7 DEF RecordStepFailed, IInv, RefsExist, Refs
  <2>10. ReadyIsDriven'
    <3> SUFFICES ASSUME NEW x \in Cont, status'[x] = "ready"
                 PROVE  \E i \in DOMAIN tasks'[x] : Drives(x, i)'
      BY DEF ReadyIsDriven
    <3>1. status' = status /\ seq' = seq /\ tasks' = tasks
      BY <1>3 DEF RecordStepFailed
    <3>2. PICK i \in DOMAIN tasks[x] : Drives(x, i)
      BY <3>1 DEF IInv, ReadyIsDriven
    <3>3. \A q \in Kernel : ~(cur'[q].pc = "finish" /\ cur'[q].ref = <<x, i>> /\ cur'[q].verdict = "done")
      BY <2>7, <3>2 DEF Drives
    <3>4. Drives(x, i)'
      BY <3>1, <3>2, <3>3 DEF Drives
    <3> QED BY <3>1, <3>2, <3>4
  <2> QED BY <2>8, <2>9, <2>10 DEF IInv
<1>4. CASE OfferAbort(k)
  <2>1. conds' = [conds EXCEPT ![c] = [conds[c] EXCEPT ![j] = [conds[c][j] EXCEPT !.offered = TRUE]]]
    BY <1>4 DEF OfferAbort
  <2>2. [conds[c] EXCEPT ![j] = [conds[c][j] EXCEPT !.offered = TRUE]] \in Seq(CondRow)
    <3>1. conds[c] \in Seq(CondRow)
      BY <1>1, <1>2
    <3>2. CASE j \in 1 .. Len(conds[c])
      <4>1. \A row \in CondRow : [row EXCEPT !.offered = TRUE] \in CondRow
        BY DEF CondRow
      <4>2. [conds[c][j] EXCEPT !.offered = TRUE] \in CondRow
        BY <3>1, <3>2, <4>1, ElementOfSeq
      <4> HIDE DEF c, j
      <4> QED BY <3>1, <3>2, <4>2, ExceptSeq
    <3>3. CASE j \notin 1 .. Len(conds[c])
      <4> HIDE DEF c, j
      <4>1. DOMAIN conds[c] = 1 .. Len(conds[c])
        BY <3>1
      <4>2. [conds[c] EXCEPT ![j] = [conds[c][j] EXCEPT !.offered = TRUE]] = conds[c]
        BY <3>1, <3>3, <4>1
      <4> QED BY <3>1, <4>2
    <3> QED BY <3>2, <3>3
  <2>3. conds' \in [Cont -> Seq(CondRow)]
    <3> HIDE DEF c, j
    <3> QED BY <1>1, <1>2, <2>1, <2>2
  <2>4. StoreTypeOK(Owner)'
    BY <1>4, <2>3 DEF OfferAbort, IInv, TypeOK, StoreTypeOK, Owner, history
  <2>5. ReactorTypeOK' /\ \A q \in Kernel : cur'[q] = cur[q] \/ cur'[q] = Idle
    BY <1>1, <1>4 DEF OfferAbort, ReactorTypeOK, IInv, TypeOK, Current, Idle
  <2>6. HandsKept
    BY <1>4, <2>5 DEF OfferAbort, HandsKept, Idle
  <2>7. UNCHANGED <<status, seq, tasks>>
    BY <1>4 DEF OfferAbort
  <2> QED BY <2>4, <2>5, <2>6, <2>7, StillInv DEF Idle
<1> QED BY <1>3, <1>4

LEMMA FaultInv ==
  ASSUME IInv, NEW k \in Kernel, AbandonPass(k) \/ Crash(k) PROVE IInv'
<1>1. UNCHANGED storeVars
  BY DEF AbandonPass, Crash
<1>2. StoreTypeOK(Owner)'
  BY <1>1 DEF IInv, TypeOK, StoreTypeOK, Owner, storeVars, rowVars, history
<1>3. ReactorTypeOK' /\ \A q \in Kernel : cur'[q] = cur[q] \/ cur'[q] = Idle
  BY DEF AbandonPass, Crash, Fault, ReactorTypeOK, IInv, TypeOK, Current, Idle
<1>4. \A q \in Kernel : batch'[q] \subseteq batch[q]
  BY DEF AbandonPass, Crash, IInv, TypeOK
<1>5. HandsKept
  BY <1>3, <1>4 DEF HandsKept, Idle
<1> QED BY <1>1, <1>2, <1>3, <1>5, StillInv DEF Idle, storeVars, rowVars

\* The actions that leave the kernels' hands alone.
LEMMA WorldInv ==
  ASSUME IInv,
         \/ \E c \in Cont : Start(c) \/ ParkRequest(c)
         \/ \E m \in Msg : Send(m)
         \/ ScanTimers
         \/ \E t \in Topic : Mutate(t)
         \/ Operator
  PROVE  IInv'
<1>1. StoreTypeOK(Owner)
  BY DEF IInv, TypeOK, Owner
<1>2. CASE \/ \E c \in Cont : Start(c) \/ ParkRequest(c)
           \/ \E m \in Msg : Send(m)
           \/ ScanTimers
           \/ \E t \in Topic : Mutate(t)
           \/ \E c \in Cont : \E x \in DOMAIN conds[c], choice \in Choice : ResolveCondition(c, x, choice)
  <2>1. \/ \E c \in Cont : StartWorkflow(c) \/ Park(c)
        \/ \E m \in Msg : SendChannel(m)
        \/ TimerOnce
        \/ \E t \in Topic : WakeEvents(t)
        \/ \E c \in Cont : \E x \in DOMAIN conds[c] : \E choice \in Choice : PickRestart(c, x, choice)
    BY <1>2 DEF Start, ParkRequest, Send, ScanTimers, Mutate, ResolveCondition
  <2>2. StoreTypeOK(Owner)' /\ Grows /\ Wakes({})
    BY <1>1, <2>1, DoorType, DoorDrives
  <2>3. /\ direct' \subseteq Cont /\ UNCHANGED <<up, batch, cur, faults>>
    BY <1>2 DEF Start, ParkRequest, Send, ScanTimers, Mutate, ResolveCondition, reactorVars, IInv, TypeOK
  <2>4. ReactorTypeOK' /\ HandsKept /\ \A k \in Kernel : cur'[k] = cur[k]
    BY <2>3 DEF ReactorTypeOK, HandsKept, IInv, TypeOK
  <2> QED BY <2>2, <2>4, StoreInv
<1>3. ASSUME NEW c \in Cont, ResumeDirect(c) PROVE IInv'
  <2>1. status[c] = "ready" /\ Steps(c)
    BY <1>3 DEF ResumeDirect, Steps
  <2>2. StoreTypeOK(Owner)' /\ Grows /\ Wakes({c})
    BY <1>1, <2>1, StepDrives, StepConditionType, ParkOutcomeType DEF Steps
  <2>3. direct' \subseteq Cont /\ UNCHANGED <<up, batch, cur, faults>>
    BY <1>3 DEF ResumeDirect, IInv, TypeOK
  <2>4. ReactorTypeOK' /\ HandsKept /\ \A k \in Kernel : cur'[k] = cur[k]
    BY <2>3 DEF ReactorTypeOK, HandsKept, IInv, TypeOK
  <2> QED BY <2>2, <2>4, StoreInv
<1>4. ASSUME NEW c \in Cont, ResumeDropped(c) PROVE IInv'
  <2>1. UNCHANGED storeVars /\ direct' \subseteq Cont /\ UNCHANGED <<up, batch, cur, faults>>
    BY <1>4 DEF ResumeDropped, IInv, TypeOK
  <2>2. StoreTypeOK(Owner)'
    BY <1>1, <2>1 DEF StoreTypeOK, storeVars, rowVars, history
  <2>3. ReactorTypeOK' /\ HandsKept /\ \A k \in Kernel : cur'[k] = cur[k]
    BY <2>1 DEF ReactorTypeOK, HandsKept, IInv, TypeOK
  <2> QED BY <2>1, <2>2, <2>3, StillInv DEF storeVars, rowVars
<1> QED BY <1>2, <1>3, <1>4 DEF Operator

LEMMA StutterInv == ASSUME IInv, UNCHANGED vars PROVE IInv'
<1>1. UNCHANGED <<status, seq, tasks, cur, batch>> /\ StoreTypeOK(Owner)' /\ ReactorTypeOK'
  BY DEF IInv, TypeOK, StoreTypeOK, ReactorTypeOK, Owner, vars, reactorVars, storeVars, rowVars, history
<1>2. HandsKept /\ \A k \in Kernel : cur'[k] = cur[k]
  BY <1>1 DEF HandsKept
<1> QED BY <1>1, <1>2, StillInv

LEMMA NextInv == ASSUME IInv, [Next]_vars PROVE IInv'
<1>1. ASSUME NEW k \in Kernel, Drain(k) PROVE IInv'
  BY <1>1, ClaimTasksInv, StepTaskInv, StepUndecodableInv, StepLostInv, StepErrorInv,
     FinishTaskInv, DeadLetterInv DEF Drain
<1> QED BY <1>1, FaultInv, ReapInv, WorldInv, StutterInv DEF Next

---------------------------------------------------------------------------
(* The theorems.                                                           *)

(* Every reachable state is of the declared types: the rows the            *)
(* transactions of internal/cfr and the reactor write are rows the schema  *)
(* allows, for every number of kernels, continuations and messages.        *)
THEOREM TypeCorrect == Spec => []TypeOK
<1>1. Init => IInv
  BY InitInv
<1>2. IInv /\ [Next]_vars => IInv'
  BY NextInv
<1>3. IInv => TypeOK
  BY DEF IInv
<1> QED BY <1>1, <1>2, <1>3, PTL DEF Spec

(* No lost wake-up, whatever kernels crash, stall, or finish each other's  *)
(* tasks: a ready continuation has a task at its current step_seq that is  *)
(* neither closed nor about to be (insertResumeTask beside every flip to   *)
(* 'ready', the claim CAS of ClaimAndStep, finishTask, the reaper).        *)
THEOREM ReadyAlwaysDriven == Spec => []ReadyIsDriven
<1>1. Init => IInv
  BY InitInv
<1>2. IInv /\ [Next]_vars => IInv'
  BY NextInv
<1>3. IInv => ReadyIsDriven
  BY DEF IInv
<1> QED BY <1>1, <1>2, <1>3, PTL DEF Spec
=============================================================================
