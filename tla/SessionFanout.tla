---------------------------- MODULE SessionFanout ----------------------------
(***************************************************************************)
(* The reactive sessions of internal/kernel: a session is a continuation   *)
(* that steps on browser events and on invalidations (session_step.go),    *)
(* the invalidation listener and its workers (session_invalidation.go),    *)
(* the ring of frames and its subscribers (session_sse.go), mounting,      *)
(* resync and the idle sweep (session.go, session_http.go) and the browser *)
(* client (clientasset.go).                                                *)
(*                                                                         *)
(* Every session shows one row of one resource.  Its data is the number of *)
(* writes so far, of which a view shows the parity: a write may restore    *)
(* what an earlier view showed, and then a diff is empty.  One server      *)
(* process; what it keeps in memory is lost when it restarts.  Of another  *)
(* kernel only the writes are here: its listener, which matches the same   *)
(* sessions, and the frames it would push to its own hub are not.          *)
(***************************************************************************)
EXTENDS Naturals, Sequences, SequencesExt, FiniteSets

CONSTANTS
  Session,
  Watched,    \* the sessions with a browser
  Handler,    \* goroutines that serve POST /event
  Worker,     \* fanoutWorkers
  RingCap,    \* ringCap, of the retained frames
  ChanCap,    \* the capacity of a subscriber's channel (ringCap in the code)
  QueueCap,   \* of the invalidation queue
  MaxRedrive, \* maxRedrive
  MaxTries,   \* attempts of driveSession
  MaxWrites,  \* bound: writes of the row
  MaxTrouble, \* bound: browser events and faults together
  None

Driver == Handler \cup Worker

\* What the variables hold: a continuation row, a frame, the work of a driver, a browser.
Rows   == [status : {"none", "mounting", "sleeping", "ready", "failed", "gone"}, seq : Nat, snap : Nat,
           base : Nat, draft : BOOLEAN]
Snaps  == [row : Rows, version : Nat]
Frames == [seq : Nat, ops : BOOLEAN, to : {0, 1}]
Jobs   == [s : Session, pc : {"read", "arm", "begin", "txn", "push"}, at : Nat,
           msg : {"input", "submit", "invalidate"}, tries : Nat,
           snap : Snaps \cup {None}, frame : Frames \cup {None}]
Answers == [view : 0 .. 2, seq : Nat]
Pages  == [view : 0 .. 2, seq : Nat, last : Nat, conn : BOOLEAN, back : Seq(Frames), live : Seq(Frames),
           sync : {"no", "asked", "answered"}, fresh : Answers \cup {None}]

\* Why a refresh was given up, and why a stream may have lost its order or a frame.
Reasons == {"mount", "match", "deaf", "full", "overtaken", "given up", "restart",
            "unpushed", "swapped", "dropped", "rewound", "unsynced"}

ASSUME FanoutAssumption ==
  /\ Watched \subseteq Session /\ Handler \cap Worker = {}
  /\ None \notin Session /\ None \notin Reasons /\ None \notin Jobs /\ None \notin Pages
  /\ {RingCap, ChanCap, QueueCap, MaxTries} \subseteq Nat \ {0}
  /\ {MaxRedrive, MaxWrites, MaxTrouble} \subseteq Nat

VARIABLES
  version,   \* row_version of the row that is shown
  row,       \* continuation rows of kind session, with their payload
  notices,   \* NOTIFYs committed and not yet seen by the listener
  listening, \* the LISTEN loop is alive
  matched,   \* sessions the listener has still to enqueue
  queue, dirty, redrive, \* invalidationIndex
  drv,       \* what a handler or worker is doing
  ring,      \* frames retained for a session
  page,      \* the browser: its view, cursor, stream and resync
  posts, faults,
  missed,    \* history: a stale session whose invalidation was dropped, and where
  astray     \* history: browsers whose stream lost its order or a frame, and where,
             \* and those whose resync failed

index == <<matched, queue, dirty, redrive>>
bounds == <<posts, faults>>
vars == <<version, row, notices, listening, index, drv, ring, page, bounds, missed, astray>>

Shown(v) == v % 2
Wiped == 2   \* a page that shows nothing: neither of the two
Mounted(s) == row[s].status \in {"sleeping", "ready"}
Subscribed(s) == Mounted(s) \/ row[s].status = "failed"
Stale(s) == Mounted(s) /\ row[s].snap # version
Fault == posts + faults < MaxTrouble /\ faults' = faults + 1

----------------------------------------------------------------------------
(* Mounting *)

\* mountSession, its read phase: one snapshot.
Render(s) ==
    /\ row[s].status = "none"
    /\ row' = [row EXCEPT ![s] = [@ EXCEPT !.status = "mounting", !.snap = version, !.base = version]]
    /\ UNCHANGED <<version, notices, listening, index, drv, ring, page, bounds, missed, astray>>

Blank(s) == [view |-> Shown(row[s].snap), seq |-> 0, last |-> 0, conn |-> FALSE,
             back |-> <<>>, live |-> <<>>, sync |-> "no", fresh |-> None]

\* Its write phase: the row with its subscriptions; the page is answered.  A write whose
\* NOTIFY was matched in between found no subscription.
Insert(s) ==
    /\ row[s].status = "mounting"
    /\ row' = [row EXCEPT ![s].status = "sleeping"]
    /\ page' = IF s \in Watched THEN [page EXCEPT ![s] = Blank(s)] ELSE page
    /\ missed' = IF row[s].snap # version /\ notices = 0
                 THEN [missed EXCEPT ![s] = "mount"] ELSE missed
    /\ UNCHANGED <<version, notices, listening, index, drv, ring, bounds, astray>>

----------------------------------------------------------------------------
(* The listener *)

\* A NOTIFY of a committed write reaches a listener that is alive.
Notify == notices' = IF listening THEN notices + 1 ELSE notices

\* onNotify: the sessions whose subscription matches, of whatever status.
Match ==
    /\ listening /\ notices > 0 /\ matched = {}
    /\ notices' = notices - 1
    /\ matched' = {s \in Session : Subscribed(s)}
    /\ UNCHANGED <<version, row, listening, queue, dirty, redrive, drv, ring, page, bounds, missed, astray>>

MissAll(why) == missed' = [s \in Session |-> IF Stale(s) THEN why ELSE missed[s]]

\* matchingSessions fails and the NOTIFY is dropped; or the wire drops it (WireConn.Drain).
MatchFails ==
    /\ Fault
    /\ listening /\ notices > 0 /\ matched = {}
    /\ notices' = notices - 1
    /\ MissAll("match")
    /\ UNCHANGED <<version, row, listening, index, drv, ring, page, posts, astray>>

\* A ping fails and the LISTEN loop returns for good; the workers go on.
ListenEnds ==
    /\ Fault
    /\ listening /\ listening' = FALSE
    /\ notices' = 0 /\ matched' = {}
    /\ MissAll("deaf")
    /\ UNCHANGED <<version, row, queue, dirty, redrive, drv, ring, page, posts, astray>>

\* enqueue: coalesce, queue, or drop when the queue is full.
Enqueue(s) ==
    IF s \in dirty THEN UNCHANGED <<queue, dirty, missed>>
    ELSE IF Len(queue) < QueueCap
    THEN /\ queue' = Append(queue, s)
         /\ dirty' = dirty \cup {s}
         /\ UNCHANGED missed
    ELSE /\ missed' = IF Stale(s) THEN [missed EXCEPT ![s] = "full"] ELSE missed
         /\ UNCHANGED <<queue, dirty>>

EnqueueNext(s) ==
    /\ s \in matched
    /\ matched' = matched \ {s}
    /\ Enqueue(s)
    /\ UNCHANGED <<version, row, notices, listening, redrive, drv, ring, page, bounds, astray>>

----------------------------------------------------------------------------
(* Driving a session *)

Job(s, pc, at, msg) == [s |-> s, pc |-> pc, at |-> at, msg |-> msg, tries |-> 0, snap |-> None, frame |-> None]

\* handleSessionEvent: a browser posts an event at its cursor, if there is a slot to
\* post it from.
Post(h, s) ==
    /\ drv[h] = None /\ page[s] # None /\ page[s].view # Wiped /\ posts + faults < MaxTrouble
    /\ posts' = posts + 1
    /\ \E msg \in {"input", "submit"} :
         drv' = [drv EXCEPT ![h] = Job(s, "arm", page[s].seq, msg)]
    /\ UNCHANGED <<version, row, notices, listening, index, ring, page, faults, missed, astray>>

\* worker: take a session and clear its mark, so that a later NOTIFY queues it again.
Pop(w) ==
    /\ drv[w] = None /\ queue # <<>>
    /\ queue' = Tail(queue)
    /\ dirty' = dirty \ {Head(queue)}
    /\ drv' = [drv EXCEPT ![w] = Job(Head(queue), "read", 0, "invalidate")]
    /\ UNCHANGED <<version, row, notices, listening, matched, redrive, ring, page, bounds, missed, astray>>

\* The drive is over without an error: a worker forgets the session's redrives.
Done(d) ==
    /\ drv' = [drv EXCEPT ![d] = None]
    /\ redrive' = IF d \in Worker THEN [redrive EXCEPT ![drv[d].s] = 0] ELSE redrive
    /\ UNCHANGED <<matched, queue, dirty>>

\* The drive is over, and this invalidation with it: whether the view is stale or not.
Dropped(d) ==
    /\ Done(d)
    /\ missed' = IF d \in Worker /\ Stale(drv[d].s)
                 THEN [missed EXCEPT ![drv[d].s] = "overtaken"] ELSE missed

\* mutant: a failed drive is not queued again.
FailedOnce(d) ==
    /\ drv' = [drv EXCEPT ![d] = None]
    /\ UNCHANGED <<index, missed>>

\* It failed: a worker queues the session again, so often.
Failed(d) ==
    /\ drv' = [drv EXCEPT ![d] = None]
    /\ UNCHANGED matched
    /\ LET s == drv[d].s IN
       IF d \in Handler THEN UNCHANGED <<queue, dirty, redrive, missed>>
       ELSE IF redrive[s] < MaxRedrive
       THEN redrive' = [redrive EXCEPT ![s] = @ + 1] /\ Enqueue(s)
       ELSE /\ missed' = IF Stale(s) THEN [missed EXCEPT ![s] = "given up"] ELSE missed
            /\ UNCHANGED <<queue, dirty, redrive>>

At(d, pc) == drv[d] # None /\ drv[d].pc = pc

\* driveInvalidation reads the step_seq in a statement of its own.
ReadSeq(w) ==
    /\ At(w, "read")
    /\ IF Mounted(drv[w].s)
       THEN /\ drv' = [drv EXCEPT ![w] = [@ EXCEPT !.pc = "arm", !.at = row[drv[w].s].seq]]
            /\ UNCHANGED <<index, missed>>
       ELSE Dropped(w)
    /\ UNCHANGED <<version, row, notices, listening, ring, page, bounds, astray>>

\* A step in flight holds the lock of the row.
Locked(s) == \E d \in Driver : At(d, "txn") /\ drv[d].s = s

\* armSession: ready at this step_seq, or drop the message.
Arm(d) ==
    /\ At(d, "arm") /\ ~Locked(drv[d].s)
    /\ LET s == drv[d].s IN
       IF Mounted(s) /\ row[s].seq = drv[d].at
       THEN /\ row' = [row EXCEPT ![s].status = "ready"]
            /\ drv' = [drv EXCEPT ![d].pc = "begin"]
            /\ UNCHANGED <<index, missed>>
       ELSE Dropped(d) /\ UNCHANGED row
    /\ UNCHANGED <<version, notices, listening, ring, page, bounds, astray>>

\* ClaimAndStep: BEGIN SERIALIZABLE takes the snapshot.
Begin(d) ==
    /\ At(d, "begin")
    /\ drv' = [drv EXCEPT ![d] = [@ EXCEPT !.pc = "txn",
                                    !.snap = [row |-> row[drv[d].s], version |-> version]]]
    /\ UNCHANGED <<version, row, notices, listening, index, ring, page, bounds, missed, astray>>

Claims(d) == drv[d].snap.row.status = "ready" /\ drv[d].snap.row.seq = drv[d].at

ClaimLost(d) ==
    /\ At(d, "txn") /\ ~Claims(d)
    /\ Dropped(d)
    /\ UNCHANGED <<version, row, notices, listening, ring, page, bounds, astray>>

\* applyMsg on the payload r read at version v: the payload, the version after, and
\* whether a NOTIFY goes out.  submitForm guards the UPDATE by the base; with nothing in
\* the draft but vault fields there is no UPDATE to guard, and the base advances.
Apply(msg, r, v) ==
    CASE msg = "input" -> [r |-> [r EXCEPT !.draft = TRUE], v |-> v, notify |-> FALSE]
      [] msg = "submit" /\ r.draft /\ r.base = v ->
           [r |-> [r EXCEPT !.draft = FALSE, !.base = v + 1], v |-> v + 1, notify |-> TRUE]
      [] msg = "submit" /\ r.draft /\ r.base # v ->
           [r |-> [r EXCEPT !.base = v], v |-> v, notify |-> FALSE]
      [] msg = "submit" /\ ~r.draft -> [r |-> [r EXCEPT !.base = @ + 1], v |-> v, notify |-> TRUE]
      [] OTHER -> [r |-> r, v |-> v, notify |-> FALSE]

Effect(d) == Apply(drv[d].msg, drv[d].snap.row, drv[d].snap.version)

\* ui.Diff against the last snapshot: ops if anything shown changed, and the hash of the
\* whole new view.
Frame(seq, old, new) == [seq |-> seq, ops |-> Shown(old) # Shown(new), to |-> Shown(new)]

\* Somebody committed over what this attempt read.
Overtaken(d) == row[drv[d].s] # drv[d].snap.row \/ version # drv[d].snap.version
Writes(d) == Effect(d).v # drv[d].snap.version

\* The UPDATE and the NOTIFY of applyMsg.
Submitted(d) ==
    /\ Writes(d) => version = drv[d].snap.version /\ version < MaxWrites
    /\ version' = IF Writes(d) THEN Effect(d).v ELSE version
    /\ IF Effect(d).notify THEN Notify ELSE UNCHANGED notices

\* runSessionStep and COMMIT: apply, render, diff, park.
Commit(d) ==
    LET s == drv[d].s  e == Effect(d) IN
    /\ row[s] = drv[d].snap.row
    /\ Submitted(d)
    /\ row' = [row EXCEPT ![s] = [e.r EXCEPT !.status = "sleeping", !.seq = @ + 1, !.snap = e.v]]

\* A render of the row as it is ends what the session missed.
Refreshed(d) == [missed EXCEPT ![drv[d].s] = IF Effect(d).v = version' THEN None ELSE @]

Step(d) ==
    /\ At(d, "txn") /\ Claims(d)
    /\ Commit(d)
    /\ drv' = [drv EXCEPT ![d] = [@ EXCEPT !.pc = "push",
                  !.frame = Frame(drv[d].at + 1, row[drv[d].s].snap, Effect(d).v)]]
    /\ missed' = Refreshed(d)
    /\ UNCHANGED <<listening, index, ring, page, bounds, astray>>

\* The COMMIT is done and its answer lost: the frame is never pushed.
StepUnanswered(d) ==
    /\ Fault
    /\ At(d, "txn") /\ Claims(d)
    /\ Commit(d)
    /\ drv' = [drv EXCEPT ![d] = None]
    /\ missed' = Refreshed(d)
    /\ astray' = [astray EXCEPT ![drv[d].s] = "unpushed"]
    /\ UNCHANGED <<listening, index, ring, page, posts>>

\* 40001, 40P01 or 25P02: again, from a new snapshot, or an error.
Retry(d) ==
    /\ At(d, "txn") /\ Claims(d) /\ Overtaken(d)
    /\ IF drv[d].tries + 1 < MaxTries
       THEN /\ drv' = [drv EXCEPT ![d] = [@ EXCEPT !.pc = "begin", !.tries = drv[d].tries + 1,
                                            !.snap = None]]
            /\ UNCHANGED <<index, missed>>
       ELSE Failed(d)
    /\ UNCHANGED <<version, row, notices, listening, ring, page, bounds, astray>>

\* An error of runSessionStep that aborts no transaction (no template, no component, a
\* vault that does not seal): parkFailed commits the row as failed and past its claim,
\* with what applyMsg had written.  driveSession has neither a frame to push nor an
\* error to tell, so that a worker counts the invalidation as driven.
StepFaulted(d) ==
    /\ Fault
    /\ At(d, "txn") /\ Claims(d) /\ row[drv[d].s] = drv[d].snap.row
    /\ Submitted(d) \/ UNCHANGED <<version, notices>>
    /\ row' = [row EXCEPT ![drv[d].s] = [drv[d].snap.row EXCEPT !.status = "failed", !.seq = @ + 1]]
    /\ Done(d)
    /\ UNCHANGED <<listening, ring, page, posts, missed, astray>>

\* Any other error, at any statement before the commit, rolls back.
StepFails(d) ==
    /\ Fault
    /\ drv[d] # None /\ drv[d].pc # "push"
    /\ Failed(d)
    /\ UNCHANGED <<version, row, notices, listening, ring, page, posts, astray>>

\* The step of a form of another kernel.
WriteElsewhere ==
    /\ version < MaxWrites
    /\ version' = version + 1
    /\ Notify
    /\ UNCHANGED <<row, listening, index, drv, ring, page, bounds, missed, astray>>

----------------------------------------------------------------------------
(* The ring and the streams *)

LastN(q, n) == IF Len(q) > n THEN SubSeq(q, Len(q) - n + 1, Len(q)) ELSE q

\* mutant: only frames that change something advance the cursor.
PushNonempty(d) ==
    /\ At(d, "push")
    /\ LET s == drv[d].s  f == drv[d].frame  p == page[s]
           Full  == p # None /\ p.conn /\ Len(p.live) >= ChanCap
           Later == \E i \in DOMAIN ring[s] : ring[s][i].seq > f.seq
       IN
       /\ ring' = [ring EXCEPT ![s] = IF f.ops THEN LastN(Append(@, f), RingCap) ELSE @]
       /\ page' = IF p # None /\ p.conn /\ ~Full /\ f.ops
                  THEN [page EXCEPT ![s].live = Append(@, f)] ELSE page
       /\ astray' = [astray EXCEPT ![s] = IF Later THEN "swapped" ELSE IF Full THEN "dropped" ELSE @]
    /\ Done(d)
    /\ UNCHANGED <<version, row, notices, listening, bounds, missed>>

\* sseHub.push, after the commit and under no lock that the commit held: retain the
\* frame and hand it to the subscriber, unless its channel is full.
Push(d) ==
    /\ At(d, "push")
    /\ LET s == drv[d].s  f == drv[d].frame  p == page[s]
           Full  == p # None /\ p.conn /\ Len(p.live) >= ChanCap
           Later == \E i \in DOMAIN ring[s] : ring[s][i].seq > f.seq
       IN
       /\ ring' = [ring EXCEPT ![s] = LastN(Append(@, f), RingCap)]
       /\ page' = IF p # None /\ p.conn /\ ~Full
                  THEN [page EXCEPT ![s].live = Append(@, f)] ELSE page
       /\ astray' = [astray EXCEPT ![s] = IF Later THEN "swapped" ELSE IF Full THEN "dropped" ELSE @]
    /\ Done(d)
    /\ UNCHANGED <<version, row, notices, listening, bounds, missed>>

Quiet == UNCHANGED <<version, row, notices, listening, index, drv, ring, posts, missed>>

\* doResync does nothing while a resync is under way.
Asking(p) == IF p.sync = "no" THEN [p EXCEPT !.sync = "asked"] ELSE p

\* The frames of q past a cursor, in their order there.
Ascending(K) == {h \in [1..Cardinality(K) -> K] : \A i, j \in 1..Cardinality(K) : i < j => h[i] < h[j]}
Past(q, cursor) ==
    {[j \in DOMAIN h |-> q[h[j]]] : h \in Ascending({i \in DOMAIN q : q[i].seq > cursor})}

\* handleSessionEvents: subscribe at the cursor, tell a stale one, replay the rest.
Connect(s) ==
    /\ page[s] # None /\ ~page[s].conn
    /\ \E back \in Past(ring[s], page[s].last) :
         LET joined == [page[s] EXCEPT !.conn = TRUE, !.back = back]
             stale  == ring[s] # <<>> /\ page[s].last + 1 < ring[s][1].seq
         IN page' = [page EXCEPT ![s] = IF stale THEN Asking(joined) ELSE joined]
    /\ Quiet /\ UNCHANGED <<faults, astray>>

\* The stream breaks, with what was on its way; EventSource connects again.
Disconnect(s) ==
    /\ Fault
    /\ page[s] # None /\ page[s].conn
    /\ page' = [page EXCEPT ![s] = [@ EXCEPT !.conn = FALSE, !.back = <<>>, !.live = <<>>]]
    /\ Quiet /\ UNCHANGED astray

Pushing(s) == \E d \in Driver : At(d, "push") /\ drv[d].s = s

\* onmessage: apply the ops to the slots that are there, take the cursor, and resync if
\* the hashes differ.
Receive(s) ==
    /\ page[s] # None
    /\ LET p == page[s]  pending == p.back \o p.live IN
       /\ pending # <<>>
       /\ LET f    == Head(pending)
              next == [p EXCEPT !.view = IF f.ops /\ @ # Wiped THEN f.to ELSE @, !.seq = f.seq, !.last = f.seq,
                                !.back = IF @ = <<>> THEN @ ELSE Tail(@),
                                !.live = IF p.back = <<>> THEN Tail(@) ELSE @]
          IN /\ page' = [page EXCEPT ![s] = IF next.view # f.to THEN Asking(next) ELSE next]
             /\ astray' = [astray EXCEPT ![s] = IF f.seq = row[s].seq /\ ~Pushing(s) /\ Len(pending) = 1
                                                THEN None ELSE @]
    /\ Quiet /\ UNCHANGED faults

\* resyncSession: one snapshot of the row, of whatever status, and of the data; no
\* step_seq is taken.  An error is answered as JSON too, that has no html, no snapshot
\* and no eventSeq.
ResyncRead(s) ==
    /\ page[s] # None /\ page[s].sync = "asked"
    /\ LET Answer(a) == page' = [page EXCEPT ![s] = [@ EXCEPT !.sync = "answered", !.fresh = a]]
           error == [view |-> Wiped, seq |-> 0]
       IN \/ /\ row[s].status # "gone" /\ Answer([view |-> Shown(version), seq |-> row[s].seq])
             /\ UNCHANGED faults
          \/ row[s].status = "gone" /\ Answer(error) /\ UNCHANGED faults
          \/ Fault /\ Answer(error)
    /\ Quiet /\ UNCHANGED astray

\* The browser adopts the answer, whatever frames it has applied since it asked, and
\* whatever it is.
ResyncAdopt(s) ==
    /\ page[s] # None /\ page[s].sync = "answered"
    /\ LET p == page[s] IN
       /\ page' = [page EXCEPT ![s] = [p EXCEPT !.view = p.fresh.view, !.seq = p.fresh.seq,
                                                !.sync = "no", !.fresh = None]]
       /\ astray' = [astray EXCEPT ![s] = IF p.fresh.view = Wiped THEN "unsynced"
                                          ELSE IF p.fresh.seq < p.seq THEN "rewound" ELSE @]
    /\ Quiet /\ UNCHANGED faults

\* The fetch is rejected: nothing asks again before a frame's hash differs.
ResyncRejected(s) ==
    /\ Fault
    /\ page[s] # None /\ page[s].sync # "no"
    /\ page' = [page EXCEPT ![s] = [@ EXCEPT !.sync = "no", !.fresh = None]]
    /\ astray' = [astray EXCEPT ![s] = "unsynced"]
    /\ Quiet

----------------------------------------------------------------------------
(* The end of a session, and of the process *)

\* closeSession, for a session that was idle when the sweep looked.
Sweep(s) ==
    /\ Fault
    /\ Mounted(s) /\ ~Locked(s)
    /\ row' = [row EXCEPT ![s].status = "gone"]
    /\ ring' = [ring EXCEPT ![s] = <<>>]
    /\ page' = IF page[s] = None THEN page
               ELSE [page EXCEPT ![s] = [@ EXCEPT !.conn = FALSE]]
    /\ matched' = matched \ {s}
    /\ UNCHANGED <<version, notices, listening, queue, dirty, redrive, drv, posts, missed, astray>>

\* The process restarts: rows stay, the index, the rings and the streams do not.
Restart ==
    /\ Fault
    /\ listening' = TRUE /\ notices' = 0 /\ matched' = {} /\ queue' = <<>> /\ dirty' = {}
    /\ redrive' = [s \in Session |-> 0]
    /\ drv' = [d \in Driver |-> None]
    /\ ring' = [s \in Session |-> <<>>]
    /\ row' = [s \in Session |-> IF row[s].status = "mounting" THEN [row[s] EXCEPT !.status = "none"]
                                 ELSE row[s]]
    /\ page' = [s \in Session |-> IF page[s] = None THEN None
                 ELSE [page[s] EXCEPT !.conn = FALSE, !.back = <<>>, !.live = <<>>, !.sync = "no", !.fresh = None]]
    /\ MissAll("restart")
    /\ astray' = [s \in Session |-> IF page[s] # None THEN "restart" ELSE astray[s]]
    /\ UNCHANGED <<version, posts>>

----------------------------------------------------------------------------
NewRow == [status |-> "none", seq |-> 0, snap |-> 0, base |-> 0, draft |-> FALSE]

Init ==
    /\ version = 0 /\ row = [s \in Session |-> NewRow]
    /\ notices = 0 /\ listening = TRUE
    /\ matched = {} /\ queue = <<>> /\ dirty = {} /\ redrive = [s \in Session |-> 0]
    /\ drv = [d \in Driver |-> None]
    /\ ring = [s \in Session |-> <<>>] /\ page = [s \in Session |-> None]
    /\ posts = 0 /\ faults = 0
    /\ missed = [s \in Session |-> None] /\ astray = [s \in Session |-> None]

Listen == Match \/ MatchFails \/ ListenEnds \/ \E s \in Session : EnqueueNext(s)
Drive(d) == \/ Arm(d) \/ Begin(d) \/ ClaimLost(d) \/ Step(d) \/ StepUnanswered(d)
            \/ StepFaulted(d) \/ Retry(d) \/ StepFails(d) \/ Push(d)
Browse(s) == \/ Connect(s) \/ Disconnect(s) \/ Receive(s)
             \/ ResyncRead(s) \/ ResyncAdopt(s) \/ ResyncRejected(s)

Next == \/ \E s \in Session : Render(s) \/ Insert(s) \/ Sweep(s)
        \/ \E s \in Watched : Browse(s) \/ \E h \in Handler : Post(h, s)
        \/ Listen
        \/ \E w \in Worker : Pop(w) \/ ReadSeq(w)
        \/ \E d \in Driver : Drive(d)
        \/ WriteElsewhere \/ Restart

Spec == Init /\ [][Next]_vars
----------------------------------------------------------------------------
(* Properties *)

\* The rows, the jobs of the drivers and the pages of the browsers are what the code keeps;
\* a transaction has its snapshot, a push its frame, an answered resync its answer.
TypeOK ==
    /\ version \in Nat /\ row \in [Session -> Rows]
    /\ notices \in Nat /\ listening \in BOOLEAN
    /\ matched \subseteq Session /\ queue \in Seq(Session) /\ dirty \subseteq Session
    /\ redrive \in [Session -> Nat]
    /\ drv \in [Driver -> Jobs \cup {None}]
    /\ \A d \in Driver : /\ At(d, "txn") => drv[d].snap \in Snaps
                         /\ At(d, "push") => drv[d].frame \in Frames
    /\ ring \in [Session -> Seq(Frames)]
    /\ page \in [Session -> Pages \cup {None}]
    /\ \A s \in Session : page[s] # None /\ page[s].sync = "answered" => page[s].fresh \in Answers
    /\ posts \in Nat /\ faults \in Nat
    /\ missed \in [Session -> Reasons \cup {None}] /\ astray \in [Session -> Reasons \cup {None}]

\* A drive that will still look at the row as it is.
Coming(d, s) ==
    /\ drv[d] # None /\ drv[d].s = s
    /\ drv[d].pc \in {"read", "arm", "begin"} \/ (drv[d].pc = "txn" /\ drv[d].snap.version = version)

\* Dependency-exact invalidation: a view that shows an older row has its refresh on the
\* way, in the channel, the listener, the queue or a worker's hands, or it was given up
\* at a place that is named, the listener is dead, or a step of the session failed in a
\* way that is committed: then nothing steps it again and nothing says so.
StaleIsCarried ==
    \A s \in Session : Subscribed(s) /\ row[s].snap # version =>
        \/ notices > 0 \/ s \in matched \/ s \in ToSet(queue)
        \/ \E w \in Worker : Coming(w, s)
        \/ missed[s] # None \/ ~listening
        \/ row[s].status = "failed"

\* A browser with nothing on its way shows what its session last rendered and holds its
\* cursor, so that its next event is not dropped for a stale one; unless its stream lost
\* a frame or the order of two, its resync failed, or its session did.
QuietClientAgrees ==
    \A s \in Watched :
        (/\ page[s] # None /\ page[s].conn /\ page[s].back \o page[s].live = <<>>
         /\ page[s].sync = "no" /\ Subscribed(s) /\ ~Pushing(s))
        => \/ astray[s] # None \/ row[s].status = "failed"
           \/ page[s].seq = row[s].seq /\ (page[s].view = Shown(row[s].snap) \/ Stale(s))
=============================================================================
