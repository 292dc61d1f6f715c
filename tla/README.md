# A formal model of regel

regel is a Go kernel over PostgreSQL.  Programs are admitted through a gate into a
content-addressed catalog, run on a CEK interpreter whose state is checkpointed into
the database after every step, and talk to the world through an outbox, durable
conditions and reactive sessions.  Any number of kernel processes share one database
and nothing else.  The modules here model the parts whose correctness rests on the
order in which kernels, requests and operators commit, and the parts whose correctness
rests on two programs agreeing: the lowerer and the machine on what an index means, the
printer and the parser on what a text means, the two ends of a connection on what was
asked.

Files named `src/...` below are the repository's; line numbers refer to the commit
beside this directory.  `PROJECT.json` maps every definition to its lines.

## 1. Inventory

| Component | Code | State it keeps | Operations | Correct when |
|---|---|---|---|---|
| Continuation store | `internal/cfr/{step,store,park_outcome,match,restart}.go`, `catalog/sql/schema.sql` | rows `continuation` (status, step_seq, frames, wake), `task`, `durable_condition`, `restart`, `channel_message`, `outbox` | StartWorkflow, Park, ClaimAndStep, ClaimAndResume, SendChannel, WakeEvents, PickRestart, settleJoinParent | no lost wake-up, one delivery per message, joins wake at quorum, terminal rows stay |
| Reactor | `internal/kernel/reactor.go` | leases in `task`, per-kernel passes in memory | drain, finish, dead letter, heartbeat, reap, timer scan, listen | every ready row is stepped whatever kernel stops |
| Outbox and sinks | `cfr/dispatch.go`, `cfr/sink.go`, `reactor.go` | `outbox`, `task` of kind deliver, the spool directory, the HTTP peer | record, claim, deliver, mark, close, retry | effectively once |
| Condition protocol | `cfr/restart.go`, `store.go`, `kernel/handlers.go` | `durable_condition`, `restart` | resolve with a fence, then resume directly | an answer resumes exactly the frame it was given for |
| Connection pool | `internal/pgwire/{pool,txn}.go` | idle list, open count, waiter queue, cancel taint | Acquire, Release, redial for a waiter, Close, cancel watchers | bounded, exact accounting, clean connections only, waiters served |
| Wire protocol | `internal/pgwire/{conn,rows,txn}.go` | transaction status, statement cache, taint, half-read rows | start-up, simple and extended query, drain, notifications | both ends in step between calls, every call gets its own answer |
| Epochs | `admission/{migrate,image,genesis}.go`, `kernel/server.go` | `epoch`, `epoch_current`, `epoch_hold`, the epoch each kernel pinned | genesis, boot parity, dry run, commit, revert, fence | no work of an old epoch lands under a new one, what a bad epoch touched is held, ready work crosses every flip |
| Admission | `admission/{pipeline,backpressure,agentplane,canary}.go`, `catalog` | catalog rows, ledger, approval tokens, fuel buckets, semaphore | admit, dry run, refuse, mint and consume a token, charge | no write against a stale base, a token spends once, history without gaps |
| Sessions | `kernel/session*.go`, `kernel/clientasset.go` | session continuations, frame rings, subscribers, dirty queue, the browser's cursor | mount, post, arm, step, push, subscribe, notify, redrive, resync, sweep | a stale view is always refreshed or given up in a place one can name |
| CEK machine | `cek/*.go` | control, environments, frames, meters | evaluate, apply, unwind, park, resume, assign | a program ends as its text says, however often it is stopped |
| Frame codec | `cfr/{codec,decode}.go` | none between calls | intern, encode, decode, rebind | what is decoded behaves as what was encoded |
| Lowering and printing | `lower/*.go`, `rast/{encode,normalize,sides,print}.go` | none between calls; the table of addresses | lower, normalize, address, patch siblings, print | a projection comes back as the same definition; names of locals do not count |
| Reaper breaker, cron | `kernel/breaker.go`, `reactor.go:549-622` | window of re-offers; tasks of kind cron | trip and probe; claim-and-advance, start | closes again; one fire per due tick |
| Vault, git projection, MCP plane | `admission/vault.go`, `gitproj`, `mcp` | erasure keys, mirror refs, none | erase, mirror both ways, proxy | erasure is final, the mirror follows the catalog |
| Verifiers, UI, oracle, command line | `admission/{flow,derive}.go`, `ui`, `oracle`, `cmd` | none | check, derive, render, compare | agreement with a reference definition |

They meet in four ways.  Every kernel goroutine and handler takes connections from
one pool.  All shared state is database rows, written by SERIALIZABLE transactions
for a step or an admission and by single autocommitted statements for task bookkeeping.
Kernels learn of work by polling and sessions by NOTIFY, which may be lost.  And code
reaches the machine only as an address the admission gate gave to a lowered tree.

What is hard is what follows from that: a kernel can stop between any two statements;
a kernel that was slow goes on as a zombie after its lease was given away; a send and
a receive, or two children of a join, commit at the same time; an operator answers a
condition late; a goroutine of the pool outlives the request it works for; a
transaction whose answer was lost is run again; a notification comes before, after or
instead of what it is about; a machine is stopped between any two transitions and
rebuilt from bytes; a local name captures another one's meaning in a printed text.
`PROJECT.json` lists each of these hazards at its line with the properties that watch
it.  Some the code does not withstand: they have no property, or one that excepts them by
name, a note that says so, and their place in section 3.

## 2. Modules

| Module | Models | Lines of code it stands for |
|---|---|---|
| `ContinuationStore` | the tables of the store and one action per committed transaction | `step.go`, `store.go`, `park_outcome.go`, `match.go` |
| `TaskReactor` (EXTENDS it) | drain passes, leases, crashes, zombies, reaper, timers, operators | `reactor.go`, the doors in `handlers.go`, `restart.go` |
| `MessageChannel` | the abstract promise of channels: sent once, claimed once, read at most once | |
| `TaskReactorProofs`, `RendezvousProofs` | theorems about the two: tasks and leases; messages and joins | |
| `OutboxDispatch` | the dispatcher statement by statement, with both sinks | `reactor.go:446-547`, `dispatch.go`, `sink.go` |
| `EffectivelyOnce` | the abstract promise of the outbox: record, reach, mark | |
| `OutboxProofs` | theorems, the refinement among them | |
| `ConnPool` | the pool and the cancel watchers | `pool.go`, `txn.go` |
| `ConnPoolProofs` | its theorems | |
| `WireConn` | one connection and its backend, message by message | `conn.go`, `rows.go`, `txn.go` |
| `WireProofs` | its theorems | |
| `EpochFence` | migrations, reverts, boots and the fenced and unfenced work between them | `migrate.go`, `genesis.go`, `server.go:58-91`, the fence of `step.go` and its callers |
| `EpochFenceProofs` | its theorems | |
| `AdmissionGate` | backpressure, the admission transaction with its retries, tokens, refusals, pointers and history | `pipeline.go`, `backpressure.go`, `agentplane.go`, `catalog` |
| `NameLedger` | the abstract promise of admission: one linear log of publications | |
| `AdmissionProofs` | theorems, the refinement among them | |
| `SessionFanout` | sessions, listener, workers, ring, subscribers and the browser client | `session*.go`, `clientasset.go` |
| `SessionProofs` | its theorems | |
| `CekValues` | heap, environments, patterns, operators of the machine | `cek/{value,env,props,ops,bind}.go` |
| `CekMachine` (EXTENDS it) | one transition of the machine, every kind of frame | `cek/{machine,eval,apply,control,loops,assign,unwind,native}.go` |
| `CekRuntime` (EXTENDS it) | meters, parks, codec, resumes, operators, crashes | `cek/{meter,resume}.go`, `cfr/{codec,decode}.go` |
| `Dialect` | lowering, scopes, captures, edges, diagnostics, normal form, addresses | `lower/*.go`, `rast/{encode,normalize,sides}.go` |
| `DialectPrint` (EXTENDS it) | the projection of a definition to text | `rast/print.go` |
| `DialectGate` (EXTENDS it) | a module lowered, printed and lowered again; the language's own scopes | `lower/module.go` |
| `MC...` | one for each of the specifications with structured constants: instances for TLC | |

**Store and reactor.**  `status`, `seq`, `frames`, `wake`, `parent` are the columns of
`continuation`; `tasks[c]`, `conds[c]` are the rows of `task` and `durable_condition`
that belong to `c`, in insertion order.  `frames` keeps only what decoding them
yields: fresh code, a machine parked on a wake, one parked on a signal, or nothing
(done).  ClaimAndStep claims and checkpoints in one transaction, so `running` is never
visible and the model has no such status.  What the machine computes is reduced to how
the step ends (`ParkDone`, `ParkTimer`, `ParkMessage`, `ParkJoin`, `ParkCondition`,
`ParkFailed` ...) and to one external effect or one send; the constant `Ends` picks
the ends a model has.  A channel with its match predicate is a `Topic`.

In `TaskReactor` a kernel has a `batch` (claimed, not yet run) and a task in hand with
the next statement to write (`cur`).  `StepTask` is the transaction; `FinishTask`,
`MarkDead`, `RecordStepFailed`, `OfferAbort` are the statements after it, each an
action, so a kernel may stop between any two.  `Reap` covers heartbeat and reaper: the
lease of a stopped kernel runs out, that of a live one only by the fault `lapse`
(heartbeats that came too late), after which the owner is a zombie.  `AbandonPass` is
a pass that returns an error: its other tasks stay leased, and since `heartbeatOnce`
renews by owner no reap without `lapse` applies.  `ResumeDirect` is ClaimAndResume,
which hands the machine a restart and never a value.

**Pool and wire.**  In `ConnPool` a request is one Acquire and its Release.  Each critical
section of the mutex is one action; dialing, redial goroutines, a waiter's channel and the
steps of giving up are actions of their own, as they are separate in the code.  A watcher
whose context ended may fire at any time after, since `stop()` closes a channel and waits
for nobody; `late` is history, the cancels sent after their request released.  In
`WireConn` `to` and `wire` are the two directions of one socket; `me` is the `Conn`
(status byte, taint, statement cache), `call` the call that reads, and `at` the message it
waits for.  Every `Read...` action is one turn of a read loop, and the backend (external:
what the code relies on in PostgreSQL) consumes one message at a time, skips to Sync after
an error and sends notifications only outside a transaction. The backend commits what no
block holds open at Sync, where a commit may fail.  A socket that dies while a call drains
is told to nobody (`Drain`); `did` and `cut` are history, what became of each request's
statement and whose drain was cut short.  Statement texts and requests are model values; a
message carries the request it answers so that a property can tell whose it is, and no
action reads that tag.

**Epochs.**  In `EpochFence` an image is a binary with the std entries it was built with,
and a row of `epoch` is the image whose pair (manifest root, dispatch attestation) it
carries.  A kernel verifies its image, then pins what is live *in a later statement*, as
`NewWithImage` does, and serves.  `Step` and `ParkChild` are fenced; `StartWorkflow`,
`Park`, `Wake`, `PickRestart` and `ClaimAndResume` are not, and are modelled so: their
transactions do not read `epoch_current` and may be the last to commit.  `updated_at` is
kept as the epoch live at the update (`touched`), which is all that the comparison with an
epoch's `created_at` tells; a row updated while the migration itself runs, which the code
holds without need, is not distinguished.  `Outcome` reduces the ends of a step to asleep,
parked with a condition, or done.  A kernel whose fence tripped is `draining` and stays
up: `trip` ends its reactor alone, and `Exit` is an operator's stop.  One value tag stands
for any that a migration may ban.  `authors`, `strays`, `misfits`, `narrow` and `reverted`
are history variables: no action's guard reads them but to keep the history itself.

**Admission.**  In `AdmissionGate` a client walks `Submit` (fuel is read), `EnterGate`
(semaphore, BEGIN: the snapshot is taken), and one action that ends the attempt, since a
SERIALIZABLE transaction reads only its snapshot and shows nothing before COMMIT:
`Admit`, `AdmitNoop`, `Rehearse` (a dry run), `Reject`, `RejectKept`, or `Retry` on a
serialization failure.  Refusals of a rolled back transaction are written by a statement
after it (`WriteRefusal`), fuel by another (`Charge`), and `Fail` is an internal error or
a lost answer between them.  An attempt commits its moves only if nothing it read at
its scope or writes changed since its snapshot, which is what PostgreSQL guarantees; it
may fail whenever anything was committed.  A content address is the record of what is
hashed.  The verifiers are one predicate on sources, `Flawed`.  `heads` are the name
pointers, `history` the windows that the trigger maintains, `admissions` the ledger.

**Sessions.**  In `SessionFanout` a driver (`drv`) is a goroutine of POST /event or of the
invalidation workers with the step it is at: read the sequence, arm, begin, the
transaction, push.  `notices`, `matched`, `queue` are a notification on the channel, in
the listener's hands and in the bounded queue; `ring` and a subscriber's channel hold
frames within `RingCap` and `ChanCap`.  `Step` is an attempt that commits a frame;
`StepFails` an error that rolls back, `StepFaulted` one of the resume closure, which
`parkFailed` commits as a failed row, told to nobody.  `ResyncRead` answers a page or an
error, which the browser adopts alike; `ResyncRejected` is a fetch that failed.  `page` is
the browser: what it shows, its cursor, the frames on their way, and a resync under way.
A resource is the number of writes so far and a view shows its parity, so that a diff can
be empty.  `missed` and `astray` are history: where a refresh was given up, and why a
stream may have lost a frame or a resync failed its page.

**Machine.**  `CekMachine` keeps the registers of the Go struct; `Step(m)` is one
transition and `CekRuntime` takes one per action, so that a meter, a crash or a park may
come between any two.  Go pointers are indices of an explicit heap, so aliasing is
visible, and `Encode`, `Rebind` and `Machine` are the codec on that heap.  A live frame
holds the place of its node (`at`) beside the path that the code computes for it
(`path`): only the latter survives a park.  Programs are trees in the node order of
`rast/node.go`.

**Dialect.**  A node is its kind, its text, a number and its children, with names in the
source tree and De Bruijn indices in the lowered one.  The text that the printer makes
is the tree the parser would make of it, so parentheses are nodes.  `Address` is the
place of an encoding in a table that only grows.  `DialectGate` states the scopes of
JavaScript a second time, on the source, by renaming every binder apart, and compares.

**Mutants.**  A definition with the comment "mutant" stands before the one it is a
faulty version of; no specification uses it.  `PROJECT.json` pairs each property with
the mutant that breaks it.

## 3. What is checked

Passing runs:

| Run | Instance | Properties |
|---|---|---|
| `messages` | 2 continuations, 2 kernels, 2 messages on 2 topics, 3 steps each, batches of 2, one fault of any of 4 kinds | `TypeOK`, `PinnedIsClaimed`, `ReceivedOnce`, `ClaimedIsDelivered`, `NoMissedRendezvous`, `ImplementsChannel` (refinement) |
| `joins` | a parent and two children (or nested), 2 kernels, timers and signals answered by operators, no faults | `JoinWakesAtQuorum`, `LosersStop`, `TerminalStays` |
| `recovery` | 1 continuation with a capability, 2 kernels, timers, events, signals, two faults of any kind, attempt ceiling 1 | `ReadyIsDriven`, `ReadyIsStepped` (liveness) |
| `outbox` | a spooled and an HTTP effect, 2 kernels, three faults | `ClosedIsDelivered`, `RepeatsArePaid`, `ImplementsLedger` (refinement), `RecordedIsDelivered` (liveness) |
| `epochs` | 1 continuation, 2 kernels, 2 images (the second with one more std entry and without the banned tag), 3 epochs, one kill | `TypeOK`, `BadWorkIsHeld`, `BannedIsGone`, `ReadyUnlessDrained` (liveness) |
| `pool` | 5 requests, 2 of them inside another, 2 slots, two faults, late watchers | `SlotsAccounted`, `OnlyLateCancelsStray`, `WaitersServed` (liveness) |
| `admission` | an engineer and two clients of one metered agent, two names of which one imports the other, fuel for one, 2 slots, 2 retries, 3 submissions, one refill, one token, one fault | `HistoryIsExact`, `ApprovedLands`, `OneOutcome`, `FuelBoundsRuns`, `ImplementsLedger` (refinement) |
| `sessions` | 2 sessions of which one is watched, 1 handler, 1 worker, a ring of 1, a channel of 2, a queue of 1, 1 write, 2 troubles | `StaleIsCarried`, `QuietClientAgrees` |
| `machine` | 10 programs that between them use every kind of frame, 2 fuel budgets, grants of 0, 2 and 5, the governor, 1 crash | `RunsAsWritten`, `EffectsInOrder`, `ScopeAgrees`, `EveryGrantMoves`, and no deadlock |
| `wire` | 3 requests, 2 statement texts, 2 dials, 2 notifications | `InStep`, `AnswersAreOwn`, `CacheIsBacked`, `AnswerIsComing` |
| `dialect` | 3,766 modules: every two statements out of 36 in a function, bare and after a declaration, and every three declarations out of 16 | `ProjectionHolds`, `RenamingKeepsAddress`, `CapturesAreSettled` |

What they show.

*Messages*: a message is handed to one receiver that accepts it, for good (a session gives
up what it was sent with its row, `session_http.go:344`, and is not in this module), and
is read at most once, after that; the claim column and the pinned wake never disagree, and
no queued message coexists with a sleeping receiver that takes it.  *Joins*: the parent
wakes in the transaction of the child that completes the quorum, in every order of
finishing; once a race is won its losers do no more work. *Recovery*: a ready row always
has a resume task at its step_seq that nobody is closing, and it is in the end stepped or
surfaces as a condition an operator can answer, except in the two states `GivenUp` names.
*Outbox*: a deliver task is closed only over a marked row, each repetition of an HTTP
request is paid for by a fault, and an effect is always delivered in the end, dead, or
left leased by an abandoned pass.  *Pool*: `numOpen` counts exactly what exists and a
connection has one owner, watchers that fire late included; a cancel that is on its way to
another request's backend was sent by a watcher that outlived its request (that such a one
can be is the first of the five below); a waiter starves only in three named states. *Epochs*:
the blast predicate of a revert (`migrate.go:493`), which sees only the stamp of a row's
birth and its last update, finds every live row a kernel of the bad epoch wrote, in any
order of boots, steps, wakes, restarts and earlier reverts; a banned tag that has landed
is in no live frame; both but for rows that an unfenced door wrote for a kernel whose
epoch was over (`strays`) or that a kernel wrote which pinned an epoch of another pair
(`misfits`).  A ready row is stepped or held whatever flips come, unless no image can boot
(`Bricked`) or every kernel has drained (`AllDrained`): one kernel on the live epoch is
enough, and no kernel of an epoch that is over sits on work without tripping.

*Admission*: the pointers and their history are those of one linear log of publications,
whichever attempts overlap, fail and are retried, and what an agent moved at product scope
is what a human approved, under an approval spent on nothing else.  A submission has at
most one admission row, never one and a refusal, and a caller told that it was admitted
finds the row.  Fuel is read before the gate and charged after it, so an agent's clients
overshoot its bucket together: `FuelBoundsRuns` states by how much.  *Sessions*: wherever
a write has made a view stale, something still carries the news (a notice, a match, the
queue, a driver), or the place where it was given up is named: in `missed`, by the dead
listener, or by the row itself, `failed`; and a browser with nothing on its way shows what
the row holds unless its stream was cut or overrun or its resync failed (`astray`), or the
session did.  *Machine*: each program ends with the result of running it in one piece,
with the same effects in the same order, whatever meter, crash or restart interrupts it at
whatever transition and however the state went through the codec; the environment chain at
a park has the depth the scopes of the text give it; and every grant of at least one step
moves the machine.  *Wire*: between calls both ends agree on the state of the session; the
answer that a call returns is the answer to that call, and a success it reports is what
the backend did for it, but for a commit refused at Sync and a connection cut while
draining; a name in the statement cache is prepared at the server; a call that reads has
its answer, or the end of the stream, still coming.  *Dialect*: the text of each admitted
definition is admitted, with the same address and edges, and prints as itself; renaming
every local apart changes neither address nor verdict; a closure is refused for what it
captures exactly when the binding is written somewhere and is no constant.

**Bounds.**  `MaxSeq` bounds the steps of a program, `MaxConds` the conditions operators
answer, `MaxFaults` the faults; attempt counters saturate at the ceiling. Two kernels are
a victim and a survivor, or an owner and a thief; a third adds no new conflict because all
conflicts are on one task row or one step_seq.  Two messages and two receivers give every
race of the rendezvous; three continuations are a parent with a winner and a loser.  In
`messages` the ceiling is 2 so that a failed task is retried; in `recovery` it is 1 so
that one fault kills a task and a second can interrupt deadTask.  In `joins` two kernels
and an operator already hold tasks for one row at the same time; stale leases are left to
`messages` and `recovery`, where every step goes through the same claim.  In `pool` two
slots and two pairs of nested requests are the smallest instance where all holders can
wait for each other; the fifth request queues behind them.  A connection's number is used
again when it is gone, so that two are enough.  In `epochs` one continuation is enough
because no action relates two, two kernels are one of an old epoch and one of the live
one, and three epochs are a good one, a bad one and the revert (or two good ones and a ban
between); `MaxKills` bounds the kernels that are killed; those that drain may be stopped
by an operator at any time.

In `admission` two clients of one principal are what the fuel race takes, and the third
competes for names.  `maxRetries` is 3 in the code; two attempts are one that is retried
and one that is the last. In `sessions` a queue and a ring of one are always at their
limit, the second session is what fills the queue, and one write and a driver's own edit
already compete for the one row; a trouble is an event from the browser, a failed
statement, resume or resync, a lost answer, a sweep or a restart.  In `machine` sandboxed
programs start with a fuel of 1 or enough, and grants of 2 and 5 (and 0, which is accepted
and moves nothing) stop them at every later count of transitions in some order; the
governor looks every 6 transitions, the crash may come anywhere.  In `wire` three requests
are one whose answer is left unread, one that finds it and one after; two texts evict
nothing but give a hit and a miss; the second dial follows a destroyed connection.  In
`dialect` any two statements that declare, use, capture, shadow or assign the names x, y,
u, v meet in one scope, so each pairing of a binder and a use across every kind of scope
is there, and the third statement in front puts a `let` into the outer scope.

Symmetry is used in `messages`, `joins`, `admission` and `wire`, which check no
liveness.  Deadlock checking is off but in `machine`: the other models stop when their
programs have finished, their requests have been served or their bounds are used up.

**Fairness.**  Kernels: `WF` of each kernel's pass, because its loop ticks for ever;
`WF` of reaping tasks of stopped kernels, because every kernel runs the reaper; `WF`
of the timer scan.  Pool: `WF` of what a goroutine does once it can run (a dial
answers, a handler returns, a delivered channel is read).  Epochs: `WF` of a down
kernel's boot and of a kernel's drain loop.  Nothing obliges a kernel that has drained to be
replaced: it does not exit (below).  Clients, operators,
contexts and faults are never obliged to act.  `AdmissionGate`, `SessionFanout`,
`CekRuntime`, `WireConn` and `DialectGate` assume no fairness and claim no liveness; what
should come in the end is stated there as something that is still on its way
(`StaleIsCarried`, `AnswerIsComing`) or as progress of a step (`EveryGrantMoves`).

**Disagreements with the documents, comments or tests.**  One is a run that TLC
refutes: `lost_effect` (`NoLostEffect`): mail sent in a step that then signals is in no
outbox row.  Four can be had from the modules by changing an instance:

| Change | Then fails | Because |
|---|---|---|
| `Job <- DriftJobs` in `machine.cfg` | `RunsAsWritten` | a do-while enters its body with the path of the statement (`eval.go:171`), so a park in the first pass resumes at the statement itself |
| `Job <- LeakJobs` in `machine.cfg` | `ScopeAgrees` | leaving a catch that binds pops one record too few (`unwind.go:34`, `env.go:24`): `let x = 1; try { throw 5 } catch (e) { } return x` returns 5 |
| `Shapes = {"siblings"}` in `dialect.cfg` | `RenamingKeepsAddress` | the declarators of one statement are lowered before any of its binders is pushed (`stmt.go:157`): in `const u = x, v = u` the second `u` is not the first (ADR-02:70) |
| `Revocable = {c1}`, `Ends = {"done", "message"}`, `Msg = {m1}`, `TopicOf <- OneTopic` in `messages.cfg` | `ClaimedIsDelivered` | parking a receiver on `capability.revoked` overwrites the wake that pins its message (`step.go:649`) |

The passing runs are about the rest: `Jobs` parks in no first pass of a do-while and uses
no outer local after a catch that binds and has no finally, no declarator of `Stmts` uses
its neighbour, no receiver of `messages` waits for a revocation.

Five more are in the passing runs as the code has them, and the properties there except
them by name:

- `OnlyLateCancelsStray`: `stop()` closes a channel and waits for nobody (`txn.go:66`), so a
  watcher may mark and cancel a connection that its request has released, and another holds.
- `ReadyUnlessDrained`: ADR-06:236 has a fenced kernel exit nonzero and be restarted by its
  supervisor.  `trip` prints `drained_and_exited` and cancels the reactor (`reactor.go:140`);
  `serve` waits for a signal or for its listener (`main.go:380`), so the process stays up, with
  its unfenced doors open.  When every kernel has drained, ready work waits for an operator.
- `StaleIsCarried`, `QuietClientAgrees`: an error of runSessionStep that aborts no
  transaction is an `OutError`, which `parkFailed` (`park_outcome.go:259`) commits: status
  `failed`, step_seq advanced, the form's UPDATE kept.  ClaimAndStep returns no error,
  driveSession neither frame nor error (`session_step.go:113`), the worker takes its
  session for refreshed, and POST /event dereferences the frame it did not get
  (`session_http.go:195`).  `session_step.go:9` says that every checkpoint that advances
  step_seq emits exactly one frame.  No sweep and no event ever takes the row again; only
  its step.failed condition is left, for an operator.
- `QuietClientAgrees`: ADR-11:161 has divergence heal itself within one round trip.  A
  resync whose fetch fails only clears `resyncing` (`clientasset.go:142`) and nothing asks
  again before a frame differs; an error is answered as JSON too (`session_http.go:204`)
  and adopted as a page without html, snapshot or cursor.  Both are `unsynced`.
- `AnswersAreOwn`: the implicit commit of an extended statement is at Sync, after its
  CommandComplete, and drainToReady (`conn.go:589`) throws an ErrorResponse of Sync away;
  nor does it report a socket that dies while it drains, and `finish` (`conn.go:703`)
  leaves the rows done without an error.  Both times success is told for what did not
  happen.

States that a liveness property excepts, each by name in its module:

- `GivenUp` (`TaskReactor`): an error ends a drain pass and the tasks it had claimed stay
  leased for ever, because the live kernel's heartbeat renews them (`reactor.go:331`);
  or deadTask, three statements (`reactor.go:316`), stops after the first and leaves a
  dead task and no condition.
- `Stranded`, `Forgotten`, `HoldAndWait` (`ConnPool`): the pool loses a slot to a waiter that
  left while a goroutine dialed for it (`pool.go:196`); a dial that fails gives its slot
  back and wakes nobody (`pool.go:91`); `runTask` holds its connection while `finishTask`
  acquires another.
- `Bricked` (`EpochFence`): RevertEpoch restores the pair of the epoch row and not the std
  pointers that VerifyBoot recomputes the root from (`migrate.go:461`).  The prior binary
  refuses to boot, and the bad one still verifies, against its own epoch row.

Read in the code while modelling, and not carried by a run.

Store, reactor and epochs:

- a kernel that stops between creating and writing a spool file leaves an empty one,
  which the redelivery takes for a delivery (`sink.go:73`); `OutboxDispatch` has the
  file as `"empty"` and counts it as reached, as the code does.
- ADR-08 section 4a has every kernel transaction read `epoch_current`; StartWorkflow, Park
  (which also stamps epoch 1, `store.go:75`) and ClaimAndResume do not.  These are the
  `strays` that `BadWorkIsHeld` and `BannedIsGone` except.
- VerifyBoot reads the row of the image's own epoch and not the live one
  (`genesis.go:204`), and pinning is a statement of its own (`server.go:77`): `misfits`.
- MigrateCommitImage looks for missing names (`migrate.go:334`), so an image that changes
  the body of an existing std entry commits and can never boot.
- `epoch_hold.released_at` is written nowhere, and PickRestart steps a held row; a held
  sleeper has no condition and no way out at all.
- a kernel whose epoch is over notices only when it has a task to step; there is no
  listener on `epoch` in an idle one.
- ClaimAndResume drops `Delivery.Value` (`store.go:188`), so a receiver or a join
  parent whose step failed resumes without its message or its results; `messages` has
  no operators' restarts of failed receivers for this reason.
- `wf.all([])` parks with quorum 0 and is never woken (`native.go:473`); a failed child
  settles no join (`park_outcome.go:259`), so its parent sleeps until an operator restarts it.
- a race loser parked on a condition is not cancelled (`park_outcome.go:425`), which
  is why `LosersStop` lets such a child go on.
- PickRestart revives a row whatever its status (`store.go:163`), which is why
  `TerminalStays` is checked without dead tasks.
- the frame-hash fence is read before PickRestart's transaction (`restart.go:72`): the
  continuation may step in between.
- the half-open breaker closes or trips on one pass (`breaker.go:144`).

Admission and sessions:

- the APPROVAL_REPLAY refusal cannot be reached under SERIALIZABLE: the transaction
  that lost the compare-and-set fails and is retried on the new snapshot.
- the imports of an overlay are resolved when it is admitted and may be older than the
  product's; history windows carry `clock_timestamp`, so an as-of read between two
  pointers of one patch sees half of it.
- an approved patch that turns out to be a no-op commits its admission row and does not
  consume the approval.
- frames are pushed after the commit (`session_step.go:117`), so two drivers may push
  theirs in the other order; ADR-11:94 has the id stream "gapless and monotone".
- after a restart the ring is empty and a reconnecting browser gets no resync.  A slow
  subscriber loses the live frame (`session_sse.go:87`) and resyncs when it reconnects.
- the comment at `session_invalidation.go:249` has a running session "re-render with fresh
  data anyway": its step may have read before the write.
- the sweep deletes by id without looking at idleness again.
- `gate_refusal` is read at `session.go:814` and nobody notifies it; the browser ignores
  `applied: false`.
- a step whose draft is empty still records its version (`session_step.go:198`, `:347`),
  which the row then does not have: an edit is refused against a version no one wrote.

Machine and codec:

- closures and opaque values are not shared by content in the codec, so `===` between
  two references to one closure changes across a park.
- the result of `chargeAlloc` is ignored; the snapshot of `FuelSteps` is the budget and
  not what is left, so each resume gets a full one; Resume drops `asOf` and the governor's
  ceilings of the request.
- the payload of `wf.send` is a live pointer that is encoded at the commit, after later
  statements of the step may have written to it.
- an abort runs no finally; consecutive empty cases of a switch do not fall through.

Wire:

- drainToReady drops a NotificationResponse (`conn.go:589`), where `conn.go:20` says that
  none is lost; `notifyCh` holds 32 and drops the rest.
- Commit in a transaction that has failed reports success, though the server rolled back.
- a cached statement that the server refuses (its plan is stale) is refused for ever on
  that connection (`conn.go:455`).
- `stop` of armCancel is not called when Next fails; the gates of Query and Exec do not
  check for half-read rows, as `conn.go:445` says they do; a waiter is dialed for with
  `context.Background`.

Lowering and printing:

- an element of an array pattern with a default is printed as text that does not parse
  (`decl.go`, bindingElement; `print.go:490`), against `print.go:42-48`.  The printer's
  model makes it a node that the gate refuses, and no module of the run has one.
- the patterns of for-of and catch are printed after their binders are pushed
  (`print.go:408`, `:449`) and lowered before; collectBinders also walks the defaults.
- a reference is printed under the name it had where it was imported from, so a local of
  that name captures it, two dependencies of one name clash, and two that share an
  address are printed under one name.
- trailing holes of arrays are lost; strings are printed with Go's escapes; a number with
  a member (`1.x`) does not parse.
- a nested function that calls itself, and `const f = () => f()`, lower to a free name
  that faults when it is run (`eval.go:57`); `expr.go:133` recommends the form, and
  nestedFuncDecl has it refused by the type checker.
- the defaults of `{a, b = a}` see the scope outside; an assignment by destructuring is
  not seen as one (`markReassign`), so a captured `let` may be written by it.
- the generators of `fuzz_test.go` make no binders, so no test lowers a printed scope.
- uses of a binding before it is evaluated are exempt from `RenamingKeepsAddress` and
  `CapturesAreSettled` (`Early`): such a program fails when it is run.

## 4. What is proved

Every theorem holds for all values of the constants under the named assumptions
`StoreAssumption`, `ReactorAssumption`, `OutboxAssumption`, `EpochAssumption`,
`PoolAssumption`, `WireAssumption`, `GateAssumption` and `FanoutAssumption`: sets of
actors that are counted are finite, null values are no members of what they stand for,
capacities are at least one, and tables of constants are of their types.  TLC evaluates
them in the passing runs.  Four theorems have a hypothesis besides the specification, each
named below with its reason. Every invariant called inductive was first checked by TLC.

*Tasks and leases* (`TaskReactorProofs`).  `TypeCorrect`, `ReadyAlwaysDriven`.
`ReadyIsDriven` is not inductive by itself: a task reference in a batch or in hand must
exist and keep its `seq`, or a pass could close a task it no longer describes.  The
inductive invariant is `IInv == TypeOK /\ RefsExist /\ ReadyIsDriven`.  Whatever sets a row
ready inserts, in the same transaction, a task at its step_seq; a step leaves the row not
ready, or ready at a new step_seq with a new task; and a pass decides to close a task only
after a step that advanced `seq` or lost the claim, so the task it closes is no driver.
`Steps` collects what every way of ending a step has in common, so that each outcome is
treated once.

*Messages* (`RendezvousProofs`).
- `SendMeetsReceive`: `NoMissedRendezvous` is inductive with the types of the store.  A send
  looks at every sleeping receiver and a receive at every unclaimed message in its own
  transaction, so neither can leave a pair behind, and a row falls asleep on a topic only
  through a receive.
- `PinnedAreClaimed`, `ReceivedAtMostOnce`, `ClaimedAreDelivered` rest on `MsgInv`.  Its part
  `PinInv` says that a message is claimed only after it was sent, that a row asleep has been
  handed nothing, and that a pin and a claim name each other; `ReceiptInv` that a message that
  was received is pinned to nobody; `Accounted` that a claimed message was received, is pinned,
  or was claimed for a row that has had a condition.  The last disjunct is real: an operator's
  restart resumes a receiver without its message, and a revocation overwrites its pin.
  `ClaimsAccounted` states the three fates without a hypothesis; `ClaimedAreDelivered` is what
  remains when no continuation ever has a condition.
- `StoreImplementsChannel`: the refinement of `MessageChannel`.  `Delivers` says what one
  transaction does to sends, claims and pins together, whichever row runs it, and
  `DeliveryPasses` maps it, message by message: a claim is only written over None, and a
  receipt only by the row whose pin, by `PinInv`, is the claim's and, by `ReceiptInv`, unread.

*Joins* (`RendezvousProofs`).
- `ParentsWake`, `RacesEnd` rest on `JoinInv`: children know their parent, a parent asleep is
  below its quorum, and once a race has a winner each loser is over or has had a condition.
  No hypothesis: revivals, dead tasks and lapsed leases included.
- `ParentsResumeByQuorum`, `OnlyFailuresRevive` add `ResumeInv`: an open condition is the last
  one of its row and holds it (`RowHeld`), and a parent that goes on was resumed by its winner
  or by all its children (`Joined`).  Both are false of a row on which a dead task has left its
  `step.failed` while it went on, since PickRestart revives a row whatever its status; so
  `ResumeInv` says them of each row without one, and of each parent that has none on itself or
  on a child.  Neither theorem has a hypothesis: the damage stays where the dead task was.
- `JoinsWakeAtQuorum`, `TerminalsStay`, the properties of the run `joins`, have the hypothesis
  `[]~DeadLetter`, that no kernel is about to record a `step.failed`; then all rows are sound.

*Outbox* (`OutboxProofs`).  `OutboxTypeCorrect`, `ClosedAlwaysDelivered`,
`DispatcherImplementsLedger`: a task exists only for a recorded intent, a delivered intent
has been reached, and a kernel at `mark` has reached its intent and one at `finish` with
verdict `done` has marked it.  Then every action maps to Record, Reach, Mark or a stutter of
`EffectivelyOnce`.  `RepeatsPaid` strengthens the bound it proves by what may still call:
`PaidInv` counts, for each intent, its calls, a free task, the holders that wait for their
turn and the one that is calling, and the sum never exceeds one and the faults.

*Epochs* (`EpochFenceProofs`).  `EpochTypes`, `RevertsHold`, `BansHold`.  `BadWorkIsHeld` is a
statement about all reverts so far and needs three facts about what a revert can see.
`LiveTouched`: a row that a kernel of the live epoch wrote, strays apart, was last updated in
the live epoch; a flip empties it, a write or a wake keeps it, and at the moment of a revert
it puts the row into `BlastRadius`.  `OpenIsParked`: a restart only revives a parked row, so
no row comes back to life unheld.  `NoneUnwritten`: a birth writes a row nobody wrote before.
`WrittenKeeps`, `WokenKeeps` and `FlipCatalog` say once what the births and steps, the wakes
and restarts, and the three migrations have in common.  The ban adds `NarrowImages`: an epoch
that bans the tag has a binary that does not write it.

*Pool* (`ConnPoolProofs`).  `PoolHolds` and `PoolTypes` hold whatever the watchers do.
`PoolInv` splits the accounting by owner: a waiter is in the queue, or a goroutine dials for
it, or its channel holds an answer, and never two of them (`Queue`); a connection is idle,
carried in one channel or held by one request (`Owned`); so `numOpen` is the sum of five
counts (`Counted`), each of which an action changes by one.  `SlotsHold` and
`InnocentsSpared` add `CancelInv`, and have no hypothesis: a watcher that fires while its
request holds the connection marks it before it sends anything, and Release destroys what is
marked, so the backend it is sent to is held by the request that asked or by nobody; a marked
connection that is idle, handed over or another's was marked by a watcher that was late.
`WaitersKnown` is the other direction of `Queue`: who waits is queued, dialed for or answered,
and nobody queues beside an idle connection.  With `Counted` it gives `NoFourthDeadlock`, the
safety half of `WaitersServed`: when nobody can move while a request waits, `numOpen` is `Size`
and every slot is held by a request that waits for a second one, or the pool is in one of the
other two named states.  It assumes `OneDeep`, that what is acquired under a connection has
nothing under it: `finishTask` and the `dbReader` acquire under `runTask` or a handler, and
release before they return.  Without any one of the three exceptions TLC refutes it.

*Wire* (`WireProofs`).  `AlwaysInStep`, `AnswersStayOwn`, `CacheStaysBacked`,
`AnswersCome`: all that the run `wire` checks, without a hypothesis.  None of the four is
inductive, since each speaks of the moment a message is read and not of the one it was
sent.  `WireInv` says of every message in flight what its sender knew and cannot have
unlearned since.  `Asked`: what the backend has still to read ends with the one message
that asks for Ready, and a backend that skips has that one before it.  `LastWord`: Ready
is sent when nothing is left to read, with the status the backend then has, and only
notifications follow it.  `Own`: everything else on the wire answers the call that is
open.  `Verdict`: whether the statement ran is decided once, so a completion or an error
met later, or remembered through a drain, is still true of that; and whether it is kept is
decided before Ready is sent.  `Past` says of the requests that were answered what
`AnswersAreOwn` says, its two false successes included: a commit refused at Sync, and a
drain that was cut.  `Cache`: a ParseComplete on its way names a statement the backend
has. `Dialogue` keeps start-up apart: one message is in flight, or what followed an
answer. `ReadOne`, `ReadOrder` and `WriteMore` say once what taking a message off a stream
and writing to one do to these; `ReadOnInv`, `ReplyInv` and `IdleInv` what every read in a
call, every answer that does not end it, and every answer that does, have in common.  The
half of `InStep` about the middle of a call needs `OrderInv` too: what is still to be read
of an extended call is a run of Parse, Bind, Describe, Execute, Sync (`Canonical`); an
answer on the wire is followed by the answer to the next of these or ends the call
(`Chain`); and past the notifications the stage awaits the first of them (`Awaits`).  So
an error wherever it strikes, a statement that was cached, or a push between two answers
never brings the reader a message it does not read on, and only a script's COPY destroys a
connection for a desync.

*Admission* (`AdmissionProofs`).  A request changes the state of its own client only, so each
property has an invariant of its own.
- `HistoryExact`: each window of a slot is well formed and the open one is the head.
- `GateImplementsLedger`: `LinearInv` says that the heads are what the ledger shows after all
  publications, and the heads of a snapshot what it showed after as many as had been committed
  when the snapshot was taken.  Then a commit that lost no conflict is a publication over the
  newest heads, and everything else a stutter of `NameLedger`.
- `OutcomeIsOne`: a submission that is not decided has neither row nor refusal, which a retry
  and a lost answer keep.
- `ApprovalsLand`: an approval that a snapshot has seen is still there and bound to the same
  addresses, so the one spent is the one that was compared.
- `FuelBounds`: `PaidFor` counts what a principal spent against the pipelines it began, those
  in flight and, once the bucket is empty, those that passed the check before it was.
- `PermitsHeld`: the count of the semaphore is the number of clients between gate and answer,
  a property of the module that no run repeats.

*Sessions* (`SessionProofs`).
- `FanoutTypes`: types by the tables they are about.
- `RefreshIsCarried`: with `Ordered`, a marked session is queued, and no row and no snapshot
  shows data that is not there yet.  So a write that makes a view stale does so together with
  its notice, a coalesced notice finds its session in the queue, and the drive that ends a
  refresh has either rendered the data as it is, or names where it gave up, or has left the row
  `failed`, of which no frame and no name tells.
- `QuietClientsAgree`: `StreamInv` has two parts for each session.  `FramesOK`: no frame,
  cursor or answer on its way is ahead of the row, and one that is level with it shows
  what the row shows.  `StreamOK`, for a stream that `astray` does not except: either the
  last frame of the row is still between commit and push (`TopFlies`), or it closes the
  ring and the stream, or the browser has had it (`InOrder`).  A push in its turn restores
  `InOrder`; one out of its turn finds a later frame in the ring, which is what `astray`
  records as `swapped`.  A frame that comes in order after a failed resync makes the page
  agree again, and ends `unsynced`.

Only model-checked: all liveness (`ReadyIsStepped`, `RecordedIsDelivered`,
`ReadyUnlessDrained`, `WaitersServed`, `EveryGrantMoves`), which needs fairness and
ENABLED; and the machine and the dialect, whose modules recurse over trees, which is
outside what the prover takes.

## 5. Not modelled

- *Dialect*: the bans by kind alone other than one representative (`Banned`), the
  statements a module may not have, regular expressions, bigints, templates, tuples,
  conditional types, computed keys, interfaces, comments and docstrings.  The parser
  itself is external.
- *Machine*: frames that only collect operands are one (`Operands`); text as a number,
  NaN, bigints, bit operations, holes of arrays, regular expressions, the natives that
  only read, and the allocation meter, whose verdict the code drops.  toInt32 goes through
  int64 and differs beyond 2^63.  An optional chain on null is short-circuited before the
  member is read.
- *Codec*: bytes; what two references share is kept.  The taint lattice is the union that
  `StateTags` takes, of one tag.
- *Sessions*: the operator's restart of a failed session, and another kernel's listener, drives
  and hub, of which only the writes are here.  A page that shows an error answer is one value
  (`Wiped`): its slots are not counted one by one.
- *Store*: wall-clock time (a timer is due when the scan takes it, a lease lapses as a
  fault), the frame-hash fence of `restart.go`, the dry run of a migration, whose rows
  nothing reads back, and the decoding legs of its scan.
- *Admission*: parsing, type checking, the verifiers and derivation (one predicate),
  the canary's arithmetic.  They are pure; their place in the order of the pipeline is
  modelled.
- *Wire*: what SCRAM and TLS compute and the encoding of values; the exchange itself, and
  a script that asks for COPY, are modelled.
- Cron, the reaper's breaker, the vault, the git projection, the MCP plane, UI rendering
  and its diff, the oracle and mutant harnesses, command lines.

## 6. Plan

1. `CronSchedule`, claim-and-advance with starts that fail one by one, and
   `ReaperBreaker`, composed with the reaper of `TaskReactor`.
2. `GitProjection` and the vault's erasure.
3. The keyed list diff of `ui` and the flow verifier of `admission`, as functions checked
   against reference definitions.
