---------------------------- MODULE EpochFence ----------------------------
(***************************************************************************)
(* Epochs: the migrations of internal/admission/migrate.go, the boot check *)
(* of genesis.go and server.go, and the work of kernels that are fenced by *)
(* the one row of epoch_current, or are not.                               *)
(*                                                                         *)
(* Every action that writes a continuation or an epoch is one SERIALIZABLE *)
(* transaction.  A step reads epoch_current first and again before COMMIT  *)
(* and a commit of an epoch reads every continuation, so of two that       *)
(* overlap one aborts or they have an order.  The doors that do not read   *)
(* epoch_current (a request that parks or starts a workflow, the resume    *)
(* behind a restart) have an order with a flip as well, and may come last. *)
(*                                                                         *)
(* A row of the epoch table is the image whose pair (manifest root,        *)
(* dispatch attestation) it carries.  updated_at is kept as the epoch that *)
(* was live, which is all that a comparison with an epoch's created_at     *)
(* tells.                                                                  *)
(***************************************************************************)
EXTENDS Naturals, FiniteSets

CONSTANTS
  Cont,      \* continuations
  Kernel,    \* kernel processes
  Image,     \* binaries
  Name, Body, None,
  EpochOf,   \* the epoch an image is built for
  Std,       \* the std entries of an image: a body, or None, for each name
  Genesis,   \* the image of epoch 1
  Writer,    \* the images whose machines can leave the tag in their frames
  MaxEpoch,  \* bound: the last epoch
  MaxKills   \* bound: kernels killed

ASSUME EpochAssumption ==
  /\ MaxEpoch \in Nat \ {0} /\ MaxKills \in Nat
  /\ None \notin Image \cup Body
  /\ Genesis \in Image /\ Writer \subseteq Image /\ EpochOf \in [Image -> Nat] /\ EpochOf[Genesis] = 1
  /\ Std \in [Image -> [Name -> Body \cup {None}]]

Epoch == 1..MaxEpoch

VARIABLES
  epochs,    \* table epoch
  live,      \* epoch_current
  pointers,  \* the std/ rows of name_pointer
  kernels,   \* each process: its phase, its image, the epoch it pinned
  status, stamp, touched,   \* continuation.status, .epoch, .updated_at
  tagged,    \* continuations whose frames hold the tag a migration may ban
  open,      \* continuations with an open condition
  holds,     \* epoch_hold: the bad epochs a continuation is held for
  direct,    \* restarts picked, to be resumed by the same kernel
  narrow,    \* history: epochs that ban the tag with binaries that do not write it
  reverted,  \* history: the epochs reverted from
  authors,   \* history: the epochs pinned by the kernels that wrote the frames
  strays,    \* history: written by a kernel whose own epoch was over
  misfits,   \* history: written by a kernel that was not the live epoch's binary
  kills      \* kernels killed so far

catalog == <<epochs, live, pointers, narrow, reverted>>
rows    == <<status, stamp, touched, tagged, open, holds>>
history == <<authors, strays, misfits>>
vars    == <<catalog, kernels, rows, direct, history, kills>>

Living == {c \in Cont : status[c] \in {"sleeping", "ready", "condition"}}

Serving(k) == kernels[k].phase \in {"up", "draining"}
Pin(k) == kernels[k].pin

---------------------------------------------------------------------------
(* A kernel: VerifyBoot, then pin the live epoch, then serve.              *)

\* The image's own epoch row, the attestation, and the std pointers as they are.
Verifies(i) ==
  /\ EpochOf[i] \in Epoch /\ epochs[EpochOf[i]] = i
  /\ pointers = Std[i]

Down == [phase |-> "down", image |-> None, pin |-> 0]

VerifyBoot(k, i) ==
  /\ kernels[k] = Down
  /\ Verifies(i)
  /\ kernels' = [kernels EXCEPT ![k] = [phase |-> "verified", image |-> i, pin |-> 0]]
  /\ UNCHANGED <<kills, catalog, rows, direct, history>>

PinEpoch(k) ==
  /\ kernels[k].phase = "verified"
  /\ kernels' = [kernels EXCEPT ![k].phase = "up", ![k].pin = live]
  /\ UNCHANGED <<kills, catalog, rows, direct, history>>

\* A process ends: an operator stops one that has drained, or it is killed. Nothing in
\* the process ends it: serve waits for a signal or for its listener to fail.
Exit(k) ==
  /\ \/ kernels[k].phase = "draining" /\ UNCHANGED kills
     \/ /\ kernels[k].phase \in {"verified", "up"} /\ kills < MaxKills
        /\ kills' = kills + 1
  /\ kernels' = [kernels EXCEPT ![k] = Down]
  /\ direct' = {d \in direct : d[1] # k}
  /\ UNCHANGED <<catalog, rows, history>>

---------------------------------------------------------------------------
(* Work.  Writes(k, c) is what every write of frames by kernel k does.     *)

Writes(k, c) ==
  /\ touched' = [touched EXCEPT ![c] = live]
  /\ authors' = [authors EXCEPT ![c] = @ \cup {Pin(k)}]
  /\ strays' = IF Pin(k) = live THEN strays ELSE strays \cup {c}
  /\ misfits' = IF kernels[k].image = epochs[live] THEN misfits ELSE misfits \cup {c}
  /\ \/ tagged' = tagged \ {c}
     \/ kernels[k].image \in Writer /\ tagged' = tagged \cup {c}

New(k, c, e) ==
  /\ status[c] = "none"
  /\ stamp' = [stamp EXCEPT ![c] = e]
  /\ Writes(k, c)
  /\ UNCHANGED holds

\* POST /workflow: no fence, but a drained kernel refuses.
StartWorkflow(k, c) ==
  /\ kernels[k].phase = "up"
  /\ New(k, c, Pin(k))
  /\ status' = [status EXCEPT ![c] = "ready"]
  /\ UNCHANGED <<kills, catalog, kernels, direct, open>>

\* A request that signals: no fence, no refusal, and always stamped 1.
Park(k, c) ==
  /\ Serving(k)
  /\ New(k, c, 1)
  /\ status' = [status EXCEPT ![c] = "condition"]
  /\ open' = open \cup {c}
  /\ UNCHANGED <<kills, catalog, kernels, direct>>

\* The child of a join, inserted by a fenced step.  The parent's row, written in the
\* same transaction, is left to Step: no property relates the two.
ParkChild(k, c) ==
  /\ kernels[k].phase = "up" /\ Pin(k) = live
  /\ New(k, c, Pin(k))
  /\ status' = [status EXCEPT ![c] = "ready"]
  /\ UNCHANGED <<kills, catalog, kernels, direct, open>>

\* How a step leaves the row.
Outcome(k, c) ==
  /\ Writes(k, c)
  /\ \E s \in {"sleeping", "condition", "done"} :
       /\ status' = [status EXCEPT ![c] = s]
       /\ open' = IF s = "condition" THEN open \cup {c} ELSE open
  /\ UNCHANGED <<stamp, holds>>

\* ClaimAndStep by the reactor: the fence, at both ends of the transaction.
Step(k, c) ==
  /\ kernels[k].phase = "up" /\ Pin(k) = live
  /\ status[c] = "ready"
  /\ Outcome(k, c)
  /\ UNCHANGED <<kills, catalog, kernels, direct>>

\* The fence trips: the kernel refuses new work and its loops stop. The event it prints
\* says drained_and_exited, but the process goes on serving.
TripIgnored(k, c) == FALSE   \* mutant: the error is taken for a transient one
Trip(k, c) ==
  /\ kernels[k].phase = "up" /\ Pin(k) # live
  /\ status[c] = "ready"
  /\ kernels' = [kernels EXCEPT ![k].phase = "draining"]
  /\ UNCHANGED <<kills, catalog, rows, direct, history>>

\* A timer, a message or an event wakes a sleeper, whatever kernel brings it.
Wake(k, c) ==
  /\ kernels[k].phase = "up"
  /\ status[c] = "sleeping"
  /\ status' = [status EXCEPT ![c] = "ready"]
  /\ touched' = [touched EXCEPT ![c] = live]
  /\ UNCHANGED <<kills, catalog, kernels, direct, history, stamp, tagged, open, holds>>

\* ResolveConditionFenced: PickRestart, then a step of its own with KernelEpoch 0.
PickRestart(k, c) ==
  /\ Serving(k)
  /\ c \in open
  /\ open' = open \ {c}
  /\ status' = [status EXCEPT ![c] = "ready"]
  /\ touched' = [touched EXCEPT ![c] = live]
  /\ direct' = direct \cup {<<k, c>>}
  /\ UNCHANGED <<kills, catalog, kernels, history, stamp, tagged, holds>>

ClaimAndResume(k, c) ==
  /\ <<k, c>> \in direct
  /\ status[c] = "ready"
  /\ direct' = direct \ {<<k, c>>}
  /\ Outcome(k, c)
  /\ UNCHANGED <<kills, catalog, kernels>>

---------------------------------------------------------------------------
(* Migrations, by an operator's process.                                   *)

\* The continuations that keep an epoch that bans the tag from landing.
BlockersAsleep == tagged \cap {c \in Cont : status[c] = "sleeping"}   \* mutant
Blockers == tagged \cap Living

AheadOrBehind(t) == t \in Epoch /\ epochs[t] = None   \* mutant
Ahead(t) == t \in Epoch /\ t > live /\ epochs[t] = None

Narrows(t, i, ban) ==
  narrow' = IF i \notin Writer /\ (ban \/ live \in narrow) THEN narrow \cup {t} ELSE narrow

Flip(t, i) == epochs' = [epochs EXCEPT ![t] = i] /\ live' = t

MigrateCommit(t, ban) ==
  /\ Ahead(t)
  /\ ban => Blockers = {}
  /\ Flip(t, epochs[live])
  /\ Narrows(t, epochs[live], ban)
  /\ UNCHANGED <<kills, pointers, reverted, kernels, rows, direct, history>>

\* The std delta is what has no pointer yet.
MigrateCommitImage(t, i, ban) ==
  /\ Ahead(t) /\ EpochOf[i] = t
  /\ ban => Blockers = {}
  /\ pointers' = [n \in Name |-> IF pointers[n] = None THEN Std[i][n] ELSE pointers[n]]
  /\ Flip(t, i)
  /\ Narrows(t, i, ban)
  /\ UNCHANGED <<kills, reverted, kernels, rows, direct, history>>

\* What depends on the bad epoch: stamped with it, or updated since it landed.
BlastStamped == {c \in Living : stamp[c] = live}   \* mutant: by the stamp alone
BlastRadius == {c \in Living : stamp[c] = live \/ touched[c] = live}

RevertEpoch(t, r) ==
  /\ Ahead(t)
  /\ r \in Epoch /\ epochs[r] # None
  /\ Flip(t, epochs[r])
  /\ Narrows(t, epochs[r], FALSE)
  /\ reverted' = reverted \cup {live}
  /\ holds' = [c \in Cont |-> IF c \in BlastRadius THEN holds[c] \cup {live} ELSE holds[c]]
  /\ status' = [c \in Cont |-> IF c \in BlastRadius THEN "condition" ELSE status[c]]
  /\ touched' = [c \in Cont |-> IF c \in BlastRadius THEN t ELSE touched[c]]
  /\ UNCHANGED <<kills, pointers, kernels, stamp, tagged, open, direct, history>>

---------------------------------------------------------------------------

Init ==
  /\ epochs = [e \in Epoch |-> IF e = 1 THEN Genesis ELSE None]
  /\ live = 1
  /\ pointers = Std[Genesis]
  /\ kernels = [k \in Kernel |-> Down]
  /\ status = [c \in Cont |-> "none"]
  /\ stamp = [c \in Cont |-> 1] /\ touched = [c \in Cont |-> 1]
  /\ tagged = {} /\ open = {} /\ direct = {} /\ narrow = {}
  /\ holds = [c \in Cont |-> {}]
  /\ reverted = {} /\ kills = 0
  /\ authors = [c \in Cont |-> {}] /\ strays = {} /\ misfits = {}

Drain(k) == \E c \in Cont : Step(k, c) \/ Trip(k, c)

Boot(k) == (\E i \in Image : VerifyBoot(k, i)) \/ PinEpoch(k)

Door(k) == \E c \in Cont : \/ StartWorkflow(k, c) \/ Park(k, c) \/ ParkChild(k, c)
                           \/ Wake(k, c) \/ PickRestart(k, c) \/ ClaimAndResume(k, c)

Migrate == \E t \in Epoch :
             \/ \E ban \in BOOLEAN :
                  \/ MigrateCommit(t, ban)
                  \/ \E i \in Image : MigrateCommitImage(t, i, ban)
             \/ \E r \in Epoch : RevertEpoch(t, r)

Next == \/ \E k \in Kernel : Boot(k) \/ Exit(k) \/ Drain(k) \/ Door(k)
        \/ Migrate

\* A process that is down is started, and the reactor of one that is up ticks. Requests,
\* operators and kills are not obliged to come, and so nobody need ever replace a kernel
\* that has drained.
Fairness ==
  \A k \in Kernel : WF_vars(Boot(k)) /\ WF_vars(Drain(k))

Spec == Init /\ [][Next]_vars
FairSpec == Spec /\ Fairness

---------------------------------------------------------------------------
Phase == {"down", "verified", "up", "draining"}

TypeOK ==
  /\ epochs \in [Epoch -> Image \cup {None}]
  /\ live \in Epoch /\ epochs[live] # None /\ \A e \in Epoch : e > live => epochs[e] = None
  /\ pointers \in [Name -> Body \cup {None}]
  /\ kernels \in [Kernel -> [phase : Phase, image : Image \cup {None}, pin : 0..live]]
  /\ \A k \in Kernel : /\ Serving(k) => Pin(k) > 0
                       /\ kernels[k].phase # "down" => kernels[k].image \in Image
  /\ status \in [Cont -> {"none", "ready", "sleeping", "condition", "done"}]
  /\ stamp \in [Cont -> Epoch] /\ touched \in [Cont -> 1..live]
  /\ tagged \subseteq Cont /\ open \subseteq Cont
  /\ holds \in [Cont -> SUBSET reverted]
  /\ direct \subseteq {k \in Kernel : Serving(k)} \X Cont
  /\ narrow \subseteq Epoch /\ reverted \subseteq 1..(live - 1)
  /\ kills \in 0..MaxKills
  /\ authors \in [Cont -> SUBSET (1..live)]
  /\ strays \subseteq Cont /\ misfits \subseteq Cont

(* "every dependent bound to the bad epoch is HELD FAIL-CLOSED": whatever  *)
(* has happened to a continuation since, a live one that a kernel of a     *)
(* reverted epoch wrote has a hold for that epoch, unless it is a stray.   *)
(* RevertEpoch never sees who wrote a row: it has the stamp of the birth   *)
(* and the last update to go by.                                           *)
BadWorkIsHeld ==
  \A c \in Living, b \in reverted : b \in authors[c] => b \in holds[c] \/ c \in strays

(* O4: once an epoch has banned the tag, no live continuation has it in    *)
(* its frames, unless a door without a fence or a kernel of another pair   *)
(* put it there.  The steps and the flip commit in any order.              *)
BannedIsGone ==
  live \in narrow => \A c \in tagged \cap Living : c \in strays \/ c \in misfits

(* Nothing boots: the std pointers are those of no image with an epoch     *)
(* row.  A revert gets there: it restores the prior pair of the epoch row  *)
(* and leaves the pointers.                                                *)
Bricked == ~\E i \in Image : Verifies(i)

(* Every kernel has drained, and stays: none of them exits for a           *)
(* supervisor to see.                                                      *)
AllDrained == \A k \in Kernel : kernels[k].phase = "draining"

(* "released work is re-offered and completes on an epoch-N kernel": a     *)
(* ready continuation is stepped or held in the end, whatever flips, kills *)
(* and boots come, unless nothing boots or the whole fleet has drained. A  *)
(* kernel of an epoch that is over never sits on the work in silence, and  *)
(* one kernel of the live epoch is enough. That AllDrained is left again   *)
(* ("exits nonzero within the drain deadline") is not the code's doing.    *)
ReadyUnlessDrained ==
  \A c \in Cont : status[c] = "ready" ~> status[c] # "ready" \/ Bricked \/ AllDrained
=============================================================================
