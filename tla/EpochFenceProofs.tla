------------------------- MODULE EpochFenceProofs -------------------------
(***************************************************************************)
(* Theorems about EpochFence for any number of continuations, kernels,     *)
(* images and epochs: its types, that RevertEpoch holds all the work of    *)
(* the bad epoch that the fence let through, and that a ban bans.          *)
(***************************************************************************)
EXTENDS EpochFence, TLAPS

(* Open conditions are on parked rows, so a restart revives nothing dead;  *)
(* a row nobody wrote has no author; and what a kernel of the live epoch   *)
(* wrote, without strays, was last updated in the live epoch, which is all *)
(* that the blast predicate of a revert can see.                           *)
OpenIsParked  == \A c \in open : status[c] = "condition"
NoneUnwritten == \A c \in Cont : status[c] = "none" => authors[c] = {}
LiveTouched   == \A c \in Cont \ strays : live \in authors[c] => touched[c] = live

Inv == TypeOK /\ OpenIsParked /\ NoneUnwritten /\ LiveTouched /\ BadWorkIsHeld

(* TypeOK by the tables it is about. *)
Process == [phase : Phase, image : Image \cup {None}, pin : 0..live]

CatalogType ==
  /\ epochs \in [Epoch -> Image \cup {None}]
  /\ live \in Epoch /\ epochs[live] # None /\ \A e \in Epoch : e > live => epochs[e] = None
  /\ pointers \in [Name -> Body \cup {None}]
  /\ narrow \subseteq Epoch /\ reverted \subseteq 1..(live - 1)

KernelType ==
  /\ kernels \in [Kernel -> Process]
  /\ \A k \in Kernel : /\ Serving(k) => Pin(k) > 0
                       /\ kernels[k].phase # "down" => kernels[k].image \in Image
  /\ direct \subseteq {k \in Kernel : Serving(k)} \X Cont
  /\ kills \in 0..MaxKills

RowType ==
  /\ status \in [Cont -> {"none", "ready", "sleeping", "condition", "done"}]
  /\ stamp \in [Cont -> Epoch] /\ touched \in [Cont -> 1..live]
  /\ tagged \subseteq Cont /\ open \subseteq Cont
  /\ holds \in [Cont -> SUBSET reverted]
  /\ authors \in [Cont -> SUBSET (1..live)]
  /\ strays \subseteq Cont /\ misfits \subseteq Cont

LEMMA TypeParts == TypeOK <=> CatalogType /\ KernelType /\ RowType
  BY DEF TypeOK, CatalogType, KernelType, RowType, Process

LEMMA InitInv == Init => Inv
  BY EpochAssumption DEF Init, Inv, TypeOK, OpenIsParked, NoneUnwritten, LiveTouched,
     BadWorkIsHeld, Down, Epoch, Living, Serving, Pin, Phase

---------------------------------------------------------------------------
(* Kernels come and go and the rows stay.                                  *)

\* What an update of one process keeps.
LEMMA OneProcess ==
  ASSUME KernelType, NEW k \in Kernel, NEW p \in Process,
         kernels' = [kernels EXCEPT ![k] = p], live' = live,
         p.phase \in {"up", "draining"} => p.pin > 0,
         p.phase # "down" => p.image \in Image,
         direct' \subseteq direct,
         \A d \in direct' : d[1] = k => p.phase \in {"up", "draining"},
         kills' \in 0..MaxKills
  PROVE  KernelType'
<1>1. kernels' \in [Kernel -> Process] /\ Process' = Process
  BY DEF KernelType, Process
<1>2. kernels'[k] = p /\ \A j \in Kernel \ {k} : kernels'[j] = kernels[j]
  BY DEF KernelType
<1>3. \A j \in Kernel : /\ Serving(j)' => Pin(j)' > 0
                        /\ kernels'[j].phase # "down" => kernels'[j].image \in Image
  BY <1>2 DEF KernelType, Serving, Pin
<1>4. \A j \in Kernel \ {k} : Serving(j) => Serving(j)'
  BY <1>2 DEF Serving
<1>5. ASSUME NEW d \in direct'  PROVE  d \in {j \in Kernel : Serving(j)'} \X Cont
  <2>1. d \in direct /\ d \in {j \in Kernel : Serving(j)} \X Cont
    BY DEF KernelType
  <2>2. CASE d[1] = k
    BY <2>1, <2>2, <1>2 DEF Serving
  <2>3. CASE d[1] # k
    BY <2>1, <2>3, <1>4
  <2> QED BY <2>2, <2>3
<1> QED BY <1>1, <1>3, <1>5 DEF KernelType

\* A new live epoch widens what a process may have pinned, and nothing else.
LEMMA KernelsKept ==
  ASSUME KernelType, live \in Nat, live' \in Nat, live' >= live,
         kernels' = kernels, kills' = kills,
         direct' \subseteq direct
  PROVE  KernelType'
<1>1. \A j \in Kernel : /\ kernels'[j] \in Process
                        /\ kernels'[j] = kernels[j]
                        /\ (Serving(j)' <=> Serving(j)) /\ Pin(j)' = Pin(j)
  BY DEF KernelType, Serving, Pin
<1>2. \A p \in Process : p \in Process'
  BY DEF Process
<1>3. kernels' \in [Kernel -> Process']
  BY <1>1, <1>2 DEF KernelType
<1>4. direct' \subseteq {j \in Kernel : Serving(j)'} \X Cont
  BY <1>1 DEF KernelType
<1> QED BY <1>1, <1>3, <1>4 DEF KernelType

LEMMA KernelKeeps ==
  ASSUME Inv,
         NEW k \in Kernel,
         \/ \E i \in Image : VerifyBoot(k, i)
         \/ PinEpoch(k) \/ Exit(k)
         \/ \E c \in Cont : Trip(k, c)
  PROVE  Inv'
<1>1. UNCHANGED <<catalog, rows, history>>
  BY DEF VerifyBoot, PinEpoch, Exit, Trip
<1>2. CatalogType /\ KernelType /\ RowType
  BY TypeParts DEF Inv
<1>3. live' = live /\ live \in Nat /\ live > 0
  BY <1>1, <1>2 DEF catalog, CatalogType, Epoch
<1>4. KernelType'
  <2> DEFINE p == kernels[k]
  <2>0. /\ p \in Process /\ p.phase \in Phase /\ p.image \in Image \cup {None} /\ p.pin \in 0..live
        /\ p.phase \in {"up", "draining"} => p.pin > 0
        /\ p.phase # "down" => p.image \in Image
        /\ kills \in 0..MaxKills
    BY <1>2 DEF KernelType, Process, Serving, Pin
  <2>1. ASSUME NEW i \in Image, VerifyBoot(k, i)  PROVE  KernelType'
    <3> DEFINE q == [phase |-> "verified", image |-> i, pin |-> 0]
    <3>1. q \in Process
      BY <1>3 DEF Process, Phase
    <3>2. /\ kernels' = [kernels EXCEPT ![k] = q] /\ direct' = direct /\ kills' = kills
          /\ \A d \in direct : d[1] # k
      BY <1>2, <2>1 DEF VerifyBoot, KernelType, Serving, Down
    <3> QED BY <3>1, <3>2, <2>0, <1>2, <1>3, OneProcess
  <2>2. CASE PinEpoch(k)
    <3> DEFINE q == [phase |-> "up", image |-> kernels[k].image, pin |-> live]
    <3>1. q \in Process /\ p.phase = "verified" /\ p.image \in Image
      BY <1>3, <2>0, <2>2 DEF Process, Phase, PinEpoch
    <3>2. direct' = direct /\ kills' = kills
      BY <2>2 DEF PinEpoch
    <3>3. kernels' = [kernels EXCEPT ![k] = q]
      <4>1. kernels' = [kernels EXCEPT ![k] = [[p EXCEPT !.phase = "up"] EXCEPT !.pin = live]]
        BY <2>2, <1>2 DEF PinEpoch, KernelType
      <4> DEFINE r == [phase |-> "up", image |-> kernels[k].image, pin |-> kernels[k].pin]
      <4>2. [p EXCEPT !.phase = "up"] = r
        BY <2>0 DEF Process
      <4>3. [r EXCEPT !.pin = live] = q
        OBVIOUS
      <4> QED BY <4>1, <4>2, <4>3
    <3> QED BY <3>1, <3>2, <3>3, <2>0, <1>2, <1>3, OneProcess
  <2>3. CASE Exit(k)
    <3>1. Down \in Process /\ Down.phase = "down"
      BY <1>3 DEF Process, Phase, Down
    <3>2. kernels' = [kernels EXCEPT ![k] = Down] /\ direct' = {d \in direct : d[1] # k}
      BY <2>3 DEF Exit
    <3>3. kills' \in 0..MaxKills
      BY <2>3, <2>0, EpochAssumption DEF Exit
    <3> QED BY <3>1, <3>2, <3>3, <1>2, <1>3, OneProcess
  <2>4. ASSUME NEW c \in Cont, Trip(k, c)  PROVE  KernelType'
    <3> DEFINE q == [phase |-> "draining", image |-> kernels[k].image, pin |-> kernels[k].pin]
    <3>1. q \in Process /\ p.phase = "up" /\ p.image \in Image /\ p.pin > 0
      BY <1>3, <2>0, <2>4 DEF Process, Phase, Trip
    <3>2. direct' = direct /\ kills' = kills
      BY <2>4 DEF Trip
    <3>3. kernels' = [kernels EXCEPT ![k] = q]
      <4>1. kernels' = [kernels EXCEPT ![k] = [p EXCEPT !.phase = "draining"]]
        BY <2>4, <1>2 DEF Trip, KernelType
      <4>2. [p EXCEPT !.phase = "draining"] = q
        BY <2>0 DEF Process
      <4> QED BY <4>1, <4>2
    <3> QED BY <3>1, <3>2, <3>3, <2>0, <1>2, <1>3, OneProcess
  <2> QED BY <2>1, <2>2, <2>3, <2>4
<1>5. TypeOK'
  BY <1>1, <1>2, <1>4, TypeParts DEF CatalogType, RowType, catalog, rows, history, Epoch, TypeOK,
     KernelType, Process
<1> QED
  BY <1>1, <1>5 DEF Inv, OpenIsParked, NoneUnwritten, LiveTouched, BadWorkIsHeld, Living,
     catalog, rows, history

---------------------------------------------------------------------------
(* Work: one continuation is written, or woken, and no epoch changes.      *)

\* A birth or a step: c was unborn or ready, and k is its last author.
LEMMA WrittenKeeps ==
  ASSUME Inv,
         NEW k \in Kernel, NEW c \in Cont, NEW s \in {"ready", "sleeping", "condition", "done"},
         Serving(k), Writes(k, c),
         status[c] \in {"none", "ready"},
         status' = [status EXCEPT ![c] = s],
         open' = IF s = "condition" THEN open \cup {c} ELSE open,
         stamp' \in [Cont -> Epoch],
         direct' \subseteq direct,
         UNCHANGED <<kills, catalog, kernels, holds>>
  PROVE  Inv'
<1>1. CatalogType /\ KernelType /\ RowType
  BY TypeParts DEF Inv
<1>2. live \in Nat /\ live > 0 /\ live' = live /\ reverted' = reverted
  BY <1>1 DEF CatalogType, Epoch, catalog
<1>3. Pin(k) \in 1..live
  BY <1>1, <1>2 DEF KernelType, Process, Serving, Pin
<1>4. /\ touched' = [touched EXCEPT ![c] = live]
      /\ authors' = [authors EXCEPT ![c] = authors[c] \cup {Pin(k)}]
      /\ strays' = IF Pin(k) = live THEN strays ELSE strays \cup {c}
      /\ misfits' \subseteq misfits \cup {c} /\ tagged' \subseteq tagged \cup {c}
  BY DEF Writes
<1>5. TypeOK'
  <2>1. CatalogType'
    BY <1>1 DEF CatalogType, catalog, Epoch
  <2>2. KernelType'
    BY <1>1, <1>2, KernelsKept
  <2>3. status' \in [Cont -> {"none", "ready", "sleeping", "condition", "done"}]
    BY <1>1 DEF RowType
  <2>4. touched' \in [Cont -> 1..live] /\ authors' \in [Cont -> SUBSET (1..live)]
    BY <1>1, <1>2, <1>3, <1>4 DEF RowType
  <2>5. strays' \subseteq Cont /\ misfits' \subseteq Cont /\ tagged' \subseteq Cont /\ open' \subseteq Cont
    BY <1>1, <1>4 DEF RowType
  <2>6. RowType'
    BY <1>1, <1>2, <2>3, <2>4, <2>5 DEF RowType, Epoch
  <2> QED BY <2>1, <2>2, <2>6, TypeParts DEF TypeOK, CatalogType, KernelType, RowType, Process
<1>6. OpenIsParked'
  BY <1>1 DEF Inv, OpenIsParked, RowType
<1>7. NoneUnwritten'
  BY <1>1, <1>4 DEF Inv, NoneUnwritten, RowType
<1>8. LiveTouched'
  BY <1>1, <1>2, <1>4 DEF Inv, LiveTouched, RowType
<1>9. BadWorkIsHeld'
  <2> SUFFICES ASSUME NEW d \in Living', NEW b \in reverted, b \in authors'[d], d \notin strays'
               PROVE  b \in holds[d]
    BY <1>2 DEF BadWorkIsHeld
  <2>1. d \notin strays /\ b # live /\ d \in Cont
    BY <1>1, <1>2, <1>4 DEF CatalogType, Living
  <2>2. CASE d # c
    BY <1>1, <1>4, <2>1, <2>2 DEF Inv, BadWorkIsHeld, RowType, Living
  <2>3. CASE d = c
    <3>1. Pin(k) = live
      BY <1>4, <2>1, <2>3
    <3>2. b \in authors[c]
      BY <1>1, <1>4, <2>1, <2>3, <3>1 DEF RowType
    <3>3. status[c] = "ready"
      BY <3>2 DEF Inv, NoneUnwritten
    <3> QED BY <2>1, <2>3, <3>2, <3>3 DEF Inv, BadWorkIsHeld, Living
  <2> QED BY <2>2, <2>3
<1> QED BY <1>5, <1>6, <1>7, <1>8, <1>9 DEF Inv

\* A sleeper is woken or a parked one restarted: it is ready, and its open condition is gone.
LEMMA WokenKeeps ==
  ASSUME Inv,
         NEW k \in Kernel, NEW c \in Cont,
         Serving(k), status[c] \in {"sleeping", "condition"},
         status' = [status EXCEPT ![c] = "ready"],
         touched' = [touched EXCEPT ![c] = live],
         open' = open \ {c},
         direct' \subseteq direct \cup {<<k, c>>},
         UNCHANGED <<kills, catalog, kernels, history, stamp, tagged, holds>>
  PROVE  Inv'
<1>1. CatalogType /\ KernelType /\ RowType
  BY TypeParts DEF Inv
<1>2. /\ live \in Nat /\ live > 0 /\ live' = live /\ reverted' = reverted
      /\ authors' = authors /\ strays' = strays
  BY <1>1 DEF CatalogType, Epoch, catalog, history
<1>3. TypeOK'
  <2>1. CatalogType'
    BY <1>1 DEF CatalogType, catalog, Epoch
  <2>2. KernelType'
    <3>1. /\ kernels' \in [Kernel -> Process] /\ Process' = Process
          /\ \A j \in Kernel : (Serving(j)' <=> Serving(j)) /\ Pin(j)' = Pin(j)
      BY <1>1, <1>2 DEF KernelType, Process, Serving, Pin
    <3>2. direct' \subseteq {j \in Kernel : Serving(j)'} \X Cont
      BY <1>1, <3>1 DEF KernelType
    <3> QED BY <1>1, <3>1, <3>2 DEF KernelType
  <2>3. status' \in [Cont -> {"none", "ready", "sleeping", "condition", "done"}]
    BY <1>1 DEF RowType
  <2>4. touched' \in [Cont -> 1..live]
    BY <1>1, <1>2 DEF RowType
  <2>5. RowType'
    BY <1>1, <1>2, <2>3, <2>4 DEF RowType, Epoch, history
  <2> QED BY <2>1, <2>2, <2>5, TypeParts DEF TypeOK, CatalogType, KernelType, RowType, Process
<1>4. Living' = Living
  BY <1>1 DEF Living, RowType
<1>5. OpenIsParked'
  BY <1>1 DEF Inv, OpenIsParked, RowType
<1>6. NoneUnwritten'
  BY <1>1, <1>2 DEF Inv, NoneUnwritten, RowType
<1>7. LiveTouched'
  BY <1>1, <1>2 DEF Inv, LiveTouched, RowType
<1>8. BadWorkIsHeld'
  BY <1>2, <1>4 DEF Inv, BadWorkIsHeld
<1> QED BY <1>3, <1>5, <1>6, <1>7, <1>8 DEF Inv

LEMMA DoorKeeps ==
  ASSUME Inv, NEW k \in Kernel, NEW c \in Cont,
         \/ StartWorkflow(k, c) \/ Park(k, c) \/ ParkChild(k, c)
         \/ Step(k, c) \/ ClaimAndResume(k, c)
         \/ Wake(k, c) \/ PickRestart(k, c)
  PROVE  Inv'
<1>1. CatalogType /\ KernelType /\ RowType
  BY TypeParts DEF Inv
<1>2. 1 \in Epoch /\ stamp \in [Cont -> Epoch]
  BY <1>1, EpochAssumption DEF Epoch, RowType
<1>3. Serving(k) => Pin(k) \in Epoch
  BY <1>1, EpochAssumption DEF KernelType, Process, CatalogType, Serving, Pin, Epoch
<1>4. CASE StartWorkflow(k, c) \/ ParkChild(k, c)
  <2>1. /\ Serving(k) /\ Writes(k, c) /\ status[c] = "none"
        /\ stamp' = [stamp EXCEPT ![c] = Pin(k)]
        /\ status' = [status EXCEPT ![c] = "ready"] /\ open' = open /\ direct' = direct
        /\ UNCHANGED <<kills, catalog, kernels, holds>>
    BY <1>4 DEF StartWorkflow, ParkChild, New, Serving
  <2>2. stamp' \in [Cont -> Epoch]
    BY <1>2, <1>3, <2>1
  <2> QED BY <2>1, <2>2, WrittenKeeps
<1>5. CASE Park(k, c)
  <2>1. /\ Serving(k) /\ Writes(k, c) /\ status[c] = "none"
        /\ stamp' = [stamp EXCEPT ![c] = 1]
        /\ status' = [status EXCEPT ![c] = "condition"] /\ open' = open \cup {c} /\ direct' = direct
        /\ UNCHANGED <<kills, catalog, kernels, holds>>
    BY <1>5 DEF Park, New
  <2>2. stamp' \in [Cont -> Epoch]
    BY <1>2, <2>1
  <2> QED BY <2>1, <2>2, WrittenKeeps
<1>6. CASE Step(k, c) \/ ClaimAndResume(k, c)
  <2>1. /\ Serving(k) /\ Outcome(k, c) /\ status[c] = "ready" /\ direct' \subseteq direct
        /\ UNCHANGED <<kills, catalog, kernels>>
    BY <1>1, <1>6 DEF Step, ClaimAndResume, Serving, KernelType
  <2>2. PICK s \in {"sleeping", "condition", "done"} :
          /\ status' = [status EXCEPT ![c] = s]
          /\ open' = IF s = "condition" THEN open \cup {c} ELSE open
    BY <2>1 DEF Outcome
  <2>3. Writes(k, c) /\ stamp' = stamp /\ holds' = holds
    BY <2>1 DEF Outcome
  <2> QED BY <1>2, <2>1, <2>2, <2>3, WrittenKeeps
<1>7. CASE Wake(k, c)
  <2>1. c \notin open
    BY <1>7 DEF Wake, Inv, OpenIsParked
  <2> QED BY <1>7, <2>1, WokenKeeps DEF Wake, Serving
<1>8. CASE PickRestart(k, c)
  <2>1. status[c] = "condition"
    BY <1>8 DEF PickRestart, Inv, OpenIsParked
  <2> QED BY <1>8, <2>1, WokenKeeps DEF PickRestart
<1> QED BY <1>4, <1>5, <1>6, <1>7, <1>8

---------------------------------------------------------------------------
(* An epoch commits.                                                       *)

\* A flip, forward to t, with the image i: what every one of the three does to the catalog.
LEMMA FlipCatalog ==
  ASSUME CatalogType, NEW t \in Epoch, NEW i \in Image, NEW ban \in BOOLEAN,
         Ahead(t), Flip(t, i), Narrows(t, i, ban),
         pointers' \in [Name -> Body \cup {None}],
         reverted' \subseteq reverted \cup {live}
  PROVE  CatalogType' /\ live' = t /\ t > live /\ live \in Nat /\ t \in Nat
<1>1. live' = t /\ t > live /\ live \in Nat /\ t \in Nat /\ live > 0
  BY DEF Ahead, Flip, CatalogType, Epoch
<1>2. epochs' = [epochs EXCEPT ![t] = i] /\ i # None
  BY EpochAssumption DEF Flip
<1>3. epochs' \in [Epoch -> Image \cup {None}]
  BY <1>2 DEF CatalogType
<1>4. epochs'[t] = i /\ \A e \in Epoch : e > t => epochs'[e] = None
  BY <1>1, <1>2 DEF CatalogType, Epoch
<1>5. narrow' \subseteq Epoch
  BY DEF Narrows, CatalogType
<1>6. reverted' \subseteq 1..(t - 1)
  BY <1>1 DEF CatalogType
<1> QED BY <1>1, <1>2, <1>3, <1>4, <1>5, <1>6 DEF CatalogType

LEMMA LiveImage == CatalogType => epochs[live] \in Image
  BY DEF CatalogType

\* MigrateCommit and MigrateCommitImage leave every row as it is.
LEMMA CommitKeeps ==
  ASSUME Inv, NEW t \in Epoch, NEW ban \in BOOLEAN,
         MigrateCommit(t, ban) \/ \E i \in Image : MigrateCommitImage(t, i, ban)
  PROVE  Inv'
<1>1. CatalogType /\ KernelType /\ RowType
  BY TypeParts DEF Inv
<1>2. UNCHANGED <<kills, reverted, kernels, rows, direct, history>>
  BY DEF MigrateCommit, MigrateCommitImage
<1>3. PICK i \in Image : /\ Ahead(t) /\ Flip(t, i) /\ Narrows(t, i, ban)
                        /\ pointers' \in [Name -> Body \cup {None}]
  <2>1. CASE MigrateCommit(t, ban)
    BY <1>1, <2>1, LiveImage DEF MigrateCommit, CatalogType
  <2>2. ASSUME NEW i \in Image, MigrateCommitImage(t, i, ban)  PROVE  pointers' \in [Name -> Body \cup {None}]
    <3>1. Std[i] \in [Name -> Body \cup {None}]
      BY EpochAssumption
    <3> QED BY <1>1, <2>2, <3>1 DEF MigrateCommitImage, CatalogType
  <2>3. CASE \E i \in Image : MigrateCommitImage(t, i, ban)
    BY <2>2, <2>3 DEF MigrateCommitImage
  <2> QED BY <2>1, <2>3
<1>4. CatalogType' /\ live' = t /\ t > live /\ live \in Nat /\ t \in Nat
  BY <1>1, <1>2, <1>3, FlipCatalog
<1>5. KernelType'
  BY <1>1, <1>2, <1>4, KernelsKept
<1>6. RowType'
  BY <1>1, <1>2, <1>4 DEF RowType, rows, history
<1>7. TypeOK'
  BY <1>4, <1>5, <1>6, TypeParts DEF TypeOK, CatalogType, KernelType, RowType, Process
<1>8. LiveTouched'
  BY <1>1, <1>2, <1>4 DEF LiveTouched, RowType, rows, history
<1> QED
  BY <1>2, <1>7, <1>8 DEF Inv, OpenIsParked, NoneUnwritten, BadWorkIsHeld, Living, rows, history

\* A revert adds the live epoch to those reverted, and holds its blast radius.
LEMMA RevertKeeps ==
  ASSUME Inv, NEW t \in Epoch, NEW r \in Epoch, RevertEpoch(t, r)
  PROVE  Inv'
<1>1. CatalogType /\ KernelType /\ RowType
  BY TypeParts DEF Inv
<1>2. /\ UNCHANGED <<kills, pointers, kernels, stamp, tagged, open, direct, authors, strays, misfits>>
      /\ reverted' = reverted \cup {live}
      /\ BlastRadius \subseteq Living
  BY DEF RevertEpoch, history, BlastRadius
<1>3. epochs[r] \in Image /\ Ahead(t) /\ Flip(t, epochs[r]) /\ Narrows(t, epochs[r], FALSE)
  BY <1>1 DEF RevertEpoch, CatalogType
<1>4. CatalogType' /\ live' = t /\ t > live /\ live \in Nat /\ t \in Nat
  BY <1>1, <1>2, <1>3, FlipCatalog DEF CatalogType
<1>5. KernelType'
  BY <1>1, <1>2, <1>4, KernelsKept
<1>6. \A c \in Cont :
        /\ holds'[c] = IF c \in BlastRadius THEN holds[c] \cup {live} ELSE holds[c]
        /\ status'[c] = IF c \in BlastRadius THEN "condition" ELSE status[c]
        /\ touched'[c] = IF c \in BlastRadius THEN t ELSE touched[c]
  BY DEF RevertEpoch
<1>7. RowType'
  <2>1. status' \in [Cont -> {"none", "ready", "sleeping", "condition", "done"}]
    BY <1>1 DEF RevertEpoch, RowType
  <2>2. touched' \in [Cont -> 1..t]
    BY <1>1, <1>4 DEF RevertEpoch, RowType
  <2>3. holds' \in [Cont -> SUBSET reverted']
    BY <1>1, <1>2 DEF RevertEpoch, RowType
  <2>4. authors' \in [Cont -> SUBSET (1..t)]
    BY <1>1, <1>2, <1>4 DEF RowType
  <2> QED BY <1>1, <1>2, <1>4, <2>1, <2>2, <2>3, <2>4 DEF RowType, Epoch
<1>8. TypeOK'
  BY <1>4, <1>5, <1>7, TypeParts DEF TypeOK, CatalogType, KernelType, RowType, Process
<1>9. Living' = Living
  BY <1>2, <1>6 DEF Living
<1>10. OpenIsParked'
  BY <1>1, <1>2, <1>6 DEF Inv, OpenIsParked, RowType
<1>11. NoneUnwritten'
  BY <1>2, <1>6 DEF Inv, NoneUnwritten
<1>12. LiveTouched'
  BY <1>1, <1>2, <1>4 DEF LiveTouched, RowType
<1>13. BadWorkIsHeld'
  <2> SUFFICES ASSUME NEW c \in Living, NEW b \in reverted \cup {live}, b \in authors[c], c \notin strays
               PROVE  b \in holds'[c]
    BY <1>2, <1>9 DEF BadWorkIsHeld
  <2>1. CASE b = live
    <3>1. c \in BlastRadius
      BY <2>1 DEF Inv, LiveTouched, BlastRadius, Living
    <3> QED BY <1>6, <2>1, <3>1 DEF Living
  <2>2. CASE b \in reverted
    <3>1. b \in holds[c]
      BY <2>2 DEF Inv, BadWorkIsHeld
    <3> QED BY <1>6, <3>1 DEF Living
  <2> QED BY <2>1, <2>2
<1> QED BY <1>8, <1>10, <1>11, <1>12, <1>13 DEF Inv

---------------------------------------------------------------------------

LEMMA NextInv == Inv /\ [Next]_vars => Inv'
<1> SUFFICES ASSUME Inv, [Next]_vars PROVE Inv'
  OBVIOUS
<1>1. CASE UNCHANGED vars
  BY <1>1 DEF vars, catalog, rows, history, Inv, TypeOK, OpenIsParked, NoneUnwritten, LiveTouched,
     BadWorkIsHeld, Living, Serving, Pin
<1>2. ASSUME NEW k \in Kernel, Boot(k) \/ Exit(k) \/ Drain(k) \/ Door(k)  PROVE  Inv'
  BY <1>2, KernelKeeps, DoorKeeps DEF Boot, Drain, Door
<1>3. CASE Migrate
  BY <1>3, CommitKeeps, RevertKeeps DEF Migrate
<1> QED BY <1>1, <1>2, <1>3 DEF Next

LEMMA SpecInv == Spec => []Inv
  BY InitInv, NextInv, PTL DEF Spec

(* The tables keep their types: in particular an epoch once live is never   *)
(* reached again, a continuation is held for reverted epochs only, and a    *)
(* restart is resumed by a kernel that serves.                              *)
THEOREM EpochTypes == Spec => []TypeOK
<1>1. Inv => TypeOK
  BY DEF Inv
<1> QED BY <1>1, SpecInv, PTL

(* RevertEpoch's blast predicate, the stamp or the last update, reaches all *)
(* live work of the bad epoch but what a kernel of an earlier epoch wrote.  *)
THEOREM RevertsHold == Spec => []BadWorkIsHeld
<1>1. Inv => BadWorkIsHeld
  BY DEF Inv
<1> QED BY <1>1, SpecInv, PTL

---------------------------------------------------------------------------
(* The ban.  An epoch is in narrow only with a binary that does not write  *)
(* the tag, so a tag that comes back is the work of another binary.        *)

NarrowImages == \A e \in narrow : epochs[e] # None /\ epochs[e] \notin Writer

BanInv == NarrowImages /\ BannedIsGone

LEMMA BanInit == Init => BanInv
  BY DEF Init, BanInv, NarrowImages, BannedIsGone

\* Nothing tagged comes to life, and the catalog stays.
LEMMA BanKept ==
  ASSUME BanInv, UNCHANGED <<catalog, tagged, strays, misfits>>,
         tagged \cap Living' \subseteq Living
  PROVE  BanInv'
  BY DEF BanInv, NarrowImages, BannedIsGone, catalog

LEMMA BanWritten ==
  ASSUME Inv, BanInv, NEW k \in Kernel, NEW c \in Cont, Writes(k, c), UNCHANGED catalog,
         \A d \in Cont : d # c => status'[d] = status[d]
  PROVE  BanInv'
<1>1. narrow' = narrow /\ live' = live /\ epochs' = epochs
  BY DEF catalog
<1>2. \A d \in Cont : d # c => (d \in Living' <=> d \in Living)
  BY DEF Living
<1>3. strays \subseteq strays' /\ misfits \subseteq misfits'
  BY DEF Writes
<1>4. \A d \in tagged' : d # c => d \in tagged
  BY DEF Writes
<1>5. BannedIsGone'
  <2> SUFFICES ASSUME live \in narrow, NEW d \in tagged', d \in Living'
               PROVE  d \in strays' \/ d \in misfits'
    BY <1>1 DEF BannedIsGone
  <2>1. CASE d # c
    BY <1>2, <1>3, <1>4, <2>1 DEF BanInv, BannedIsGone, Living
  <2>2. CASE d = c
    <3>1. kernels[k].image \in Writer
      BY <2>2 DEF Writes
    <3>2. kernels[k].image # epochs[live]
      BY <3>1 DEF BanInv, NarrowImages
    <3> QED
      BY <2>2, <3>2 DEF Writes
  <2> QED
    BY <2>1, <2>2
<1> QED
  BY <1>1, <1>5 DEF BanInv, NarrowImages

LEMMA BanDoor ==
  ASSUME Inv, BanInv, NEW k \in Kernel, Boot(k) \/ Exit(k) \/ Drain(k) \/ Door(k)
  PROVE  BanInv'
<1>1. status \in [Cont -> {"none", "ready", "sleeping", "condition", "done"}]
  BY DEF Inv, TypeOK
<1>2. CASE Boot(k) \/ Exit(k) \/ \E c \in Cont : Trip(k, c)
  <2>1. UNCHANGED <<catalog, rows, history>>
    BY <1>2 DEF Boot, VerifyBoot, PinEpoch, Exit, Trip
  <2> QED
    BY <2>1, BanKept DEF rows, history, Living
<1>3. ASSUME NEW c \in Cont,
             StartWorkflow(k, c) \/ Park(k, c) \/ ParkChild(k, c) \/ Step(k, c) \/ ClaimAndResume(k, c)
      PROVE  BanInv'
  <2>1. Writes(k, c) /\ UNCHANGED catalog
    BY <1>3 DEF StartWorkflow, Park, ParkChild, Step, ClaimAndResume, New, Outcome
  <2>2. \A d \in Cont : d # c => status'[d] = status[d]
    <3>1. CASE StartWorkflow(k, c) \/ Park(k, c) \/ ParkChild(k, c)
      BY <1>1, <3>1 DEF StartWorkflow, Park, ParkChild
    <3>2. CASE Step(k, c) \/ ClaimAndResume(k, c)
      BY <1>1, <3>2 DEF Step, ClaimAndResume, Outcome
    <3> QED
      BY <1>3, <3>1, <3>2
  <2> QED
    BY <2>1, <2>2, BanWritten
<1>4. ASSUME NEW c \in Cont, Wake(k, c) \/ PickRestart(k, c) PROVE BanInv'
  <2>1. /\ UNCHANGED <<catalog, tagged, strays, misfits>>
        /\ status' = [status EXCEPT ![c] = "ready"]
    BY <1>4 DEF Wake, PickRestart, history
  <2>2. status[c] \in {"sleeping", "condition"}
    BY <1>4 DEF Wake, PickRestart, Inv, OpenIsParked
  <2>3. Living' \subseteq Living
    BY <1>1, <2>1, <2>2 DEF Living
  <2> QED
    BY <2>1, <2>3, BanKept
<1> QED
  BY <1>2, <1>3, <1>4 DEF Drain, Door

\* An epoch that bans the tag lands when no live continuation has it, or after one that
\* banned it already.
LEMMA BanFlip ==
  ASSUME Inv, BanInv, NEW t \in Epoch, NEW i \in Image, NEW ban \in BOOLEAN,
         Ahead(t), Flip(t, i), Narrows(t, i, ban), ban => Blockers = {},
         UNCHANGED <<tagged, strays, misfits>>, Living' = Living
  PROVE  BanInv'
<1>1. live' = t /\ epochs' = [epochs EXCEPT ![t] = i] /\ epochs[t] = None
  BY DEF Ahead, Flip
<1>2. epochs \in [Epoch -> Image \cup {None}] /\ narrow \subseteq Epoch /\ i # None
  BY EpochAssumption DEF Inv, TypeOK
<1>3. t \notin narrow
  BY <1>1 DEF BanInv, NarrowImages
<1>4. NarrowImages'
  BY <1>1, <1>2, <1>3 DEF BanInv, NarrowImages, Narrows
<1>5. BannedIsGone'
  <2> SUFFICES ASSUME t \in narrow', NEW c \in tagged \cap Living PROVE c \in strays \/ c \in misfits
    BY <1>1 DEF BannedIsGone
  <2>1. ban \/ live \in narrow
    BY <1>3 DEF Narrows
  <2>2. ~ban
    BY DEF Blockers
  <2> QED
    BY <2>1, <2>2 DEF BanInv, BannedIsGone
<1> QED
  BY <1>4, <1>5 DEF BanInv

LEMMA BanMigrate == ASSUME Inv, BanInv, Migrate PROVE BanInv'
<1>1. CatalogType /\ epochs[live] \in Image
  BY TypeParts, LiveImage DEF Inv
<1>2. ASSUME NEW t \in Epoch, NEW ban \in BOOLEAN, MigrateCommit(t, ban) PROVE BanInv'
  <2>1. UNCHANGED <<tagged, strays, misfits>> /\ Living' = Living
    BY <1>2 DEF MigrateCommit, rows, history, Living
  <2> QED
    BY <1>1, <1>2, <2>1, BanFlip DEF MigrateCommit
<1>3. ASSUME NEW t \in Epoch, NEW ban \in BOOLEAN, NEW i \in Image, MigrateCommitImage(t, i, ban)
      PROVE  BanInv'
  <2>1. UNCHANGED <<tagged, strays, misfits>> /\ Living' = Living
    BY <1>3 DEF MigrateCommitImage, rows, history, Living
  <2> QED
    BY <1>3, <2>1, BanFlip DEF MigrateCommitImage
<1>4. ASSUME NEW t \in Epoch, NEW r \in Epoch, RevertEpoch(t, r) PROVE BanInv'
  <2>1. UNCHANGED <<tagged, strays, misfits>> /\ BlastRadius \subseteq Living
    BY <1>4 DEF RevertEpoch, history, BlastRadius
  <2>2. \A c \in Cont : status'[c] = IF c \in BlastRadius THEN "condition" ELSE status[c]
    BY <1>4 DEF RevertEpoch
  <2>3. Living' = Living
    BY <2>1, <2>2 DEF Living
  <2>4. epochs[r] \in Image /\ Ahead(t) /\ Flip(t, epochs[r]) /\ Narrows(t, epochs[r], FALSE)
    BY <1>1, <1>4 DEF RevertEpoch, CatalogType
  <2> QED
    BY <2>1, <2>3, <2>4, BanFlip
<1> QED
  BY <1>2, <1>3, <1>4 DEF Migrate

(* O4: in an epoch that bans the tag no live continuation has it, unless a  *)
(* kernel of another epoch or of another binary wrote it.                   *)
THEOREM BansHold == Spec => []BannedIsGone
<1>1. Inv /\ BanInv /\ [Next]_vars => BanInv'
  <2> SUFFICES ASSUME Inv, BanInv, [Next]_vars PROVE BanInv'
    OBVIOUS
  <2>1. CASE UNCHANGED vars
    BY <2>1, BanKept DEF vars, rows, history, Living
  <2> QED
    BY <2>1, BanDoor, BanMigrate DEF Next
<1>2. Init => BanInv
  BY BanInit
<1>3. BanInv => BannedIsGone
  BY DEF BanInv
<1> QED
  BY <1>1, <1>2, <1>3, SpecInv, PTL DEF Spec
=============================================================================
