---------------------------- MODULE AdmissionGate ----------------------------
(***************************************************************************)
(* The admission gate of internal/admission: the fuel bucket and the       *)
(* semaphore before BEGIN (backpressure.go), the SERIALIZABLE transaction  *)
(* and its retries (pipeline.go), one-shot approvals (agentplane.go), the  *)
(* refusal ledger, and the name pointers with their history (catalog).     *)
(*                                                                         *)
(* An attempt reads only the snapshot it began with, and nothing it writes *)
(* is seen before COMMIT, so it is one action that ends it.                *)
(* It can commit its moves if no row it read at its own scope and no row   *)
(* it writes changed since; PostgreSQL may fail it whenever anything was   *)
(* committed since (predicate locks on the history index are coarse).      *)
(*                                                                         *)
(* A content address is the record of what is hashed: source and the       *)
(* addresses of the imports.  Modules of a patch come in dependency order. *)
(***************************************************************************)
EXTENDS Naturals, Sequences, FiniteSets, Functions

CONSTANTS
  Client,     \* callers of the door, each one request at a time
  Principal,  \* maps a client to its principal
  Agents,     \* the principals of kind agent
  Metered,    \* the principals whose kind has a capacity row
  Name, Source,
  Imports,    \* the names a source of a name imports
  Flawed,     \* sources that typecheck or verify to a refusal
  Patch,      \* the patches a client submits: scope, modules, commit or dry run
  Token,      \* approval tokens that may be minted
  Capacity,   \* of a principal's fuel bucket
  Slots,      \* AdmissionConcurrency
  MaxRetries, \* attempts of one admission
  MaxSubmits, \* bound: submissions
  MaxRefills, \* bound: units of fuel refilled per principal
  MaxFaults,  \* bound: internal errors and lost answers
  None

Scope == {"product", "overlay", "foreign"}
Slot  == Scope \X Name

ASSUME GateAssumption ==
  /\ Principal \in [Client -> Agents \cup Metered \cup {"human"}]
  /\ Imports \in [Name -> SUBSET Name]
  /\ \A n \in Name : \A m \in Imports[n] : Imports[m] = {}
  /\ \A c \in Client : \A p \in Patch[c] :
       /\ p.scope \in Scope /\ p.commit \in BOOLEAN
       /\ DOMAIN p.mods \subseteq Name /\ DOMAIN p.mods # {}
       /\ \A n \in DOMAIN p.mods : p.mods[n] \in Source
  /\ {Capacity, Slots, MaxRetries, MaxSubmits} \subseteq Nat \ {0}
  /\ {MaxRefills, MaxFaults} \subseteq Nat
  /\ IsFiniteSet(Client) /\ None \notin Nat

VARIABLES
  heads,       \* name_pointer: the address a slot names, or None
  history,     \* name_pointer_history: the windows of each slot, oldest first
  definitions, \* definition: the addresses stored
  admissions,  \* admission: the committed rows
  approvals,   \* approval_token: a function on the tokens minted
  refusals,    \* gate_refusal
  fuel,        \* admission_fuel.tokens
  permits,     \* permits of admissionSem that are taken
  pc, req,     \* where each client's request is, and what it carries
  snap,        \* the snapshot of its transaction
  verdict,     \* how the request ends: outcome and last stage
  count,       \* submissions so far
  refills,     \* units refilled so far
  begun,       \* history: pipelines begun for a principal
  faults       \* faults so far

catalog == <<heads, history, definitions, admissions>>
books   == <<refusals, fuel, refills>>
request == <<req, snap, verdict>>
vars == <<catalog, approvals, books, permits, pc, request, count, begun, faults>>

----------------------------------------------------------------------------
(* The pure part of the pipeline *)

Leaf(n, src) == [name |-> n, src |-> src, deps |-> <<>>]

\* The address of a module of a patch: an import is another module of the patch or
\* what product scope names in the view.
Address(n, mods, view) ==
    IF Imports[n] = {} THEN Leaf(n, mods[n])
    ELSE [name |-> n, src |-> mods[n],
          deps |-> [m \in Imports[n] |-> IF m \in DOMAIN mods THEN Leaf(m, mods[m])
                                         ELSE view[<<"product", m>>]]]

Lowered(p, view) ==
    [s \in {<<p.scope, n>> : n \in DOMAIN p.mods} |-> Address(s[2], p.mods, view)]

Hashes(new) == {new[s] : s \in DOMAIN new}

Resolves(p, view) ==
    \A n \in DOMAIN p.mods : \A m \in Imports[n] :
        m \in DOMAIN p.mods \/ view[<<"product", m>>] # None

\* mutant: the addresses an approval is bound to are not compared again.
ValidUnbound(t, q, new, granted) ==
    t \in DOMAIN granted /\ ~granted[t].expired /\ granted[t].by = None /\ granted[t].for = q

\* An approval that is live, for this principal, and of exactly these addresses.
Valid(t, q, new, granted) ==
    /\ t \in DOMAIN granted
    /\ ~granted[t].expired /\ granted[t].by = None
    /\ granted[t].for = q /\ granted[t].bound = Hashes(new)

NeedsToken(c, p) == Principal[c] \in Agents /\ p.scope = "product"

InPolicy(c, new) ==
    LET p == req[c].patch IN
    \/ Principal[c] \notin Agents \/ p.scope = "overlay"
    \/ NeedsToken(c, p) /\ Valid(req[c].token, Principal[c], new, snap[c].approvals)

\* The gates of one attempt in the order of the code: the outcome and the last stage.
Verdict(c) ==
    LET p == req[c].patch  view == snap[c].heads  new == Lowered(p, view) IN
    IF ~Resolves(p, view) THEN <<"rejected", "lower">>
    ELSE IF ~InPolicy(c, new) THEN <<"rejected", "scope-policy">>
    ELSE IF \A s \in DOMAIN new : view[s] = new[s] THEN <<"already-admitted", "already-admitted">>
    ELSE IF \E n \in DOMAIN p.mods : p.mods[n] \in Flawed THEN <<"rejected", "tsgo">>
    ELSE IF \E s \in DOMAIN new : view[s] # req[c].base[s] THEN <<"stale-base", "cas">>
    ELSE <<"admitted", "approval">>

\* mutant: a refusal before the typecheck is free.
StageCostFree(s) == CASE s = "lower" -> 0 [] s = "tsgo" -> 3 [] OTHER -> 5

StageCost(s) == CASE s = "lower" -> 1 [] s = "tsgo" -> 3 [] OTHER -> 5

----------------------------------------------------------------------------
(* Before BEGIN *)

\* A client sends a patch over the heads it has seen; fuelCheck looks at the bucket.
Submit(c) ==
    /\ pc[c] = "idle" /\ SumFunction(count) < MaxSubmits
    /\ \E p \in Patch[c], t \in DOMAIN approvals \cup {None} :
         /\ t # None => NeedsToken(c, p)
         /\ req' = [req EXCEPT ![c] = [patch |-> p, base |-> heads, token |-> t, tries |-> 0]]
    /\ count' = [count EXCEPT ![c] = @ + 1]
    /\ IF Principal[c] \in Metered /\ fuel[Principal[c]] < 1
       THEN /\ pc' = [pc EXCEPT ![c] = "refuse"]
            /\ verdict' = [verdict EXCEPT ![c] = <<"budget-exhausted", "none">>]
       ELSE /\ pc' = [pc EXCEPT ![c] = "gate"]
            /\ UNCHANGED verdict
    /\ UNCHANGED <<catalog, approvals, books, permits, snap, begun, faults>>

\* BEGIN SERIALIZABLE and the first statement of an attempt.
Begin(c) == snap' = [snap EXCEPT ![c] = [heads |-> heads, definitions |-> definitions,
                                         approvals |-> approvals, at |-> Len(admissions)]]

\* tryAcquire takes a permit, and the first attempt begins, or sheds the request.
EnterGate(c) ==
    /\ pc[c] = "gate"
    /\ IF permits < Slots
       THEN /\ permits' = permits + 1
            /\ Begin(c)
            /\ pc' = [pc EXCEPT ![c] = "txn"]
            /\ begun' = [begun EXCEPT ![Principal[c]] = @ + 1]
            /\ UNCHANGED verdict
       ELSE /\ pc' = [pc EXCEPT ![c] = "refuse"]
            /\ verdict' = [verdict EXCEPT ![c] = <<"busy", "none">>]
            /\ UNCHANGED <<permits, snap, begun>>
    /\ UNCHANGED <<catalog, approvals, books, req, count, faults>>

----------------------------------------------------------------------------
(* The transaction *)

\* A definition this attempt inserts was stored by another one since.
StoredSince(c) ==
    Resolves(req[c].patch, snap[c].heads) /\
    \E h \in Hashes(Lowered(req[c].patch, snap[c].heads)) : h \in definitions \ snap[c].definitions

\* mutant: only the rows written are checked (snapshot isolation).
MovedSinceWritten(c) ==
    \E s \in Slot : /\ s[1] = req[c].patch.scope /\ s[2] \in DOMAIN req[c].patch.mods
                    /\ heads[s] # snap[c].heads[s]

\* What this attempt read to decide, or would write, was changed since.
MovedSince(c) == \E s \in Slot : s[1] = req[c].patch.scope /\ heads[s] # snap[c].heads[s]
SpentSince(c) == NeedsToken(c, req[c].patch) /\ approvals[req[c].token].by # None

\* mutant: the open window stays open.
WriteHistoryOpen(windows, hash, id) == Append(windows, [hash |-> hash, from |-> id, to |-> None])

\* name_pointer_history_writer: close the open window, open the next.
WriteHistory(windows, hash, id) ==
    Append([i \in DOMAIN windows |-> IF windows[i].to = None THEN [windows[i] EXCEPT !.to = id]
                                     ELSE windows[i]],
           [hash |-> hash, from |-> id, to |-> None])

\* UpsertPointerCAS for every module: the CAS holds in the snapshot (Verdict).
MovePointers(new, id) ==
    /\ heads' = [s \in Slot |-> IF s \in DOMAIN new THEN new[s] ELSE heads[s]]
    /\ history' = [s \in Slot |-> IF s \in DOMAIN new THEN WriteHistory(history[s], new[s], id)
                                  ELSE history[s]]

ConsumeToken(c, id) ==
    IF NeedsToken(c, req[c].patch)
    THEN approvals' = [approvals EXCEPT ![req[c].token].by = id]
    ELSE UNCHANGED approvals

\* The request is over, with its permit if it holds one.
Over(c) ==
    /\ pc' = [pc EXCEPT ![c] = "idle"]
    /\ req' = [req EXCEPT ![c] = None]
    /\ snap' = [snap EXCEPT ![c] = None]
    /\ verdict' = [verdict EXCEPT ![c] = None]

\* The transaction is over and the verdict stands.
Decide(c, next) ==
    /\ pc' = [pc EXCEPT ![c] = next]
    /\ verdict' = [verdict EXCEPT ![c] = Verdict(c)]
    /\ UNCHANGED <<req, snap, permits, faults>>

\* COMMIT was sent: it is answered, or the answer is lost and the caller sees an error.
Committed(c) ==
    \/ Decide(c, "charge")
    \/ /\ faults < MaxFaults /\ faults' = faults + 1
       /\ permits' = permits - 1
       /\ Over(c)

Admit(c) ==
    /\ pc[c] = "txn" /\ Verdict(c)[1] = "admitted" /\ req[c].patch.commit
    /\ ~StoredSince(c) /\ ~MovedSince(c) /\ ~SpentSince(c)
    /\ LET new == Lowered(req[c].patch, snap[c].heads)  id == Len(admissions) + 1 IN
         /\ definitions' = definitions \cup Hashes(new)
         /\ MovePointers(new, id)
         /\ ConsumeToken(c, id)
         /\ admissions' = Append(admissions,
                            [who |-> c, nth |-> count[c], moves |-> new])
    /\ Committed(c)
    /\ UNCHANGED <<books, count, begun>>

\* A no-op commits its admission row and moves nothing; no approval is consumed.
AdmitNoop(c) ==
    /\ pc[c] = "txn" /\ Verdict(c)[1] = "already-admitted" /\ req[c].patch.commit
    /\ admissions' = Append(admissions, [who |-> c, nth |-> count[c], moves |-> <<>>])
    /\ Committed(c)
    /\ UNCHANGED <<heads, history, definitions, approvals, books, count, begun>>

\* A dry run ends green and rolls back.
Rehearse(c) ==
    /\ pc[c] = "txn" /\ ~req[c].patch.commit
    /\ \/ Verdict(c)[1] = "admitted" /\ ~StoredSince(c) /\ ~MovedSince(c)
       \/ Verdict(c)[1] = "already-admitted"
    /\ Decide(c, "charge")
    /\ UNCHANGED <<catalog, approvals, books, count, begun>>

\* mutant: finishRefusal does not roll back, and its autocommit keeps the admission row.
RejectKept(c) ==
    /\ pc[c] = "txn" /\ Verdict(c)[1] \in {"rejected", "stale-base"}
    /\ Decide(c, "refuse")
    /\ admissions' = Append(admissions, [who |-> c, nth |-> count[c], moves |-> <<>>])
    /\ UNCHANGED <<heads, history, definitions, approvals, books, count, begun>>

Reject(c) ==
    /\ pc[c] = "txn" /\ Verdict(c)[1] \in {"rejected", "stale-base"}
    /\ Verdict(c)[2] \in {"tsgo", "cas"} => ~StoredSince(c)
    /\ Decide(c, "refuse")
    /\ UNCHANGED <<catalog, approvals, books, count, begun>>

\* 40001 and the codes taken for it: roll back and begin again, or give up.
Retry(c) ==
    /\ pc[c] = "txn" /\ snap[c].at < Len(admissions)
    /\ req' = [req EXCEPT ![c].tries = @ + 1]
    /\ IF req[c].tries + 1 < MaxRetries
       THEN Begin(c) /\ UNCHANGED <<pc, verdict>>
       ELSE /\ pc' = [pc EXCEPT ![c] = "refuse"]
            /\ verdict' = [verdict EXCEPT ![c] = <<"retry-exhausted", "serialize">>]
            /\ UNCHANGED snap
    /\ UNCHANGED <<catalog, approvals, books, permits, count, begun, faults>>

\* A pre-BEGIN refusal holds no permit.
Held(c) == pc[c] \in {"txn", "charge"} \/ (pc[c] = "refuse" /\ verdict[c][2] # "none")

\* Any other error: the deferred rollback and release, and no charge.
Fail(c) ==
    /\ pc[c] \in {"txn", "refuse"} /\ faults < MaxFaults
    /\ faults' = faults + 1
    /\ permits' = IF Held(c) THEN permits - 1 ELSE permits
    /\ Over(c)
    /\ UNCHANGED <<catalog, approvals, books, count, begun>>

----------------------------------------------------------------------------
(* After it *)

\* finishRefusal: the ledger row, in a statement of its own.
WriteRefusal(c) ==
    /\ pc[c] = "refuse"
    /\ refusals' = refusals \cup {[who |-> c, nth |-> count[c], outcome |-> verdict[c][1]]}
    /\ IF Held(c) THEN pc' = [pc EXCEPT ![c] = "charge"] /\ UNCHANGED request
       ELSE Over(c)
    /\ UNCHANGED <<catalog, approvals, fuel, refills, permits, count, begun, faults>>

Charge(c) ==
    /\ pc[c] = "charge"
    /\ IF Principal[c] \in Metered
       THEN LET cost == StageCost(verdict[c][2])
            IN  fuel' = [fuel EXCEPT ![Principal[c]] = IF @ > cost THEN @ - cost ELSE 0]
       ELSE UNCHANGED fuel
    /\ permits' = permits - 1
    /\ Over(c)
    /\ UNCHANGED <<catalog, approvals, refusals, refills, count, begun, faults>>

\* The refill by elapsed time that fuelCheck computes.
Refill(q) ==
    /\ fuel[q] < Capacity /\ refills[q] < MaxRefills
    /\ fuel' = [fuel EXCEPT ![q] = @ + 1]
    /\ refills' = [refills EXCEPT ![q] = @ + 1]
    /\ UNCHANGED <<catalog, approvals, refusals, permits, pc, request, count, begun, faults>>

----------------------------------------------------------------------------
(* Approvals *)

\* A human approves a patch as it lowers now (`regel approve`).
Mint(t) ==
    /\ t \in Token \ DOMAIN approvals
    /\ \E c \in Client : \E p \in Patch[c] :
         /\ NeedsToken(c, p) /\ Resolves(p, heads)
         /\ approvals' = [u \in DOMAIN approvals \cup {t} |->
              IF u = t THEN [bound |-> Hashes(Lowered(p, heads)), for |-> Principal[c],
                             expired |-> FALSE, by |-> None]
              ELSE approvals[u]]
    /\ UNCHANGED <<catalog, books, permits, pc, request, count, begun, faults>>

Expire(t) ==
    /\ t \in DOMAIN approvals /\ ~approvals[t].expired /\ approvals[t].by = None
    /\ approvals' = [approvals EXCEPT ![t].expired = TRUE]
    /\ UNCHANGED <<catalog, books, permits, pc, request, count, begun, faults>>

----------------------------------------------------------------------------
Init ==
    /\ heads = [s \in Slot |-> None] /\ history = [s \in Slot |-> <<>>]
    /\ definitions = {} /\ admissions = <<>> /\ approvals = <<>> /\ refusals = {}
    /\ fuel = [q \in Metered |-> Capacity] /\ refills = [q \in Metered |-> 0]
    /\ permits = 0
    /\ pc = [c \in Client |-> "idle"] /\ req = [c \in Client |-> None]
    /\ snap = [c \in Client |-> None] /\ verdict = [c \in Client |-> None]
    /\ count = [c \in Client |-> 0]
    /\ begun = [q \in Agents \cup Metered \cup {"human"} |-> 0] /\ faults = 0

Request(c) == \/ Submit(c) \/ EnterGate(c) \/ Admit(c) \/ AdmitNoop(c)
              \/ Rehearse(c) \/ Reject(c) \/ Retry(c) \/ Fail(c)
              \/ WriteRefusal(c) \/ Charge(c)

Next == \/ \E c \in Client : Request(c)
        \/ \E q \in Metered : Refill(q)
        \/ \E t \in Token : Mint(t) \/ Expire(t)

Spec == Init /\ [][Next]_vars
----------------------------------------------------------------------------
(* Properties *)

Outcomes == {"admitted", "already-admitted", "rejected", "stale-base", "retry-exhausted",
             "budget-exhausted", "busy"}

\* A permit is taken exactly while a request is between tryAcquire and the deferred
\* release, on every way out of the pipeline, and never more than there are slots.
PermitsAreHeld == permits = Cardinality({c \in Client : Held(c)}) /\ permits <= Slots

\* The shape of the state, the accounts of the semaphore included.
TypeOK ==
    /\ DOMAIN heads = Slot /\ DOMAIN history = Slot
    /\ \A s \in Slot : heads[s] = None \/ heads[s] \in definitions
    /\ \A t \in DOMAIN approvals : t \in Token /\ approvals[t].by \in {None} \cup DOMAIN admissions
    /\ \A r \in refusals : r.outcome \in Outcomes \ {"admitted", "already-admitted"}
    /\ fuel \in [Metered -> 0..Capacity] /\ refills \in [Metered -> 0..MaxRefills]
    /\ pc \in [Client -> {"idle", "gate", "txn", "refuse", "charge"}]
    /\ PermitsAreHeld
    /\ count \in [Client -> 0..MaxSubmits] /\ faults \in 0..MaxFaults

\* The history of a slot is the admissions that moved it, window by window without gap
\* or overlap, and the open window is the head: an as-of read finds one address.
HistoryIsExact ==
    \A s \in Slot :
        LET w == history[s]  n == Len(history[s]) IN
        /\ heads[s] = IF n = 0 THEN None ELSE w[n].hash
        /\ n > 0 => w[n].to = None
        /\ \A i \in 1..n-1 : w[i].to = w[i+1].from /\ w[i].from < w[i].to
        /\ {w[i].from : i \in 1..n} = {k \in DOMAIN admissions : s \in DOMAIN admissions[k].moves}
        /\ \A i \in 1..n : admissions[w[i].from].moves[s] = w[i].hash

\* What an agent moved at product scope is exactly what a human approved, under an
\* approval that no other admission used, whatever retries, replays and races.
ApprovedLands ==
    LET Agent(i) == Principal[admissions[i].who] \in Agents
        Spent(i) == {t \in DOMAIN approvals : approvals[t].by = i}
    IN \A i \in DOMAIN admissions :
         IF Agent(i) /\ \E s \in DOMAIN admissions[i].moves : s[1] = "product"
         THEN \E t \in Spent(i) : /\ Spent(i) = {t}
                                  /\ approvals[t].bound = Hashes(admissions[i].moves)
                                  /\ approvals[t].for = Principal[admissions[i].who]
         ELSE Spent(i) = {}

\* A submission has one outcome: at most one admission row, never one and a refusal;
\* a caller told that it was admitted finds the row.
OneOutcome ==
    LET Rows(c, n) == {i \in DOMAIN admissions : admissions[i].who = c /\ admissions[i].nth = n} IN
    \A c \in Client, n \in 1..MaxSubmits :
        /\ Cardinality(Rows(c, n)) + Cardinality({r \in refusals : r.who = c /\ r.nth = n}) <= 1
        /\ (/\ pc[c] = "charge" /\ count[c] = n /\ req[c].patch.commit
            /\ verdict[c][1] \in {"admitted", "already-admitted"}) => Rows(c, n) # {}

\* The bucket is read before the pipeline and charged after it, so the requests a
\* principal makes at one time pass the check together; but a unit of fuel is worth one
\* pipeline for each of its clients at the most, and a fault one more.
FuelBoundsRuns ==
    \A q \in Metered :
        begun[q] <= Cardinality({c \in Client : Principal[c] = q}) * (Capacity + refills[q]) + faults

\* Admission is linearizable: the moves of the admission rows, in order, and the
\* requests under way are a behaviour of NameLedger.
Publications == [i \in DOMAIN admissions |-> admissions[i].moves]
Asked == [c \in Client |-> IF pc[c] \in {"gate", "txn", "refuse"}
                           THEN {[patch |-> req[c].patch, base |-> req[c].base]} ELSE {}]
IsProduct(p) == p.scope = "product"

Ledger == INSTANCE NameLedger WITH
    Clients <- Client, Slots <- Slot, Patches <- UNION {Patch[c] : c \in Client}, Lowered <- Lowered,
    Product <- IsProduct, log <- Publications, asked <- Asked

\* Two admissions never publish over each other's bases, nor against a catalog that
\* never was: each is one step over the heads as they are when it commits.
ImplementsLedger == Ledger!LedgerSpec
=============================================================================
