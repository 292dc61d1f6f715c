----------------------------- MODULE NameLedger -----------------------------
(***************************************************************************)
(* What the admission gate promises of the catalog: a publication is one   *)
(* indivisible step.  Clients ask for patches; a patch is published at one *)
(* point of a single log, over heads that are still the bases it declared, *)
(* with imports resolved in one state of the catalog: the one it lands in  *)
(* at product scope, that one or an earlier one at an overlay scope.       *)
(***************************************************************************)
EXTENDS Sequences, Naturals, FiniteSets

CONSTANTS Clients, Slots, Patches, None,
          Lowered(_, _),       \* the hashes a patch gets in a view of product
          Product(_)           \* whether a patch is at product scope

VARIABLES log,      \* publications in order, each a function from slots to hashes
          asked     \* of each client: the patch it waits for with its bases, if any

\* The head of a slot after the first k publications of a log l.
HeadAt(l, k, s) ==
    LET moves == {i \in 1..k : s \in DOMAIN l[i]}
        last  == {i \in moves : \A j \in moves : j <= i}
    IN  IF last = {} THEN None ELSE l[CHOOSE i \in last : TRUE][s]

View(l, k) == [s \in Slots |-> HeadAt(l, k, s)]

LedgerInit == log = <<>> /\ asked = [c \in Clients |-> {}]

\* The bases a client declares are heads it has seen, at any time.
Ask(c) ==
    /\ asked[c] = {}
    /\ \E p \in Patches, k \in 0..Len(log) :
         asked' = [asked EXCEPT ![c] = {[patch |-> p, base |-> View(log, k)]}]
    /\ UNCHANGED log

Publish(c) ==
    /\ \E a \in asked[c], k \in 0..Len(log) :
         LET new == Lowered(a.patch, View(log, k))
         IN  /\ Product(a.patch) => k = Len(log)
             /\ \A s \in DOMAIN new : HeadAt(log, Len(log), s) = a.base[s]
             /\ log' = Append(log, new)
    /\ asked' = [asked EXCEPT ![c] = {}]

\* A patch that one state of the catalog held already leaves an entry that moves nothing.
Find(c) ==
    /\ \E a \in asked[c], k \in 0..Len(log) :
         LET new == Lowered(a.patch, View(log, k))
         IN  \A s \in DOMAIN new : HeadAt(log, k, s) = new[s]
    /\ log' = Append(log, <<>>)
    /\ asked' = [asked EXCEPT ![c] = {}]

\* Refused, rehearsed, or failed without a trace.
Answer(c) == asked[c] # {} /\ asked' = [asked EXCEPT ![c] = {}] /\ UNCHANGED log

LedgerNext == \E c \in Clients : Ask(c) \/ Publish(c) \/ Find(c) \/ Answer(c)

LedgerSpec == LedgerInit /\ [][LedgerNext]_<<log, asked>>
=============================================================================
