--------------------------- MODULE MessageChannel ---------------------------
(***************************************************************************)
(* What the channels promise of a message, whoever crashes, lapses or is   *)
(* restarted: it is sent once, handed to one receiver for good, at once or *)
(* later, and read at most once, by a step after the one that handed it    *)
(* over.  A step may move several messages: a continuation can read one,   *)
(* send another and be handed a third.                                     *)
(***************************************************************************)
EXTENDS Naturals

CONSTANTS Msg, Receiver, None

VARIABLES
  sent,        \* the messages there are
  claimedBy,   \* of each message: the receiver it was handed to, or None
  receipts     \* of each message: how often it was read

Idle(m) == /\ m \in sent <=> m \in sent'
           /\ UNCHANGED <<claimedBy[m], receipts[m]>>

Send(m) == /\ m \in sent' \ sent
           /\ claimedBy'[m] \in Receiver \cup {None}
           /\ UNCHANGED receipts[m]

Hand(m) == /\ m \in sent \cap sent' /\ claimedBy[m] = None
           /\ claimedBy'[m] \in Receiver
           /\ UNCHANGED receipts[m]

Read(m) == /\ m \in sent \cap sent' /\ claimedBy[m] # None /\ receipts[m] = 0
           /\ receipts'[m] = 1
           /\ UNCHANGED claimedBy[m]

Pass(m) == Idle(m) \/ Send(m) \/ Hand(m) \/ Read(m)

Init == sent = {} /\ claimedBy = [m \in Msg |-> None] /\ receipts = [m \in Msg |-> 0]

Next == /\ sent' \in SUBSET Msg
        /\ claimedBy' \in [Msg -> Receiver \cup {None}]
        /\ receipts' \in [Msg -> {0, 1}]
        /\ \A m \in Msg : Pass(m)

Spec == Init /\ [][Next]_<<sent, claimedBy, receipts>>
=============================================================================
