-------------------------- MODULE EffectivelyOnce --------------------------
(***************************************************************************)
(* What the outbox promises of an external effect, whatever kernels crash, *)
(* stall or repeat: it is recorded with the step, it reaches the outside   *)
(* world only if it is recorded, it is marked delivered only once it has   *)
(* reached it, and neither the record nor the mark is ever taken back.     *)
(***************************************************************************)
CONSTANT Intent

VARIABLES
  recorded,   \* intents whose step committed
  reached,    \* intents the outside world has seen at least once
  delivered   \* intents marked delivered

Record(i) == /\ i \notin recorded
             /\ recorded' = recorded \cup {i}
             /\ UNCHANGED <<reached, delivered>>

Reach(i) == /\ i \in recorded \ reached
            /\ reached' = reached \cup {i}
            /\ UNCHANGED <<recorded, delivered>>

Mark(i) == /\ i \in reached \ delivered
           /\ delivered' = delivered \cup {i}
           /\ UNCHANGED <<recorded, reached>>

Init == recorded = {} /\ reached = {} /\ delivered = {}

Next == \E i \in Intent : Record(i) \/ Reach(i) \/ Mark(i)

Spec == Init /\ [][Next]_<<recorded, reached, delivered>>
=============================================================================
