--------------------------- MODULE MCTaskReactor ---------------------------
(***************************************************************************)
(* Small instances of TaskReactor for TLC.  Each .cfg says which ways of   *)
(* ending a step and which faults its model has.                           *)
(***************************************************************************)
EXTENDS TaskReactor, TLC

CONSTANTS c1, c2, c3, k1, k2, m1, m2, t1, t2

NoTopics  == [m \in {} |-> t1]
OneTopic  == [m \in {m1} |-> t1]
TwoTopics == (m1 :> t1) @@ (m2 :> t2)

ContKernelSymmetry == Permutations(Cont) \cup Permutations(Kernel)
=============================================================================
