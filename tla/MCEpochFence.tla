---------------------------- MODULE MCEpochFence ----------------------------
(***************************************************************************)
(* Small instances of EpochFence for TLC: the image of epoch 1, and one    *)
(* built for epoch 2 that adds a std entry and no longer writes the tag.   *)
(***************************************************************************)
EXTENDS EpochFence, TLC

CONSTANTS i1, i2, n1, n2, b1, b2, k1, k2, c1, c2

TwoImages == (i1 :> 1) @@ (i2 :> 2)
Extended  == (i1 :> (n1 :> b1 @@ n2 :> None)) @@ (i2 :> (n1 :> b1 @@ n2 :> b2))
Symmetry  == Permutations(Kernel) \cup Permutations(Cont)
=============================================================================
