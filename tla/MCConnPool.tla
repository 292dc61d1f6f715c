---------------------------- MODULE MCConnPool ----------------------------
(***************************************************************************)
(* Small instances of ConnPool for TLC.                                    *)
(***************************************************************************)
EXTENDS ConnPool, TLC

CONSTANTS r1, r2, r3, r4, r5

NoInner     == [r \in {} |-> r]
SecondOfTwo == (r3 :> r1) @@ (r4 :> r2)
=============================================================================
