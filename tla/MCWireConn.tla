----------------------------- MODULE MCWireConn ------------------------------
(* Requests are interchangeable, and so are the texts of queries. *)
EXTENDS WireConn, TLC
Symmetry == Permutations(Request) \cup Permutations(Text)
=============================================================================
