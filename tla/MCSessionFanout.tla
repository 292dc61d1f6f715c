--------------------------- MODULE MCSessionFanout ---------------------------
(* SessionFanout for TLC: two sessions share the queue, one of them is watched. *)
EXTENDS SessionFanout

CONSTANTS s1, s2, h1, w1

Views == {s1, s2}
OneView == {s1}
Handlers == {h1}
Workers == {w1}
=============================================================================
