-------------------------- MODULE MCAdmissionGate --------------------------
(***************************************************************************)
(* A small catalog for TLC: app imports lib; an engineer and two clients   *)
(* of one agent principal.                                                 *)
(***************************************************************************)
EXTENDS AdmissionGate, TLC

CONSTANTS e, a1, a2

WhoIs     == (e :> "human") @@ (a1 :> "agent") @@ (a2 :> "agent")
AppOnLib  == ("app" :> {"lib"}) @@ ("lib" :> {})
P(scope, mods, commit) == [scope |-> scope, mods |-> mods, commit |-> commit]
ByHuman   == { P("product", "lib" :> "v1", TRUE), P("product", "lib" :> "v2", TRUE),
               P("product", ("lib" :> "v1") @@ ("app" :> "v1"), FALSE),
               P("foreign", "lib" :> "bad", TRUE) }
ByAgent   == { P("product", "app" :> "v1", TRUE), P("product", "lib" :> "v2", TRUE),
               P("overlay", "app" :> "v1", TRUE) }
Patches   == (e :> ByHuman) @@ (a1 :> ByAgent) @@ (a2 :> ByAgent)
Symmetry  == Permutations({a1, a2})
=============================================================================
