--------------------------- MODULE MCMieruRuntime ---------------------------
(* Two inbounds.  In the first instance each has a port of its own, and    *)
(* inbound i1 also a document that mita refuses at start.  In the second   *)
(* i2 can be moved to the port i1 used before it was disabled.             *)
EXTENDS MieruRuntime, TLC

CONSTANTS i1, i2, a1, a2, refused

MCIds == {i1, i2}
MCDocs == {a1, a2, refused}
MCStartable == {a1, a2}

OwnDocs == (i1 :> {a1, refused}) @@ (i2 :> {a2})
OwnPorts == (a1 :> 1) @@ (a2 :> 2) @@ (refused :> 1)

HandoverDocs == (i1 :> {a1}) @@ (i2 :> {a2, refused})
SharedPort == (a1 :> 1) @@ (a2 :> 1) @@ (refused :> 2)

AnyFault == FaultKinds
NoFaults == {}
=============================================================================
