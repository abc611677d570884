--------------------------- MODULE MCTrafficStats ---------------------------
(* A client u of a Snell inbound in sing-box, whose counter behaves like   *)
(* any other of sing-box while the inbound has no second client, and of a  *)
(* Mieru instance; no slack, so that pruning happens.                      *)
EXTENDS TrafficStats, TLC

CONSTANT u

UserInMieru == "user - u"
SnellInbound == "inbound>>>snell"

MCCounters == {SnellInbound, UserInMieru}
MCCore == (SnellInbound :> Singbox) @@ (UserInMieru :> 1)
MCOwner == (SnellInbound :> u) @@ (UserInMieru :> u)
MCSnell == {SnellInbound}

(* For overlapping runs: the Mieru counter alone.                          *)
OneCounter == {UserInMieru}
OneCore == UserInMieru :> 1
OneOwner == UserInMieru :> u
NoSnell == {}

AllButReconcile == FaultKinds \ {"reconcile"}
NoFaults == {}
=============================================================================
