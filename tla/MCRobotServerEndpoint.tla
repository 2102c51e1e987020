----------------------- MODULE MCRobotServerEndpoint -----------------------
(* Instances of RobotServerEndpoint for TLC. *)
EXTENDS RobotServerEndpoint, TLC

CONSTANTS c1, c2, i1, i2

TwoClients == {c1, c2}
OneClient == {c1}
TwoImports == {i1, i2}
OneImport == {i1}
BothOwner == i1 :> c1 @@ i2 :> c1
PairOwner == i1 :> c1 @@ i2 :> c2
OneOwner == i1 :> c1
NoImports == {}
KnownLevel == {"known"}
AnyLevel == {"known", "unknown"}

=============================================================================
