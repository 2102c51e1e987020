--------------------------- MODULE MCRobotRunner ---------------------------
(* Instances of RobotRunner for TLC. *)
EXTENDS RobotRunner, TLC

CONSTANTS k1, k2, k3

ThreeCalls == {k1, k2, k3}
OneExits == {k1}

=============================================================================
