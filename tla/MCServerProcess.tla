-------------------------- MODULE MCServerProcess --------------------------
(* Instances of ServerProcess for TLC. *)
EXTENDS ServerProcess, TLC

CONSTANTS c1, c2, c3

OneClient == {c1}
ThreeClients == {c1, c2, c3}

NotBooting == {"starting", "checking", "checkingStop", "running"}
WhileStarting == {"starting"}

=============================================================================
