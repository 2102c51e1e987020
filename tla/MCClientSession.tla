-------------------------- MODULE MCClientSession --------------------------
(* An instance of ClientSession for TLC: one call. *)
EXTENDS ClientSession, TLC

CONSTANT k1

OneCall == {k1}

=============================================================================
