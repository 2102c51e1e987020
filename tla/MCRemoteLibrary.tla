-------------------------- MODULE MCRemoteLibrary --------------------------
(* Instances of RemoteLibrary for TLC. *)
EXTENDS RemoteLibrary, TLC

CONSTANTS s1, s2, s3, d1, d2

ThreeSessions == {s1, s2, s3}
TwoDefinitions == {d1, d2}

=============================================================================
