--------------------------- MODULE MCJsonRpcPeer ---------------------------
(***************************************************************************)
(* Instances of JsonRpcPeer for TLC.                                       *)
(***************************************************************************)
EXTENDS JsonRpcPeer, TLC

CONSTANTS c1, c2, s1, s2, m1

\* Two callers that compete for ids and responses, and one stop().
TwoCallers == {c1, c2}
OneStopper == {s1}
NoInbound == {}
CallerSymmetry == Permutations(TwoCallers)

\* Two stop() calls that compete with a handler and a request.
OneCaller == {c1}
TwoStoppers == {s1, s2}
OneInbound == {m1}
StopperSymmetry == Permutations(TwoStoppers)
=============================================================================
