--------------------------- MODULE MCKeywordLog ---------------------------
(* Instances of KeywordLog for TLC. *)
EXTENDS KeywordLog, TLC

CONSTANTS k1, k2

TwoCalls == {k1, k2}

=============================================================================
