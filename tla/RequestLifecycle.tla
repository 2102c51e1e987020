------------------------- MODULE RequestLifecycle -------------------------
(***************************************************************************)
(* What a JSON-RPC connection promises to those who send requests over it: *)
(* a request is accepted only while the connection is open, and the end of *)
(* the connection settles every request that still waits, all at once.     *)
(***************************************************************************)
CONSTANT Callers

VARIABLES open, request

Settled == {"answered", "closed", "givenUp"}

Init ==
    /\ open = TRUE
    /\ request = [c \in Callers |-> "none"]

Ask(c) ==
    /\ open
    /\ request[c] = "none"
    /\ request' = [request EXCEPT ![c] = "waiting"]
    /\ UNCHANGED open

\* A response arrives, or the caller gives up.
Settle(c) ==
    /\ request[c] = "waiting"
    /\ \E how \in {"answered", "givenUp"} : request' = [request EXCEPT ![c] = how]
    /\ UNCHANGED open

\* The caller returns; it may give up in the same step.
Return(c) ==
    /\ request[c] # "none"
    /\ request' = [request EXCEPT ![c] = "none"]
    /\ UNCHANGED open

Close ==
    /\ open
    /\ open' = FALSE
    /\ request' = [c \in Callers |-> IF request[c] = "waiting" THEN "closed" ELSE request[c]]

Next == Close \/ \E c \in Callers : Ask(c) \/ Settle(c) \/ Return(c)

Spec == Init /\ [][Next]_<<open, request>>

=============================================================================
