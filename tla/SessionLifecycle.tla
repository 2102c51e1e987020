-------------------------- MODULE SessionLifecycle --------------------------
(***************************************************************************)
(* What a session promises to the library that runs keywords in it. It is  *)
(* up once, and what ends it otherwise than the client's stop is a loss,   *)
(* which lasts. A call is made of a session that has started, and ends     *)
(* once: with a response that came before the loss, or with the loss, or   *)
(* with a request that could not be written, which may come before the     *)
(* loss is known. The session is stopped when no call is under way.        *)
(***************************************************************************)
CONSTANT Calls

VARIABLES
    phase,   \* "starting", "up", "lost" or "stopped"
    call     \* of each call: "new", "open", "received", "broken", or how it has
             \* ended: "answered", "raised", "failed" or "cancelled"

vars == <<phase, call>>

Init ==
    /\ phase = "starting"
    /\ call = [c \in Calls |-> "new"]

UnderWay(c) == call[c] \in {"open", "received", "broken"}

\* What a call becomes.
Becomes(c, state) ==
    /\ call' = [call EXCEPT ![c] = state]
    /\ UNCHANGED phase

ComeUp ==
    /\ phase = "starting" /\ phase' = "up"
    /\ UNCHANGED call

Lose ==
    /\ phase = "up" /\ phase' = "lost"
    /\ UNCHANGED call

Stop ==
    /\ \A c \in Calls : ~UnderWay(c)
    /\ phase # "stopped" /\ phase' = "stopped"
    /\ UNCHANGED call

\* That the session is lost need not be known yet.
Make(c) ==
    /\ phase \in {"up", "lost"}
    /\ call[c] = "new" /\ \A d \in Calls : ~UnderWay(d)
    /\ Becomes(c, "open")

Receive(c) ==
    /\ phase = "up"
    /\ call[c] = "open"
    /\ Becomes(c, "received")

\* The request could not be written, or not to its end.
Break(c) ==
    /\ \/ phase = "up" /\ call[c] = "open"
       \/ phase \in {"up", "lost"} /\ call[c] = "received"
    /\ Becomes(c, "broken")

\* What the call has met comes out, also when the session is lost meanwhile.
End(c) ==
    /\ phase \in {"up", "lost"}
    /\ \/ call[c] = "received" /\ Becomes(c, "answered")
       \/ call[c] = "broken" /\ Becomes(c, "raised")

\* A call that is under way fails, or a new one at once.
Fail(c) ==
    /\ phase = "lost"
    /\ call[c] = "new" \/ UnderWay(c)
    /\ Becomes(c, "failed")

Cancel(c) ==
    /\ phase \in {"up", "lost"}
    /\ UnderWay(c)
    /\ Becomes(c, "cancelled")

CallStep(c) == Make(c) \/ Receive(c) \/ Break(c) \/ End(c) \/ Fail(c) \/ Cancel(c)

Next == ComeUp \/ Lose \/ Stop \/ \E c \in Calls : CallStep(c)

Spec == Init /\ [][Next]_vars

=============================================================================
