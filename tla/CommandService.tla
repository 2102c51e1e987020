--------------------------- MODULE CommandService ---------------------------
(***************************************************************************)
(* What RobotRemoteContext promises to the handlers that submit commands:  *)
(* commands run one at a time, in the order of their submission; once the  *)
(* stop has begun, at most one more is started; what has not been started  *)
(* by the end is dropped, and only such a command is told so.              *)
(***************************************************************************)
EXTENDS Naturals, Sequences

CONSTANT Calls

VARIABLES
    mode,    \* "open", "last": one more may start, "over": none, "shut": dropped
    line,    \* the commands that wait, in order
    state,   \* the state of each command
    answer   \* what its submitter has been told

vars == <<mode, line, state, answer>>

Init ==
    /\ mode = "open" /\ line = <<>>
    /\ state = [c \in Calls |-> "new"]
    /\ answer = [c \in Calls |-> "none"]

Submit(c) ==
    /\ mode # "shut" /\ state[c] = "new"
    /\ state' = [state EXCEPT ![c] = "waiting"]
    /\ line' = Append(line, c)
    /\ UNCHANGED <<mode, answer>>

Begin(c) ==
    /\ line # <<>> /\ c = Head(line)
    /\ \A d \in Calls : state[d] # "running"
    /\ \/ mode = "open" /\ mode' = "open"
       \/ mode = "last" /\ mode' = "over"
    /\ line' = Tail(line)
    /\ state' = [state EXCEPT ![c] = "running"]
    /\ UNCHANGED answer

\* A command that ends the runner with it, or whose submitter is gone, is not
\* answered.
Finish(c) ==
    /\ state[c] = "running"
    /\ state' = [state EXCEPT ![c] = "finished"]
    /\ \/ answer' = [answer EXCEPT ![c] = "outcome"] /\ UNCHANGED mode
       \/ UNCHANGED answer /\ mode' = "over"
    /\ UNCHANGED line

Stop ==
    /\ mode \in {"open", "last"} /\ mode' \in {"last", "over"}
    /\ UNCHANGED <<line, state, answer>>

Shut ==
    /\ mode = "over" /\ mode' = "shut"
    /\ line' = <<>>
    /\ state' = [c \in Calls |-> IF state[c] = "waiting" THEN "dropped" ELSE state[c]]
    /\ UNCHANGED answer

Tell(c) ==
    /\ state[c] = "dropped"
    /\ answer' = [answer EXCEPT ![c] = "shutdown"]
    /\ UNCHANGED <<mode, line, state>>

Next == Stop \/ Shut \/ \E c \in Calls : Submit(c) \/ Begin(c) \/ Finish(c) \/ Tell(c)

Spec == Init /\ [][Next]_vars

=============================================================================
