----------------------------- MODULE KeywordLog -----------------------------
(***************************************************************************)
(* The log messages of the server on their way to Robot Framework. They    *)
(* arrive on the worker thread of a session, where Robot Framework drops   *)
(* them. While a keyword runs, the _LogSink hands them to the event loop   *)
(* of the keyword, which the thread of the test runs; otherwise it keeps   *)
(* them for the next drain. Composed with the session, whose calls are the *)
(* ones that a keyword awaits.                                             *)
(***************************************************************************)
EXTENDS ClientSession, Naturals, Sequences

CONSTANT MaxMessages    \* bound: messages that arrive in a session

ASSUME MaxMessagesIsNumber == MaxMessages \in Nat

VARIABLES
    keyword,    \* run_keyword(): "none", "begun", "awaiting" its call, or "ended": its loop is not
    attached,   \* whether the sink has the loop of the keyword
    pending,    \* the messages that it keeps
    ready,      \* the callbacks of the loop of the keyword
    sent,       \* how many messages have arrived: they are numbered
    due,        \* those that had arrived when the call of the keyword came to its end
    written     \* what Robot Framework has got

sinkVars == <<attached, pending, ready, written>>
logVars == <<keyword, sinkVars, sent, due>>
allVars == <<vars, logVars>>

\* A message, the outcome of the call, the coroutine that resumes, its end.
Log(n) == [run |-> "log", of |-> n]
Settle == [run |-> "settle", of |-> 0]
Wake == [run |-> "wake", of |-> 0]
Over == [run |-> "over", of |-> 0]

LogTypeOK ==
    /\ TypeOK
    /\ keyword \in {"none", "begun", "awaiting", "ended"}
    /\ attached \in BOOLEAN
    /\ sent \in 0..MaxMessages /\ due \in 0..MaxMessages
    /\ pending \in Seq(1..sent) /\ written \in Seq(1..sent)
    /\ ready \in Seq({Log(n) : n \in 1..sent} \cup {Settle, Wake, Over})

LogInit ==
    /\ Init
    /\ keyword = "none" /\ attached = FALSE
    /\ pending = <<>> /\ ready = <<>> /\ written = <<>>
    /\ sent = 0 /\ due = 0

-----------------------------------------------------------------------------
(* The worker thread *)

SubmitMessage(n) ==
    \/ attached /\ ready' = Append(ready, Log(n)) /\ UNCHANGED pending
    \/ ~attached /\ pending' = Append(pending, n) /\ UNCHANGED ready

\* log() of the endpoint, or a problem with a message.
LogArrives ==
    /\ peer # "none" /\ worker \in LoopRuns
    /\ sent < MaxMessages
    /\ sent' = sent + 1
    /\ SubmitMessage(sent + 1)
    /\ UNCHANGED <<vars, keyword, attached, written, due>>

\* The future of the awaited call completes: wrap_future() posts it to the loop.
Outcomes ==
    {c \in current : calls[c] \in Open /\ calls'[c] \in {"done", "raised", "failed"}}

PostOutcome ==
    /\ IF Outcomes = {} THEN UNCHANGED <<ready, due>>
                        ELSE ready' = Append(ready, Settle) /\ due' = sent
    /\ UNCHANGED <<keyword, attached, pending, written, sent>>

SessionGoesOn == SessionStep /\ PostOutcome

-----------------------------------------------------------------------------
(* The thread of the test: run_keyword() on the loop that it runs *)

\* _drain_locked(), with the lock that submit() takes.
DrainLocked == written' = written \o pending /\ pending' = <<>>

\* Before a keyword, when a session has started or not, and when it has ended.
Drain ==
    /\ keyword = "none" /\ test \in {"idle", "over"}
    /\ pending # <<>>
    /\ DrainLocked
    /\ UNCHANGED <<vars, keyword, attached, ready, sent, due>>

\* Defect: the messages that are kept stay behind those that come now.
AttachUndrained ==
    /\ keyword = "none" /\ test = "idle"
    /\ keyword' = "begun" /\ attached' = TRUE /\ due' = 0
    /\ UNCHANGED <<vars, pending, written, ready, sent>>

Attach ==
    /\ keyword = "none" /\ test = "idle"
    /\ keyword' = "begun" /\ attached' = TRUE /\ due' = 0
    /\ DrainLocked
    /\ UNCHANGED <<vars, ready, sent>>

\* Defect: the sink keeps the loop of a keyword that is over.
DetachNot(callbacks) ==
    /\ ready' = Append(callbacks, Over)
    /\ keyword' = "ended"
    /\ UNCHANGED <<attached, pending, written, sent, due>>

\* The `finally` of run_keyword(), in the last step of its task: that the task is
\* over, which stops the loop, comes behind everything posted until then.
Detach(callbacks) ==
    /\ attached' = FALSE
    /\ ready' = Append(callbacks, Over)
    /\ keyword' = "ended"
    /\ UNCHANGED <<pending, written, sent, due>>

SubmitCall(c) ==
    /\ keyword = "begun"
    /\ Submit(c) \/ Schedule(c)
    /\ \/ test' = "idle" /\ Detach(ready)
       \/ test' # "idle" /\ keyword' = (IF test' = "calling" THEN "awaiting" ELSE "begun")
          /\ UNCHANGED <<sinkVars, sent, due>>

\* Robot Framework cancels the keyword.
CancelKeyword(c) ==
    /\ keyword = "awaiting"
    /\ Cancel(c)
    /\ ready' = Append(ready, Wake) /\ due' = sent
    /\ UNCHANGED <<keyword, attached, pending, written, sent>>

WriteLog ==
    /\ Head(ready).run = "log"
    /\ written' = Append(written, Head(ready).of)
    /\ ready' = Tail(ready)
    /\ UNCHANGED <<vars, keyword, attached, pending, sent, due>>

TakeOutcome ==
    /\ Head(ready) = Settle
    /\ ready' = Append(Tail(ready), Wake)
    /\ UNCHANGED <<vars, keyword, attached, pending, written, sent, due>>

LeaveKeyword ==
    /\ Head(ready) = Wake
    /\ Detach(Tail(ready))
    /\ \E c \in Calls : Return(c)

StopLoop ==
    /\ Head(ready) = Over
    /\ keyword' = "none" /\ ready' = Tail(ready)
    /\ UNCHANGED <<vars, attached, pending, written, sent, due>>

RunCallback ==
    /\ keyword \in {"awaiting", "ended"} /\ ready # <<>>
    /\ WriteLog \/ TakeOutcome \/ LeaveKeyword \/ StopLoop

StopSession == keyword = "none" /\ Stop /\ UNCHANGED logVars

-----------------------------------------------------------------------------

LogNext ==
    \/ LogArrives \/ SessionGoesOn \/ Drain \/ Attach \/ RunCallback \/ StopSession
    \/ \E c \in Calls : SubmitCall(c) \/ CancelKeyword(c)

LogSpec == LogInit /\ [][LogNext]_allVars

\* The fairness of ClientSession, and that the thread of the test runs its loop.
LogFairSpec ==
    /\ LogSpec
    /\ WF_allVars(WorkerStep /\ PostOutcome) /\ WF_allVars(TestStep /\ PostOutcome)
    /\ WF_allVars(StopPeer /\ PostOutcome)
    /\ \A c \in Calls :
          /\ WF_allVars(RunCall(c) /\ PostOutcome)
          /\ WF_allVars(CallReturns(c) /\ PostOutcome)
          /\ WF_allVars(CallFails(c) /\ PostOutcome)
          /\ WF_allVars(SubmitCall(c))
    /\ \A j \in Jobs : WF_allVars(StartJob(j) /\ PostOutcome)
    /\ WF_allVars(JobTimesOut("graceful") /\ PostOutcome)
    /\ WF_allVars(process = "exited" /\ ConnectionEnds /\ PostOutcome)
    /\ WF_allVars(RunCallback)

-----------------------------------------------------------------------------
(* Properties *)

\* Where the loop of the keyword has messages yet to write.
OnLoop == {i \in DOMAIN ready : ready[i].run = "log"}

\* "The client SHALL NOT drop a log message that the server sends while no keyword
\* call is running", and keep their order (openspec/specs/client/spec.md): what is
\* written, what the loop of the keyword has yet to write, and what is kept for
\* the next drain are, one after the other, all messages in that order.
LogKeepsOrder ==
    /\ \A i \in DOMAIN written : written[i] = i
    /\ {ready[i].of : i \in OnLoop} = (Len(written) + 1)..(sent - Len(pending))
    /\ \A i, j \in OnLoop : i < j => ready[i].of < ready[j].of
    /\ \A i \in DOMAIN pending : pending[i] = sent - Len(pending) + i

\* "The client SHALL write every log message that the server sends during a keyword
\* call to Robot Framework's log of that call" (same file): when it has returned, everything that
\* had arrived before its result, its failure or its cancellation is written, and
\* no message is left with the loop, which nobody runs then.
LogPrecedesReturn == keyword = "none" => Len(written) >= due /\ ready = <<>>

=============================================================================
