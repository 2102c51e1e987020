--------------------------- MODULE ClientSession ---------------------------
(***************************************************************************)
(* One _Session of the client. Its worker thread runs an event loop with   *)
(* the connection: it connects, does the handshake, serves until the peer  *)
(* completes, and releases everything. The thread of the test starts the   *)
(* session, hands calls over to its loop, and stops it. They share the     *)
(* _SessionResources, two events, and the table of calls with its lock.    *)
(***************************************************************************)
CONSTANT Calls   \* keyword calls, which the thread of the test makes one by one

VARIABLES
    stdio,        \* whether the transport is a spawned server
    res,          \* which of the _SessionResources are set
    worker,       \* where the worker thread is
    initialized, ended,   \* the two events
    startError,   \* whether start_error is set
    token,        \* whether library_token is set
    closedByClient,
    peer,         \* "none", "up" or "down": its completion is resolved
    conn,         \* the connection: "none", "open" or "closed"
    process,      \* the spawned server: "none", "running" or "exited"
    calls,        \* the future of each call
    stranded,     \* the calls that _end() has yet to fail
    test,         \* where the thread of the test is
    current,      \* the calls that it waits for: one, or none
    seen,         \* the resources that _finalize_session() has read
    jobs          \* the two coroutines of the teardown

startVars == <<initialized, startError, token>>
linkVars == <<peer, conn, process>>
callVars == <<calls, stranded>>
sessionVars == <<stdio, res, worker, ended, startVars, linkVars>>
testVars == <<test, current, closedByClient, seen>>
vars == <<sessionVars, callVars, testVars, jobs>>

Fields == {"loop", "peer", "thread", "process"}
Jobs == {"graceful", "stop"}

\* Where the loop is closed, and where the worker runs tasks on it.
LoopClosed == {"closed", "failing", "over"}
LoopRuns == {"connecting", "handshake", "closing", "serving", "ending", "telling", "reaping",
             "waiting", "clearing", "cancelling", "draining"}

\* A call in the hands of the loop: not begun; sent; its response has come; its
\* request could not be written. The last two are for its task to find.
Open == {"queued", "running", "received", "broken"}
CallStates == Open \cup {"new", "done", "raised", "refused", "failed", "cancelled"}

TypeOK ==
    /\ stdio \in BOOLEAN /\ initialized \in BOOLEAN /\ ended \in BOOLEAN
    /\ startError \in BOOLEAN /\ token \in BOOLEAN /\ closedByClient \in BOOLEAN
    /\ res \subseteq Fields /\ seen \subseteq Fields
    /\ worker \in {"none", "boot"} \cup LoopRuns \cup LoopClosed
    /\ peer \in {"none", "up", "down"}
    /\ conn \in {"none", "open", "closed"}
    /\ process \in {"none", "running", "exited"}
    /\ calls \in [Calls -> CallStates]
    /\ stranded \subseteq Calls /\ current \subseteq Calls
    /\ test \in {"new", "starting", "idle", "submitting", "calling", "finalizing",
                 "graceful", "stop", "joining", "releasing", "over"}
    /\ jobs \in [Jobs -> {"none", "posted", "running", "done"}]

Init ==
    /\ stdio \in BOOLEAN
    /\ res = {} /\ worker = "none"
    /\ initialized = FALSE /\ ended = FALSE
    /\ startError = FALSE /\ token = FALSE /\ closedByClient = FALSE
    /\ peer = "none" /\ conn = "none" /\ process = "none"
    /\ calls = [c \in Calls |-> "new"]
    /\ stranded = {}
    /\ test = "new" /\ current = {} /\ seen = {}
    /\ jobs = [j \in Jobs |-> "none"]

-----------------------------------------------------------------------------
(* The worker: _run_client(), in _run() *)

Boot ==
    /\ worker = "boot"
    /\ worker' = "connecting"
    /\ res' = res \cup {"loop"}
    /\ UNCHANGED <<stdio, ended, startVars, linkVars, callVars, testVars, jobs>>

\* create_connection() is over, and the peer is started.
Connect ==
    /\ worker = "connecting"
    /\ worker' = "handshake"
    /\ conn' = "open" /\ peer' = "up"
    /\ process' = IF stdio THEN "running" ELSE process
    /\ res' = res \cup {"peer"} \cup (IF stdio THEN {"process"} ELSE {})
    /\ UNCHANGED <<stdio, ended, startVars, callVars, testVars, jobs>>

ConnectFails ==
    /\ worker = "connecting"
    /\ worker' = "closing"
    /\ startError' = TRUE
    /\ UNCHANGED <<stdio, res, ended, initialized, token, linkVars, callVars, testVars, jobs>>

\* If the session was given up meanwhile, there is no peer to wait for.
HandshakeSucceeds ==
    /\ worker = "handshake" /\ peer = "up"
    /\ token' = TRUE /\ initialized' = TRUE
    /\ worker' = IF "peer" \in res THEN "serving" ELSE "ending"
    /\ UNCHANGED <<stdio, res, ended, startError, linkVars, callVars, testVars, jobs>>

\* Defect: the failure is reported before the connection is released.
ReportFailureFirst ==
    /\ worker = "handshake"
    /\ startError' = TRUE /\ initialized' = TRUE
    /\ worker' = "ending"
    /\ UNCHANGED <<stdio, res, ended, token, linkVars, callVars, testVars, jobs>>

\* An error response, or the connection has ended.
HandshakeFails ==
    /\ worker = "handshake"
    /\ startError' = TRUE
    /\ worker' = "closing"
    /\ UNCHANGED <<stdio, res, ended, initialized, token, linkVars, callVars, testVars, jobs>>

\* The read loop of the peer has ended, and with it the connection.
PeerCompletes ==
    /\ worker = "serving" /\ peer = "down"
    /\ worker' = "ending"
    /\ UNCHANGED <<stdio, res, ended, startVars, linkVars, callVars, testVars, jobs>>

\* close_connection() reads _res.peer ...
CloseConnection ==
    /\ worker \in {"closing", "ending"}
    /\ worker' = IF "peer" \in res THEN "telling" ELSE "reaping"
    /\ UNCHANGED <<stdio, res, ended, startVars, linkVars, callVars, testVars, jobs>>

\* ... and reads it again to tell its reader of the end and close its writer,
\* which it awaits: that it was cleared in between raises.
CloseWriter ==
    /\ worker = "telling"
    /\ IF "peer" \in res
       THEN /\ peer' = "down" /\ conn' = "closed"
            /\ worker' = "reaping" /\ UNCHANGED initialized
       ELSE worker' = "clearing" /\ initialized' = TRUE /\ UNCHANGED <<peer, conn>>
    /\ UNCHANGED <<stdio, res, ended, startError, token, process, callVars, testVars, jobs>>

ReadProcess ==
    /\ worker = "reaping"
    /\ IF "process" \in res
       THEN worker' = "waiting" /\ UNCHANGED initialized
       ELSE worker' = "clearing" /\ initialized' = TRUE
    /\ UNCHANGED <<stdio, res, ended, startError, token, linkVars, callVars, testVars, jobs>>

\* A spawned server is waited for, terminated, or at last killed.
ReapProcess ==
    /\ worker = "waiting"
    /\ process' = "exited"
    /\ res' = res \ {"process"}
    /\ worker' = "clearing" /\ initialized' = TRUE
    /\ UNCHANGED <<stdio, ended, startError, token, peer, conn, callVars, testVars, jobs>>

Clear ==
    /\ worker = "clearing"
    /\ res' = res \ {"loop", "peer", "thread"}
    /\ worker' = "cancelling"
    /\ UNCHANGED <<stdio, ended, startVars, linkVars, callVars, testVars, jobs>>

\* asyncio.run() cancels what still runs, the tasks of the peer, too, and waits
\* for it: a task that has yet to find how its call has ended does not.
CancelTasks ==
    /\ worker = "cancelling"
    /\ calls' = [c \in Calls |-> IF calls[c] \in Open \ {"queued"} THEN "failed" ELSE calls[c]]
    /\ jobs' = [j \in Jobs |-> IF jobs[j] = "running" THEN "done" ELSE jobs[j]]
    /\ IF peer = "none" THEN UNCHANGED <<peer, conn>> ELSE peer' = "down" /\ conn' = "closed"
    /\ worker' = "draining"
    /\ UNCHANGED <<stdio, res, ended, startVars, process, stranded, testVars>>

CloseLoop ==
    /\ worker = "draining"
    /\ worker' = "closed"
    /\ UNCHANGED <<stdio, res, ended, startVars, linkVars, callVars, testVars, jobs>>

Unanswered == {c \in Calls : calls[c] \in Open}

\* Defect: the calls that are left are forgotten.
EndForgetsCalls ==
    /\ worker = "closed" /\ test # "submitting"
    /\ ended' = TRUE
    /\ worker' = "failing"
    /\ UNCHANGED <<stdio, res, startVars, linkVars, callVars, testVars, jobs>>

\* _end() takes the lock, which the thread of the test holds while it submits.
End ==
    /\ worker = "closed" /\ test # "submitting"
    /\ ended' = TRUE
    /\ stranded' = Unanswered
    /\ worker' = "failing"
    /\ UNCHANGED <<stdio, res, startVars, linkVars, calls, testVars, jobs>>

\* Defect: a call that was cancelled meanwhile fails, too.
FailCancelled ==
    /\ worker = "failing"
    /\ \/ \E c \in stranded :
            /\ stranded' = stranded \ {c}
            /\ calls' = [calls EXCEPT ![c] = "failed"]
            /\ UNCHANGED worker
       \/ stranded = {} /\ worker' = "over" /\ UNCHANGED callVars
    /\ UNCHANGED <<stdio, res, ended, startVars, linkVars, testVars, jobs>>

FailStranded ==
    /\ worker = "failing"
    /\ \/ \E c \in stranded :
            /\ stranded' = stranded \ {c}
            /\ calls' = [calls EXCEPT ![c] = IF @ \in {"done", "raised", "cancelled"} THEN @ ELSE "failed"]
            /\ UNCHANGED worker
       \/ stranded = {} /\ worker' = "over" /\ UNCHANGED callVars
    /\ UNCHANGED <<stdio, res, ended, startVars, linkVars, testVars, jobs>>

-----------------------------------------------------------------------------
(* Tasks on the loop of the worker *)

RunCall(c) ==
    /\ calls[c] = "queued" /\ worker \in LoopRuns
    /\ calls' = [calls EXCEPT ![c] = "running"]
    /\ UNCHANGED <<sessionVars, stranded, testVars, jobs>>

\* The server answers.
ResponseArrives(c) ==
    /\ calls[c] = "running" /\ worker \in LoopRuns /\ peer = "up"
    /\ calls' = [calls EXCEPT ![c] = "received"]
    /\ UNCHANGED <<sessionVars, stranded, testVars, jobs>>

\* drain() raises, maybe after the response. The input of a spawned server can be
\* gone while its output, and with it the peer, goes on. TCP ends both at once, and
\* a request that the peer has failed by then reports the closure: CallFails.
WriteFails(c) ==
    /\ worker \in LoopRuns
    /\ \/ calls[c] = "running" /\ peer = "up" /\ stdio
       \/ calls[c] = "received" /\ (peer = "down" \/ stdio)
    /\ calls' = [calls EXCEPT ![c] = "broken"]
    /\ UNCHANGED <<sessionVars, stranded, testVars, jobs>>

\* The task of the call goes on with its response, an error may be one, or with
\* the error of the write. The connection may have ended meanwhile.
CallReturns(c) ==
    /\ calls[c] \in {"received", "broken"} /\ worker \in LoopRuns
    /\ calls' = [calls EXCEPT ![c] = IF @ = "received" THEN "done" ELSE "raised"]
    /\ UNCHANGED <<sessionVars, stranded, testVars, jobs>>

\* The peer fails the requests of a connection that has ended.
CallFails(c) ==
    /\ calls[c] = "running" /\ worker \in LoopRuns /\ peer = "down"
    /\ calls' = [calls EXCEPT ![c] = "failed"]
    /\ UNCHANGED <<sessionVars, stranded, testVars, jobs>>

\* Defect: a loop that is about to end is given another task.
StartJobAlways(j) ==
    /\ jobs[j] = "posted" /\ worker \in LoopRuns
    /\ jobs' = [jobs EXCEPT ![j] = "running"]
    /\ UNCHANGED <<sessionVars, callVars, testVars>>

\* start() of _run_on_loop(): only if the loop still is that of the session.
StartJob(j) ==
    /\ jobs[j] = "posted" /\ worker \in LoopRuns
    /\ jobs' = [jobs EXCEPT ![j] = IF "loop" \in res THEN "running" ELSE "done"]
    /\ UNCHANGED <<sessionVars, callVars, testVars>>

\* The server answers, or does not.
GracefulEnds ==
    /\ jobs["graceful"] = "running" /\ worker \in LoopRuns
    /\ jobs' = [jobs EXCEPT !["graceful"] = "done"]
    /\ UNCHANGED <<sessionVars, callVars, testVars>>

StopPeer ==
    /\ jobs["stop"] = "running" /\ worker \in LoopRuns
    /\ peer' = "down" /\ conn' = "closed"
    /\ jobs' = [jobs EXCEPT !["stop"] = "done"]
    /\ UNCHANGED <<stdio, res, worker, ended, startVars, process, callVars, testVars>>

-----------------------------------------------------------------------------
(* The thread of the test: start(), submit() and stop() *)

Start ==
    /\ test = "new"
    /\ test' = "starting"
    /\ worker' = "boot"
    /\ res' = res \cup {"thread"}
    /\ UNCHANGED <<stdio, ended, startVars, linkVars, callVars, current, closedByClient, seen, jobs>>

\* A session that failed to start is dropped: its worker releases everything.
Started ==
    /\ test = "starting" /\ initialized
    /\ test' = IF startError THEN "over" ELSE "idle"
    /\ UNCHANGED <<sessionVars, callVars, current,
                   closedByClient, seen, jobs>>

\* At the end of its scope, or because it was not initialized in time; that its
\* thread does not even begin in that time is left out.
Stop ==
    /\ test = "idle" \/ (test = "starting" /\ ~initialized /\ worker # "boot")
    /\ test' = "finalizing"
    /\ closedByClient' = TRUE
    /\ UNCHANGED <<sessionVars, callVars, current, seen, jobs>>

\* submit() looks at the session with the lock held ...
Submit(c) ==
    /\ test = "idle" /\ calls[c] = "new"
    /\ IF "loop" \in res /\ ~ended
       THEN test' = "submitting" /\ current' = {c} /\ UNCHANGED calls
       ELSE calls' = [calls EXCEPT ![c] = "refused"] /\ UNCHANGED <<test, current>>
    /\ UNCHANGED <<sessionVars, stranded, closedByClient, seen, jobs>>

\* Defect: that the loop was closed meanwhile makes submit() fail otherwise.
SubmitRaises(c) ==
    /\ test = "submitting" /\ c \in current
    /\ IF worker \in LoopClosed
       THEN test' = "raised" /\ UNCHANGED <<calls, current>>
       ELSE test' = "calling" /\ calls' = [calls EXCEPT ![c] = "queued"] /\ UNCHANGED current
    /\ UNCHANGED <<sessionVars, stranded, closedByClient, seen, jobs>>

\* ... and hands the call over to its loop, if that is not closed.
Schedule(c) ==
    /\ test = "submitting" /\ c \in current
    /\ IF worker \in LoopClosed
       THEN test' = "idle" /\ calls' = [calls EXCEPT ![c] = "refused"] /\ current' = {}
       ELSE test' = "calling" /\ calls' = [calls EXCEPT ![c] = "queued"] /\ UNCHANGED current
    /\ UNCHANGED <<sessionVars, stranded, closedByClient, seen, jobs>>

Return(c) ==
    /\ test = "calling" /\ c \in current
    /\ calls[c] \in {"done", "raised", "failed", "cancelled"}
    /\ test' = "idle" /\ current' = {}
    /\ UNCHANGED <<sessionVars, callVars, closedByClient, seen, jobs>>

\* Robot Framework cancels the keyword, and with it the future of the call.
Cancel(c) ==
    /\ test = "calling" /\ c \in current
    /\ calls[c] \in Open
    /\ calls' = [calls EXCEPT ![c] = "cancelled"]
    /\ UNCHANGED <<sessionVars, stranded, testVars, jobs>>

-----------------------------------------------------------------------------
(* The thread of the test: _finalize_session() *)

\* _run_on_loop() begins: a closed loop accepts nothing.
Posted(j) == jobs' = [jobs EXCEPT ![j] = IF worker \in LoopClosed THEN "done" ELSE "posted"]

\* Defect: the resources are released before the teardown.
ReadResourcesAndClear ==
    /\ test = "finalizing"
    /\ seen' = res
    /\ IF {"peer", "loop"} \subseteq res THEN test' = "graceful" /\ Posted("graceful")
                                         ELSE test' = "joining" /\ UNCHANGED jobs
    /\ res' = {}
    /\ UNCHANGED <<stdio, worker, ended, startVars, linkVars, callVars, current, closedByClient>>

ReadResources ==
    /\ test = "finalizing"
    /\ seen' = res
    /\ IF {"peer", "loop"} \subseteq res THEN test' = "graceful" /\ Posted("graceful")
                                         ELSE test' = "joining" /\ UNCHANGED jobs
    /\ UNCHANGED <<sessionVars, callVars, current, closedByClient>>

JobIsOver(j) ==
    /\ test = j /\ (jobs[j] = "done" \/ ended)
    /\ IF j = "graceful" THEN test' = "stop" /\ Posted("stop")
                         ELSE test' = "joining" /\ UNCHANGED jobs
    /\ UNCHANGED <<sessionVars, callVars, current, closedByClient, seen>>

\* The timeout is that of a coroutine that has begun: the loop runs what is
\* posted to it sooner.
JobTimesOut(j) ==
    /\ test = j /\ jobs[j] = "running"
    /\ IF j = "graceful" THEN test' = "stop" /\ Posted("stop")
                         ELSE test' = "joining" /\ UNCHANGED jobs
    /\ UNCHANGED <<sessionVars, callVars, current, closedByClient, seen>>

\* thread.join(), which may time out. That is after the attempt to connect, which
\* has the same timeout and began much earlier.
Join ==
    /\ test = "joining"
    /\ worker # "connecting"
    /\ test' = "releasing"
    /\ UNCHANGED <<sessionVars, callVars, current,
                   closedByClient, seen, jobs>>

\* Defect: the server is left to close_connection(), which may find it cleared.
ReleaseWithoutKill ==
    /\ test = "releasing"
    /\ res' = {}
    /\ test' = "over"
    /\ UNCHANGED <<stdio, worker, ended, startVars, linkVars, callVars, current,
                   closedByClient, seen, jobs>>

\* The backstop: a server that is still in the resources is killed.
Release ==
    /\ test = "releasing"
    /\ process' = IF "process" \in res THEN "exited" ELSE process
    /\ res' = {}
    /\ test' = "over"
    /\ UNCHANGED <<stdio, worker, ended, startVars, peer, conn, callVars, current,
                   closedByClient, seen, jobs>>

-----------------------------------------------------------------------------
(* The other side *)

\* A killed server's pipes end, and so does the connection.
ConnectionEnds ==
    /\ peer = "up" /\ worker \in LoopRuns
    /\ peer' = "down" /\ conn' = "closed"
    /\ UNCHANGED <<stdio, res, worker, ended, startVars, process, callVars, testVars, jobs>>

ProcessExits ==
    /\ process = "running"
    /\ process' = "exited"
    /\ UNCHANGED <<stdio, res, worker, ended, startVars, peer, conn, callVars, testVars, jobs>>

-----------------------------------------------------------------------------

WorkerStep ==
    \/ Boot \/ Connect \/ ConnectFails \/ PeerCompletes
    \/ CloseConnection \/ CloseWriter \/ ReadProcess \/ ReapProcess \/ Clear \/ CancelTasks
    \/ CloseLoop \/ End \/ FailStranded
    \/ peer = "down" /\ HandshakeFails

TaskStep ==
    \/ StopPeer \/ \E c \in Calls : RunCall(c) \/ CallReturns(c) \/ CallFails(c)
    \/ \E j \in Jobs : StartJob(j)

TestStep ==
    \/ Started \/ ReadResources \/ Join \/ Release
    \/ \E j \in Jobs : JobIsOver(j)

SessionStep ==
    \/ WorkerStep \/ TaskStep \/ TestStep
    \/ Start \/ HandshakeSucceeds \/ HandshakeFails \/ GracefulEnds
    \/ ConnectionEnds \/ ProcessExits
    \/ \E c \in Calls : ResponseArrives(c) \/ WriteFails(c)
    \/ \E j \in Jobs : JobTimesOut(j)

KeywordStep == \E c \in Calls : Submit(c) \/ Schedule(c) \/ Return(c) \/ Cancel(c)

Next == SessionStep \/ KeywordStep \/ Stop

Spec == Init /\ [][Next]_vars

\* Both threads go on, the loop runs what is posted to it, timeouts pass, and a
\* server that was killed closes its pipes. Nothing is assumed of answers.
FairSpec ==
    /\ Spec
    /\ WF_vars(WorkerStep) /\ WF_vars(TestStep)
    /\ \A c \in Calls : WF_vars(Schedule(c) \/ Return(c))
    /\ WF_vars(StopPeer)
    /\ \A c \in Calls : WF_vars(RunCall(c)) /\ WF_vars(CallReturns(c)) /\ WF_vars(CallFails(c))
    /\ \A j \in Jobs : WF_vars(StartJob(j))
    /\ WF_vars(JobTimesOut("graceful"))
    /\ WF_vars(process = "exited" /\ ConnectionEnds)

-----------------------------------------------------------------------------
(* What the session promises: it is a SessionLifecycle. *)

\* Defect: only the worker's end is a loss.
LostAtTheEnd == token /\ ~closedByClient /\ ended

\* The property `lost` of the session.
Lost == token /\ ~closedByClient /\ (ended \/ "peer" \notin res \/ peer # "up")

Phase ==
    CASE closedByClient -> "stopped"
      [] ~closedByClient /\ ~token -> "starting"
      [] ~closedByClient /\ token -> IF Lost THEN "lost" ELSE "up"

\* A call that waits is open, one that is refused has failed.
CallState(call) ==
    CASE call \in {"queued", "running"} -> "open"
      [] call = "done" -> "answered"
      [] call = "refused" -> "failed"
      [] call \in {"new", "received", "broken", "raised", "failed", "cancelled"} -> call

Lifecycle == INSTANCE SessionLifecycle WITH
    phase <- Phase,
    call <- [c \in Calls |-> CallState(calls[c])]

\* Whatever the two threads and the tasks on the loop do in between, a call ends
\* once; it is answered if its response has come before the loss, and fails after
\* it, or by its own write; and stop() meets no call that is open.
SessionLifecycleSpec == Lifecycle!Spec

-----------------------------------------------------------------------------
(* Properties *)

\* run_keyword() of the library tells a lost session from a failed call by
\* `lost`: a call that the closure fails, or the end of the worker, finds the session
\* lost, unless the client has closed it. A call that has "raised" need not.
FailedCallFindsLoss ==
    \A c \in Calls : calls[c] \in {"refused", "failed"} => Lost \/ closedByClient

\* "the client SHALL close the connection it opened before it reports the
\* failure", and the spawned server has exited (openspec/specs/client/spec.md).
FailedStartReleases ==
    initialized /\ startError /\ ~closedByClient => conn # "open" /\ process # "running"

\* "It SHALL NOT leave behind a coroutine or task that Python reports as never
\* awaited or as destroyed while pending" (openspec/specs/client/spec.md): no
\* coroutine of the teardown is on the loop when that is closed.
NoJobDestroyed == worker \in LoopClosed => \A j \in Jobs : jobs[j] # "running"

\* "a call that the worker never runs, because it ends first, fails" (submit()),
\* and "it SHALL NOT wait forever" (openspec/specs/client/spec.md): a call that
\* runs when the connection ends, or was handed over to a loop that ends, returns.
CallsReturn == test = "calling" /\ peer = "down" ~> test # "calling"

Gone == worker = "over" /\ conn # "open" /\ process # "running"

\* The peer has come up after _finalize_session() had read that there is none.
PeerWasLate == test \notin {"starting", "finalizing"} /\ "peer" \notin seen /\ peer # "none"

\* Stopping a session returns, also if its worker ends under it, and the session
\* ends: its thread, its connection and its server. Only a peer that has come up
\* in the middle of that is overlooked.
SessionEnds == closedByClient ~> test = "over" /\ (Gone \/ PeerWasLate)

\* "Leave no worker thread or half-open connection behind" (_connect()): the
\* same of a session whose start has timed out, without that exception.
TimedOutStartEnds == closedByClient /\ ~token ~> Gone

=============================================================================
