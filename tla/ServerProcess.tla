--------------------------- MODULE ServerProcess ---------------------------
(***************************************************************************)
(* The process of the server: the main thread starts the server thread,    *)
(* runs Robot Framework until it is stopped, and then stops the transport; *)
(* the server thread owns the event loop and the client connections. They  *)
(* share two events, the stop hook and the runner's stop flag.             *)
(***************************************************************************)
CONSTANTS
    Modes,     \* the transports that the command line may choose
    Clients,   \* the connections; only one is made in stdio mode
    Phases     \* where SIGINT finds the main thread

ASSUME ModesAreKnown == Modes \subseteq {"tcp", "stdio"}
ASSUME PhasesAreKnown ==
    Phases \subseteq {"starting", "checking", "checkingStop", "booting", "running"}

VARIABLES
    mode,        \* the transport: "tcp" or "stdio"
    main,        \* where the main thread is
    srv,         \* where the server thread is
    started,     \* _server_started_event
    stopEvent,   \* _server_stop_event
    hook,        \* whether _loop and _stop_callable are set
    stopped,     \* the stop flag of the runner
    drained,     \* the runner has ended and failed what was queued
    closer,      \* where close_clients() is
    snapshot,    \* the clients that it has found
    awaited,     \* those whose wait_idle() has not returned
    conn,        \* the connections
    request,     \* the request of the connection that needs the runner
    signalled    \* SIGINT comes once

clientVars == <<closer, snapshot, awaited, conn, request>>
eventVars  == <<started, stopEvent, hook>>
vars == <<mode, main, srv, eventVars, stopped, drained, clientVars, signalled>>

Failed == {"failed", "raised", "interrupted"}   \* the exit code is not 0

MainStates ==
    {"starting", "checking", "checkingStop", "booting", "running", "leaving", "posting",
     "waiting", "exited"} \cup Failed

TypeOK ==
    /\ mode \in Modes
    /\ main \in MainStates
    /\ srv \in {"start", "hooked", "announced", "serving", "closing", "cleared", "stopSet",
                "waitClosed", "ended"}
    /\ started \in BOOLEAN /\ stopEvent \in BOOLEAN /\ hook \in BOOLEAN
    /\ stopped \in BOOLEAN /\ drained \in BOOLEAN /\ signalled \in BOOLEAN
    /\ closer \in {"none", "requested", "idle", "ending", "done"}
    /\ awaited \subseteq snapshot /\ snapshot \subseteq Clients
    /\ conn \in [Clients -> {"none", "accepted", "late", "served", "told", "lost", "gone"}]
    /\ request \in [Clients -> {"none", "waiting", "dropped"}]

Init ==
    /\ mode \in Modes
    /\ main = "starting" /\ srv = "start"
    /\ started = FALSE /\ stopEvent = FALSE /\ hook = FALSE
    /\ stopped = FALSE /\ drained = FALSE /\ signalled = FALSE
    /\ closer = "none" /\ snapshot = {} /\ awaited = {}
    /\ conn = [c \in Clients |-> "none"]
    /\ request = [c \in Clients |-> "none"]

-----------------------------------------------------------------------------
(* The main thread: run() and stop_server(). *)

\* Defect: the main thread waits no longer than its timeout.
AwaitUpOnce ==
    /\ main = "starting"
    /\ main' = "checking"
    /\ UNCHANGED <<mode, srv, eventVars, stopped, drained, clientVars, signalled>>

\* The wait ends when the started event has been set, which the server thread
\* may have cleared again, or with that thread.
AwaitUp ==
    /\ main = "starting"
    /\ srv \notin {"start", "hooked"}
    /\ main' = "checking"
    /\ UNCHANGED <<mode, srv, eventVars, stopped, drained, clientVars, signalled>>

\* _server_has_been_up() reads one event after the other.
CheckStarted ==
    /\ main = "checking"
    /\ main' = IF started THEN "booting" ELSE "checkingStop"
    /\ UNCHANGED <<mode, srv, eventVars, stopped, drained, clientVars, signalled>>

CheckStop ==
    /\ main = "checkingStop"
    /\ main' = IF stopEvent THEN "booting" ELSE "failed"
    /\ UNCHANGED <<mode, srv, eventVars, stopped, drained, clientVars, signalled>>

\* Robot Framework has installed its signal handlers and runs the hook loop.
BeginHookLoop ==
    /\ main = "booting"
    /\ main' = "running"
    /\ UNCHANGED <<mode, srv, eventVars, stopped, drained, clientVars, signalled>>

\* Defect: the transport is stopped before the runner has ended.
EndHookLoopUndrained ==
    /\ main = "running"
    /\ stopped
    /\ main' = "leaving"
    /\ UNCHANGED <<mode, srv, eventVars, stopped, drained, clientVars, signalled>>

EndHookLoop ==
    /\ main = "running"
    /\ stopped
    /\ main' = "leaving"
    /\ drained' = TRUE
    /\ UNCHANGED <<mode, srv, eventVars, stopped, clientVars, signalled>>

\* A command raises SystemExit, or another exception that is no Exception: the
\* runner ends with it, and nobody completes its future.
CommandExits(c) ==
    /\ main = "running"
    /\ request[c] = "waiting"
    /\ main' = "leaving"
    /\ drained' = TRUE
    /\ request' = [request EXCEPT ![c] = "dropped"]
    /\ UNCHANGED <<mode, srv, eventVars, stopped, closer, snapshot, awaited, conn, signalled>>

\* SIGINT sets the stop flag only while Robot Framework handles the signals.
\* Before, it is a KeyboardInterrupt, which run() catches around the runner.
Interrupt ==
    /\ main \in Phases
    /\ ~signalled
    /\ signalled' = TRUE
    /\ \/ main = "running" /\ stopped' = TRUE /\ UNCHANGED main
       \/ main = "booting" /\ main' = "leaving" /\ UNCHANGED stopped
       \/ main \notin {"running", "booting"} /\ main' = "interrupted" /\ UNCHANGED stopped
    /\ UNCHANGED <<mode, srv, eventVars, drained, clientVars>>

ReadHook ==
    /\ main = "leaving"
    /\ main' = IF hook THEN "posting" ELSE "waiting"
    /\ UNCHANGED <<mode, srv, eventVars, stopped, drained, clientVars, signalled>>

\* call_soon_threadsafe() raises when the loop is closed.
PostStop ==
    /\ main = "posting"
    /\ IF srv = "ended"
       THEN main' = "raised" /\ UNCHANGED closer
       ELSE main' = "waiting" /\ closer' = "requested"
    /\ UNCHANGED <<mode, srv, eventVars, stopped, drained, snapshot, awaited, conn, request, signalled>>

\* Both waits, for the stop event and for the thread, end with their timeout.
Exit ==
    /\ main = "waiting"
    /\ main' = "exited"
    /\ UNCHANGED <<mode, srv, eventVars, stopped, drained, clientVars, signalled>>

-----------------------------------------------------------------------------
(* The server thread: run_tcp_server() and run_stdio_server(). *)

StartFails ==
    /\ srv = "start"
    /\ srv' = "ended"
    /\ UNCHANGED <<mode, main, eventVars, stopped, drained, clientVars, signalled>>

\* In stdio mode, the task of the client is scheduled before the hook is set.
Listen ==
    /\ srv = "start"
    /\ srv' = "hooked"
    /\ hook' = TRUE
    /\ IF mode = "stdio" THEN \E c \in Clients : conn' = [conn EXCEPT ![c] = "accepted"]
                         ELSE UNCHANGED conn
    /\ UNCHANGED <<mode, main, started, stopEvent, stopped, drained, closer, snapshot, awaited, request,
                   signalled>>

SetStarted ==
    /\ srv = "hooked"
    /\ srv' = "announced"
    /\ started' = TRUE
    /\ UNCHANGED <<mode, main, stopEvent, hook, stopped, drained, clientVars, signalled>>

ClearStop ==
    /\ srv = "announced"
    /\ srv' = "serving"
    /\ stopEvent' = FALSE
    /\ UNCHANGED <<mode, main, started, hook, stopped, drained, clientVars, signalled>>

\* The transport ends: after close_clients() in TCP mode, and whenever its only
\* client is gone in stdio mode.
TransportEnds ==
    /\ IF mode = "tcp" THEN srv = "closing" /\ closer = "done"
       ELSE srv = "serving" /\ \E c \in Clients : conn[c] = "gone"
    /\ srv' = "cleared"
    /\ hook' = FALSE /\ started' = FALSE
    /\ UNCHANGED <<mode, main, stopEvent, stopped, drained, clientVars, signalled>>

SetStop ==
    /\ srv = "cleared"
    /\ srv' = "stopSet"
    /\ stopEvent' = TRUE
    /\ UNCHANGED <<mode, main, started, hook, stopped, drained, clientVars, signalled>>

\* Defect: the end of the only client does not stop the runner.
LeaveRunnerRunning ==
    /\ srv = "stopSet"
    /\ srv' = "waitClosed"
    /\ UNCHANGED <<mode, main, eventVars, stopped, drained, clientVars, signalled>>

\* In stdio mode, the runner ends with the client.
LeaveTransport ==
    /\ srv = "stopSet"
    /\ srv' = "waitClosed"
    /\ stopped' = (stopped \/ mode = "stdio")
    /\ UNCHANGED <<mode, main, eventVars, drained, clientVars, signalled>>

\* Since Python 3.12.1, leaving `async with server` waits for the connections.
EndThread ==
    /\ srv = "waitClosed"
    /\ \A c \in Clients : conn[c] \in {"none", "gone"}
    /\ srv' = "ended"
    /\ UNCHANGED <<mode, main, eventVars, stopped, drained, clientVars, signalled>>

-----------------------------------------------------------------------------
(* The tasks of the event loop: handle_client() and close_clients(). *)

LoopRuns == srv = "serving" \/ (mode = "tcp" /\ srv \in {"closing", "waitClosed"})

\* The task of a connection that is accepted before the stop is scheduled runs
\* before it; the task of a later one may run after it.
Accept(c) ==
    /\ mode = "tcp" /\ srv = "serving"
    /\ conn[c] = "none"
    /\ conn' = [conn EXCEPT ![c] = IF closer = "none" THEN "accepted" ELSE "late"]
    /\ UNCHANGED <<mode, main, srv, eventVars, stopped, drained, closer, snapshot, awaited, request,
                   signalled>>

\* The first step of handle_client(): from now on the client is in _clients.
ServeClient(c) ==
    /\ LoopRuns
    /\ conn[c] \in {"accepted", "late"}
    /\ conn' = [conn EXCEPT ![c] = "served"]
    /\ UNCHANGED <<mode, main, srv, eventVars, stopped, drained, closer, snapshot, awaited, request,
                   signalled>>

\* A request that needs the runner. Once that is stopped, it is refused in the
\* same step, and nothing changes.
Request(c) ==
    /\ LoopRuns
    /\ conn[c] = "served" /\ request[c] = "none"
    /\ ~stopped /\ ~drained
    /\ request' = [request EXCEPT ![c] = "waiting"]
    /\ UNCHANGED <<mode, main, srv, eventVars, stopped, drained, closer, snapshot, awaited, conn,
                   signalled>>

\* The runner has run the command without exiting, or its end has failed it.
Answer(c) ==
    /\ LoopRuns
    /\ request[c] = "waiting"
    /\ main = "running" \/ drained
    /\ request' = [request EXCEPT ![c] = "none"]
    /\ UNCHANGED <<mode, main, srv, eventVars, stopped, drained, closer, snapshot, awaited, conn,
                   signalled>>

Disconnect(c) ==
    /\ LoopRuns
    /\ conn[c] = "served"
    /\ conn' = [conn EXCEPT ![c] = "lost"]
    /\ UNCHANGED <<mode, main, srv, eventVars, stopped, drained, closer, snapshot, awaited, request,
                   signalled>>

\* handle_client() has finalized the libraries and closed the connection.
EndClient(c) ==
    /\ LoopRuns
    /\ conn[c] \in {"lost", "told"}
    /\ conn' = [conn EXCEPT ![c] = "gone"]
    /\ UNCHANGED <<mode, main, srv, eventVars, stopped, drained, closer, snapshot, awaited, request,
                   signalled>>

Registered == {c \in Clients : conn[c] \in {"served", "lost", "told"}}

\* Defect: every client is waited for, also one that is not there.
CloseClientsAwaitAll ==
    /\ srv = "serving"
    /\ closer = "requested"
    /\ \A c \in Clients : conn[c] # "accepted"
    /\ snapshot' = Registered /\ awaited' = Clients
    /\ closer' = IF Registered = {} THEN "done" ELSE "idle"
    /\ IF mode = "tcp" THEN srv' = "closing" /\ hook' = FALSE ELSE UNCHANGED <<srv, hook>>
    /\ UNCHANGED <<mode, main, started, stopEvent, stopped, drained, conn, request, signalled>>

\* The stop hook. In TCP mode it also closes the listener and clears the hook.
CloseClients ==
    /\ srv = "serving"
    /\ closer = "requested"
    /\ \A c \in Clients : conn[c] # "accepted"
    /\ snapshot' = Registered /\ awaited' = Registered
    /\ closer' = IF Registered = {} THEN "done" ELSE "idle"
    /\ IF mode = "tcp" THEN srv' = "closing" /\ hook' = FALSE ELSE UNCHANGED <<srv, hook>>
    /\ UNCHANGED <<mode, main, started, stopEvent, stopped, drained, conn, request, signalled>>

\* wait_idle() of a client returns; it is not looked at again.
FindIdle(c) ==
    /\ LoopRuns
    /\ closer = "idle"
    /\ c \in awaited /\ request[c] = "none"
    /\ awaited' = awaited \ {c}
    /\ UNCHANGED <<mode, main, srv, eventVars, stopped, drained, closer, snapshot, conn, request, signalled>>

\* Defect: the connections are not ended.
LeaveConnections ==
    /\ LoopRuns
    /\ closer = "idle"
    /\ ~drained \/ \A c \in awaited : request[c] = "dropped"
    /\ closer' = "ending"
    /\ UNCHANGED <<mode, main, srv, eventVars, stopped, drained, snapshot, awaited, conn, request, signalled>>

\* The grace period ends only where the answers do not come by themselves.
EndConnections ==
    /\ LoopRuns
    /\ closer = "idle"
    /\ ~drained \/ \A c \in awaited : request[c] = "dropped"
    /\ closer' = "ending"
    /\ conn' = [c \in Clients |->
                  IF c \in snapshot /\ conn[c] = "served" THEN "told" ELSE conn[c]]
    /\ UNCHANGED <<mode, main, srv, eventVars, stopped, drained, snapshot, awaited, request, signalled>>

\* The clients have ended, or the grace period for that is over: then the stdio
\* transport cancels the task of its client.
FinishClosing ==
    /\ LoopRuns
    /\ closer = "ending"
    /\ closer' = "done"
    /\ conn' = [c \in Clients |->
                  IF mode = "stdio" /\ conn[c] # "none" THEN "gone" ELSE conn[c]]
    /\ UNCHANGED <<mode, main, srv, eventVars, stopped, drained, snapshot, awaited, request, signalled>>

-----------------------------------------------------------------------------

MainStep ==
    \/ AwaitUp \/ CheckStarted \/ CheckStop \/ BeginHookLoop \/ EndHookLoop
    \/ ReadHook \/ PostStop \/ Exit

ThreadStep ==
    \/ StartFails \/ Listen \/ SetStarted \/ ClearStop
    \/ TransportEnds \/ SetStop \/ LeaveTransport \/ EndThread
    \/ CloseClients \/ EndConnections \/ FinishClosing

ClientStep(c) == ServeClient(c) \/ Answer(c) \/ EndClient(c) \/ FindIdle(c)

Next ==
    \/ MainStep \/ ThreadStep \/ Interrupt
    \/ \E c \in Clients : ClientStep(c) \/ Accept(c) \/ Request(c) \/ CommandExits(c) \/ Disconnect(c)

Spec == Init /\ [][Next]_vars

\* Both threads go on, and so does what is scheduled on the loop; whether clients
\* come, ask and leave is up to them. Without a runner, the end of a client may
\* wait for ever to finalize its libraries.
FairSpec ==
    /\ Spec
    /\ WF_vars(MainStep) /\ WF_vars(ThreadStep)
    /\ \A c \in Clients :
         /\ WF_vars(ServeClient(c)) /\ WF_vars(Answer(c)) /\ WF_vars(FindIdle(c))
         /\ WF_vars((main = "running" \/ drained) /\ EndClient(c))

-----------------------------------------------------------------------------
(* Properties *)

StartFailed == srv = "ended" /\ ~stopEvent

\* "Whether the server has been up: a transport sets the stop event only when it
\* ends after being up" (_server_has_been_up()): in TCP mode, run() reports
\* a failed start only if the start has failed, and goes on only if it has not.
FailureIsReal == mode = "tcp" =>
    /\ main = "failed" => StartFailed
    /\ main \in {"booting", "running", "leaving", "posting", "waiting", "exited"} => ~StartFailed

\* "The server SHALL deliver its result to the client before it closes that
\* client's connection": close_clients() ends no connection with a request that
\* still waits for its answer, although new ones come while it waits. Only the
\* request whose command has ended the runner gets none: it is dropped.
NoRequestCutOff == \A c \in Clients : conn[c] = "told" => request[c] # "waiting"

Over == main \in Failed \cup {"exited"} /\ srv = "ended"
Overlooked(c) == srv = "waitClosed" /\ conn[c] \in {"late", "served"} /\ c \notin snapshot

\* Once the runner is stopped, by a signal or by the end of the stdio client, or
\* has ended with the exit of a command that nobody will answer, the process
\* ends, unless close_clients() has overlooked a connection; and "the
\* server starts, sees the end of its input and exits" (openspec/specs/server/
\* spec.md): the end of the stdio transport takes the main thread with it, wherever
\* that is.
StopEndsProcess ==
    stopped \/ drained \/ (mode = "stdio" /\ srv = "cleared")
        ~> Over \/ \E c \in Clients : Overlooked(c)

\* "When the server is asked to stop (SIGTERM or SIGINT) [...] the process SHALL
\* exit" (openspec/specs/server/spec.md).
SignalEndsProcess == signalled ~> Over

=============================================================================
