---------------------------- MODULE JsonRpcPeer ----------------------------
(***************************************************************************)
(* One JsonRpcPeer of packages/jsonrpcpeer: the callers that send requests *)
(* over it, its read loop, the tasks that handle incoming messages, and    *)
(* stop(), all on one asyncio event loop. A step is what the loop runs     *)
(* between two suspension points; the other side and the transport may     *)
(* act between any two steps.                                              *)
(***************************************************************************)
EXTENDS Naturals, Sequences

CONSTANTS
    Callers,        \* tasks that call send_request(), one request at a time
    Stoppers,       \* tasks that call stop()
    Inbound,        \* the requests that the other side sends
    None,           \* no caller
    MaxRequests,    \* bound on the number of requests sent
    MaxIncoming,    \* bound on the messages received and not yet handled
    AutoClose,      \* the auto_close option
    RequestTimeout  \* whether the request_timeout option is set

ASSUME NoneIsNoCaller == None \notin Callers
ASSUME BoundsAreNaturals == MaxRequests \in Nat /\ MaxIncoming \in Nat
ASSUME OptionsAreBooleans == AutoClose \in BOOLEAN /\ RequestTimeout \in BOOLEAN

VARIABLES
    running, closed,    \* the flags of the peer
    completion,         \* the completion future
    readTask,           \* the task of io_loop()
    readCancelled,      \* a cancellation that the task has not received yet
    nextId, pending,    \* _id_counter and _pending_requests
    call,               \* per caller: the local state of send_request_typed()
    tasks,              \* started handle_message tasks that have not run yet
    handler,            \* the handler task of each inbound request
    stopPc,             \* where each stop() is
    incoming, stream,   \* the content of the StreamReader, and how it ends
    asked,              \* the requests that the other side has received
    writer              \* the StreamWriter

readVars == <<readTask, readCancelled>>
endVars  == <<closed, completion, pending, call, writer>>
workVars == <<tasks, handler, stopPc>>
linkVars == <<incoming, stream, asked>>
vars == <<running, readVars, endVars, nextId, workVars, linkVars>>

Ids == 1..MaxRequests
Requests == [id : Ids, by : Callers]
Responses == [kind : {"result", "error"}, id : Ids, by : Callers]
Messages == Responses \cup [kind : {"request"}, key : Inbound]

\* `fut` is the future of the request, `value` whose answer is in it,
\* `outcome` how the last request ended.
CallStates == [pc : {"idle", "sending", "waiting", "timeout", "cancelled"},
               id : Ids \cup {0},
               fut : {"none", "pending", "result", "error", "closed", "cancelled"},
               value : Callers \cup {None},
               outcome : {"none", "result", "error", "closed", "encodeError", "writeError",
                          "timeout", "cancelled"}]

TypeOK ==
    /\ running \in BOOLEAN /\ closed \in BOOLEAN /\ readCancelled \in BOOLEAN
    /\ completion \in {"unset", "clean", "error"}
    /\ readTask \in {"none", "created", "reading", "closing", "ended"}
    /\ nextId \in 1..(MaxRequests + 1)
    /\ pending \in [Ids -> Callers \cup {None}]
    /\ call \in [Callers -> CallStates]
    /\ tasks \in Seq(Messages) /\ incoming \in Seq(Messages)
    /\ handler \in [Inbound -> {"none", "sent", "running", "draining", "cancelling", "ended"}]
    /\ stopPc \in [Stoppers -> {"idle", "awaitRead", "awaitInflight", "done"}]
    /\ stream \in {"open", "eof", "cut", "reset"}
    /\ asked \in SUBSET Requests
    /\ writer \in {"open", "closing", "closed"}

NoCall == [pc |-> "idle", id |-> 0, fut |-> "none", value |-> None, outcome |-> "none"]

Init ==
    /\ running = FALSE /\ closed = FALSE /\ readCancelled = FALSE
    /\ completion = "unset" /\ readTask = "none"
    /\ nextId = 1
    /\ pending = [i \in Ids |-> None]
    /\ call = [c \in Callers |-> NoCall]
    /\ tasks = <<>> /\ incoming = <<>>
    /\ handler = [m \in Inbound |-> "none"]
    /\ stopPc = [s \in Stoppers |-> "idle"]
    /\ stream = "open" /\ writer = "open"
    /\ asked = {}

-----------------------------------------------------------------------------
(* Ending the peer: _finish() and _mark_closed(). *)

\* Defect: only the requests that wait for a response are failed, not the ones
\* that are still being written.
MarkClosedKeepsSending ==
    /\ closed' = TRUE
    /\ pending' = [i \in Ids |-> None]
    /\ call' = [c \in Callers |->
                  IF call[c].fut = "pending" /\ call[c].pc = "waiting"
                  THEN [call[c] EXCEPT !.fut = "closed"] ELSE call[c]]

MarkClosed ==
    /\ closed' = TRUE
    /\ pending' = [i \in Ids |-> None]
    /\ call' = [c \in Callers |->
                  IF call[c].fut = "pending" /\ \E i \in Ids : pending[i] = c
                  THEN [call[c] EXCEPT !.fut = "closed"] ELSE call[c]]

\* `how` is how the completion resolves, if nothing has resolved it before.
Finish(how) ==
    /\ running' = FALSE
    /\ MarkClosed
    /\ completion' = IF completion = "unset" THEN how ELSE completion
    /\ writer' = IF AutoClose /\ writer = "open" THEN "closing" ELSE writer

\* The end of io_loop(): its task goes on until the writer has closed.
EndReading(how) ==
    /\ Finish(how)
    /\ readTask' = IF AutoClose THEN "closing" ELSE "ended"
    /\ readCancelled' = FALSE

-----------------------------------------------------------------------------
(* start() and the read loop. *)

Start ==
    /\ readTask = "none"
    /\ ~closed
    /\ \A s \in Stoppers : stopPc[s] = "idle"
    /\ running' = TRUE
    /\ readTask' = "created"
    /\ UNCHANGED <<readCancelled, endVars, nextId, workVars, linkVars>>

\* The first step of the task: it enters the loop, unless the connection was
\* ended in between.
BeginReading ==
    /\ readTask = "created"
    /\ ~readCancelled
    /\ \/ running /\ readTask' = "reading" /\ UNCHANGED <<running, readCancelled, endVars>>
       \/ ~running /\ EndReading("clean")
    /\ UNCHANGED <<nextId, workVars, linkVars>>

\* One message is read and a task for it is started; then the loop looks at
\* `running` again.
ReadMessage ==
    /\ readTask = "reading"
    /\ ~readCancelled
    /\ stream # "reset"
    /\ incoming # <<>>
    /\ incoming' = Tail(incoming)
    /\ tasks' = Append(tasks, Head(incoming))
    /\ \/ running /\ UNCHANGED <<running, readVars, endVars>>
       \/ ~running /\ EndReading("clean")
    /\ UNCHANGED <<nextId, handler, stopPc, stream, asked>>

\* The stream ends: cleanly, within a message, or with an error.
ReadEnd ==
    /\ readTask = "reading"
    /\ ~readCancelled
    /\ stream = "reset" \/ (stream \in {"eof", "cut"} /\ incoming = <<>>)
    /\ EndReading(IF stream = "eof" THEN "clean" ELSE "error")
    /\ UNCHANGED <<nextId, workVars, linkVars>>

\* A task that is cancelled before its first step never runs at all; one that
\* waits for the writer stops waiting.
ReadCancelled ==
    /\ readCancelled
    /\ \/ readTask = "reading" /\ EndReading("clean")
       \/ /\ readTask \in {"created", "closing"}
          /\ readTask' = "ended"
          /\ readCancelled' = FALSE
          /\ UNCHANGED <<running, endVars>>
    /\ UNCHANGED <<nextId, workVars, linkVars>>

CloseWaited ==
    /\ readTask = "closing"
    /\ writer = "closed"
    /\ readTask' = "ended"
    /\ readCancelled' = FALSE
    /\ UNCHANGED <<running, endVars, nextId, workVars, linkVars>>

-----------------------------------------------------------------------------
(* Requests: send_request_typed(). *)

RefuseRequest(c) ==
    /\ call[c].pc = "idle"
    /\ closed
    /\ call' = [call EXCEPT ![c] = [@ EXCEPT !.outcome = "closed"]]
    /\ UNCHANGED <<running, readVars, closed, completion, pending, writer, nextId,
                   workVars, linkVars>>

\* Defect: the id of a request that is no longer pending is used again.
SendReusingIds(c) ==
    /\ call[c].pc = "idle"
    /\ ~closed
    /\ \E i \in Ids :
         /\ pending[i] = None
         /\ \A j \in 1..(i - 1) : pending[j] # None
         /\ pending' = [pending EXCEPT ![i] = c]
         /\ call' = [call EXCEPT ![c] = [pc |-> "sending", id |-> i, fut |-> "pending",
                                         value |-> None, outcome |-> "none"]]
         /\ asked' = IF writer = "open" THEN asked \cup {[id |-> i, by |-> c]} ELSE asked
    /\ UNCHANGED <<running, readVars, closed, completion, writer, nextId, workVars, incoming, stream>>

\* Registered and written in one step; a writer that closes drops the frame.
SendRequest(c) ==
    /\ call[c].pc = "idle"
    /\ ~closed
    /\ nextId <= MaxRequests
    /\ nextId' = nextId + 1
    /\ pending' = [pending EXCEPT ![nextId] = c]
    /\ call' = [call EXCEPT ![c] = [pc |-> "sending", id |-> nextId, fut |-> "pending",
                                    value |-> None, outcome |-> "none"]]
    /\ asked' = IF writer = "open" THEN asked \cup {[id |-> nextId, by |-> c]} ELSE asked
    /\ UNCHANGED <<running, readVars, closed, completion, writer, workVars, incoming, stream>>

\* The message cannot be serialized or is too long: its id is spent, and its
\* entry in the table is gone again within the step.
EncodeFails(c) ==
    /\ call[c].pc = "idle"
    /\ ~closed
    /\ nextId <= MaxRequests
    /\ nextId' = nextId + 1
    /\ call' = [call EXCEPT ![c] = [@ EXCEPT !.outcome = "encodeError"]]
    /\ UNCHANGED <<running, readVars, closed, completion, pending, writer, workVars, linkVars>>

\* drain() returns.
RequestDrained(c) ==
    /\ call[c].pc = "sending"
    /\ writer # "closed"
    /\ call' = [call EXCEPT ![c] = [@ EXCEPT !.pc = "waiting"]]
    /\ UNCHANGED <<running, readVars, closed, completion, pending, writer, nextId,
                   workVars, linkVars>>

\* The call ends; finally: self._pending_requests.pop(id_str, None)
Leave(c, how) ==
    /\ pending' = [pending EXCEPT ![call[c].id] = None]
    /\ call' = [call EXCEPT ![c] = [@ EXCEPT !.pc = "idle", !.fut = "none", !.outcome = how]]
    /\ UNCHANGED <<running, readVars, closed, completion, writer, nextId, workVars, linkVars>>

\* Defect: the error of the write is always the one that is reported.
DrainErrorWins(c) ==
    /\ call[c].pc = "sending"
    /\ writer = "closed" \/ stream = "reset"
    /\ Leave(c, "writeError")

\* drain() raises: the connection was lost. A closure that has already failed
\* the request is reported instead.
RequestDrainFails(c) ==
    /\ call[c].pc = "sending"
    /\ writer = "closed" \/ stream = "reset"
    /\ Leave(c, IF call[c].fut = "closed" THEN "closed" ELSE "writeError")

\* Defect: the caller runs on without its future being done.
AnsweredEarly(c) ==
    /\ call[c].pc = "waiting"
    /\ Leave(c, call[c].fut)

\* The future is done, and its caller runs again.
RequestAnswered(c) ==
    /\ call[c].pc = "waiting"
    /\ call[c].fut \in {"result", "error", "closed"}
    /\ Leave(c, call[c].fut)

\* A timeout or a cancellation cancels the future that the caller waits for.
\* The caller itself runs later: a response may still come in between.
InterruptRequest(c, how) ==
    /\ call[c].pc = "waiting" \/ (how = "cancelled" /\ call[c].pc = "sending")
    /\ how = "timeout" => RequestTimeout
    /\ LET cancels == call[c].pc = "waiting" /\ call[c].fut = "pending" IN
       call' = [call EXCEPT ![c] =
                  [@ EXCEPT !.pc = how, !.fut = IF cancels THEN "cancelled" ELSE call[c].fut]]
    /\ UNCHANGED <<running, readVars, closed, completion, pending, writer, nextId,
                   workVars, linkVars>>

AbandonRequest(c) ==
    /\ call[c].pc \in {"timeout", "cancelled"}
    /\ Leave(c, call[c].pc)

-----------------------------------------------------------------------------
(* Handling incoming messages. *)

\* _handle_response(): the response goes to the request with its id, if that
\* one still waits.
HandleResponse(msg) ==
    LET c == pending[msg.id]
        waits == c # None /\ call[c].fut = "pending"
    IN  /\ pending' = [pending EXCEPT ![msg.id] = None]
        /\ call' = IF waits
                   THEN [call EXCEPT ![c] = [@ EXCEPT !.fut = msg.kind, !.value = msg.by]]
                   ELSE call

\* The first step of the oldest task. The handler of a request goes on from here.
RunTask ==
    /\ tasks # <<>>
    /\ tasks' = Tail(tasks)
    /\ LET msg == Head(tasks) IN
       \/ /\ msg.kind = "request"
          /\ handler' = [handler EXCEPT ![msg.key] = "running"]
          /\ UNCHANGED <<pending, call>>
       \/ /\ msg.kind # "request"
          /\ HandleResponse(msg)
          /\ UNCHANGED handler
    /\ UNCHANGED <<running, readVars, closed, completion, writer, nextId, stopPc, linkVars>>

\* The handler returns or raises; its answer is written in the same step.
HandlerReturns(m) ==
    /\ handler[m] = "running"
    /\ handler' = [handler EXCEPT ![m] = "draining"]
    /\ UNCHANGED <<running, readVars, endVars, nextId, tasks, stopPc, linkVars>>

\* The answer is drained, which may fail without consequence, or the task
\* receives its cancellation.
HandlerEnds(m) ==
    /\ handler[m] \in {"draining", "cancelling"}
    /\ handler' = [handler EXCEPT ![m] = "ended"]
    /\ UNCHANGED <<running, readVars, endVars, nextId, tasks, stopPc, linkVars>>

-----------------------------------------------------------------------------
(* stop() *)

Alive == {"running", "draining", "cancelling"}
NoInflight == tasks = <<>> /\ \A m \in Inbound : handler[m] \notin Alive

\* Defect: stop() relies on the read loop to resolve the completion.
StopWithoutFinish(s) ==
    /\ NoInflight
    /\ completion # "unset"
    /\ running' = FALSE
    /\ stopPc' = [stopPc EXCEPT ![s] = "done"]
    /\ UNCHANGED <<readVars, endVars, nextId, tasks, handler, linkVars>>

\* Without inflight tasks, _finish() follows in the same step, unless the read
\* loop has run it. The completion has been resolved by then, so waiting for
\* it takes no time.
StopFinish(s) ==
    /\ NoInflight
    /\ \/ closed /\ running' = FALSE /\ UNCHANGED endVars
       \/ ~closed /\ Finish("clean")
    /\ stopPc' = [stopPc EXCEPT ![s] = "done"]
    /\ UNCHANGED <<readVars, nextId, tasks, handler, linkVars>>

\* _cancel_inflight(): a task that has not run yet is gone with its cancellation.
StopCancelInflight(s) ==
    /\ ~NoInflight
    /\ running' = FALSE
    /\ tasks' = <<>>
    /\ handler' = [m \in Inbound |-> IF handler[m] \in Alive THEN "cancelling" ELSE handler[m]]
    /\ stopPc' = [stopPc EXCEPT ![s] = "awaitInflight"]
    /\ UNCHANGED <<readVars, endVars, nextId, linkVars>>

\* Defect: stop() cancels the read task and does not wait for its end.
StopNotAwaitingRead(s) ==
    /\ stopPc[s] = "idle"
    /\ readTask \in {"created", "reading", "closing"}
    /\ running' = FALSE
    /\ readCancelled' = TRUE
    /\ stopPc' = [stopPc EXCEPT ![s] = "awaitInflight"]
    /\ UNCHANGED <<readTask, endVars, nextId, tasks, handler, linkVars>>

StopReading(s) ==
    /\ stopPc[s] = "idle"
    /\ readTask \in {"created", "reading", "closing"}
    /\ running' = FALSE
    /\ readCancelled' = TRUE
    /\ stopPc' = [stopPc EXCEPT ![s] = "awaitRead"]
    /\ UNCHANGED <<readTask, endVars, nextId, tasks, handler, linkVars>>

\* stop() of a peer that was never started, or whose read task has ended.
StopAtOnce(s) ==
    /\ stopPc[s] = "idle"
    /\ readTask \in {"none", "ended"}
    /\ StopCancelInflight(s) \/ StopFinish(s)

StopResumes(s) ==
    \/ /\ stopPc[s] = "awaitRead"
       /\ readTask = "ended"
       /\ StopCancelInflight(s) \/ StopFinish(s)
    \/ /\ stopPc[s] = "awaitInflight"
       /\ StopFinish(s)

-----------------------------------------------------------------------------
(* The other side, the transport, and the server's end_connection(). *)

\* The other side answers in any order, and may answer twice.
RemoteAnswers(q) ==
    /\ stream = "open"
    /\ Len(incoming) + Len(tasks) < MaxIncoming
    /\ \E kind \in {"result", "error"} :
          incoming' = Append(incoming, [kind |-> kind, id |-> q.id, by |-> q.by])
    /\ UNCHANGED <<running, readVars, endVars, nextId, workVars, stream, asked>>

RemoteCalls(m) ==
    /\ stream = "open"
    /\ Len(incoming) + Len(tasks) < MaxIncoming
    /\ handler[m] = "none"
    /\ handler' = [handler EXCEPT ![m] = "sent"]
    /\ incoming' = Append(incoming, [kind |-> "request", key |-> m])
    /\ UNCHANGED <<running, readVars, endVars, nextId, tasks, stopPc, stream, asked>>

\* EOF, after whole messages or within one.
FeedEof == stream' \in (IF stream = "open" THEN {"eof", "cut"} ELSE {stream})

RemoteEnds ==
    /\ stream = "open"
    /\ FeedEof
    /\ UNCHANGED <<running, readVars, endVars, nextId, workVars, incoming, asked>>

ConnectionLost ==
    /\ writer # "closed"
    /\ stream' = "reset"
    /\ writer' = "closed"
    /\ UNCHANGED <<running, readVars, closed, completion, pending, call, nextId,
                   workVars, incoming, asked>>

\* The transport has flushed its buffer, which takes an other side that reads.
WriterCloses ==
    /\ writer = "closing"
    /\ writer' = "closed"
    /\ FeedEof
    /\ UNCHANGED <<running, readVars, closed, completion, pending, call, nextId,
                   workVars, incoming, asked>>

EndConnection ==
    /\ running
    /\ running' = FALSE
    /\ FeedEof
    /\ UNCHANGED <<readVars, endVars, nextId, workVars, incoming, asked>>

-----------------------------------------------------------------------------

ReadStep == BeginReading \/ ReadMessage \/ ReadEnd \/ ReadCancelled \/ CloseWaited
CallStep(c) == RequestDrainFails(c) \/ RequestAnswered(c) \/ AbandonRequest(c)
NewCall(c) == RefuseRequest(c) \/ EncodeFails(c) \/ SendRequest(c)

Next ==
    \/ Start \/ ReadStep \/ RunTask
    \/ \E c \in Callers :
         \/ NewCall(c) \/ RequestDrained(c) \/ CallStep(c)
         \/ \E how \in {"timeout", "cancelled"} : InterruptRequest(c, how)
    \/ \E m \in Inbound : RemoteCalls(m) \/ HandlerReturns(m) \/ HandlerEnds(m)
    \/ \E s \in Stoppers : StopReading(s) \/ StopAtOnce(s) \/ StopResumes(s)
    \/ \E q \in asked : RemoteAnswers(q)
    \/ RemoteEnds \/ ConnectionLost \/ WriterCloses \/ EndConnection

Spec == Init /\ [][Next]_vars

\* The event loop runs every task that is ready, and a cancelled handler ends.
FairSpec ==
    /\ Spec
    /\ WF_vars(ReadStep) /\ WF_vars(RunTask)
    /\ \A c \in Callers : WF_vars(CallStep(c))
    /\ \A m \in Inbound : WF_vars(handler[m] = "cancelling" /\ HandlerEnds(m))
    /\ \A s \in Stoppers : WF_vars(StopResumes(s))

\* In addition, the other side reads what is sent to it: drain() returns, and
\* a closing transport closes.
DrainedSpec ==
    /\ FairSpec
    /\ WF_vars(WriterCloses)
    /\ \A c \in Callers : WF_vars(RequestDrained(c))

-----------------------------------------------------------------------------
(* What the peer promises: its futures are the requests of RequestLifecycle. *)

RequestState(fut) ==
    CASE fut = "none" -> "none"
      [] fut = "pending" -> "waiting"
      [] fut \in {"result", "error"} -> "answered"
      [] fut = "closed" -> "closed"
      [] fut = "cancelled" -> "givenUp"

Lifecycle == INSTANCE RequestLifecycle WITH
    open <- ~closed,
    request <- [c \in Callers |-> RequestState(call[c].fut)]

\* The peer implements RequestLifecycle: requests are accepted until the
\* closure, which settles all that still wait in a single step.
LifecycleSpec == Lifecycle!Spec

-----------------------------------------------------------------------------
(* Properties *)

\* Once the connection counts as closed, no future of a request is left
\* pending: _finish() fails all of them, and none is registered afterwards.
NoStrandedRequest == closed => \A c \in Callers : call[c].fut # "pending"

\* A response reaches the caller of the request it answers, also if it comes
\* late, twice, or after that caller has given up and others have asked.
OwnResponse == \A c \in Callers : call[c].outcome \in {"result", "error"} => call[c].value = c

\* _pending_requests keeps no entry of a call that has returned, and no entry
\* under an id that is not its own.
PendingIsLive ==
    \A i \in Ids : pending[i] # None =>
        call[pending[i]].pc # "idle" /\ call[pending[i]].id = i

\* A caller that learns of the closure finds `running` cleared: the client
\* decides by it whether a failed call lost its session.
LossIsVisible == \A c \in Callers : call[c].outcome = "closed" => ~running

\* Once stop() has returned, the peer runs nothing more: no read loop, no task
\* and no handler.
QuietAfterStop ==
    (\E s \in Stoppers : stopPc[s] = "done") => readTask \in {"none", "ended"} /\ NoInflight

\* Once the connection is closed, a call that nobody has given up and that got
\* no response reports the closure, whatever ends it: its future, or a write
\* that fails before or after the closure.
ClosureIsReported ==
    [][\A c \in Callers :
         closed /\ call[c].pc \in {"sending", "waiting"} /\ call'[c].pc = "idle"
            => call'[c].outcome = "closed" \/ call[c].fut \in {"result", "error"}]_vars

\* stop() returns, whatever the peer is doing.
StopReturns == \A s \in Stoppers : stopPc[s] # "idle" ~> stopPc[s] = "done"

\* No call outlives the connection: after the closure every caller returns.
ClosureEndsCalls == \A c \in Callers : closed ~> call[c].pc = "idle"

=============================================================================
