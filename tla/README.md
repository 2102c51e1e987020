# A verification project for robotframework-jsonrpcremote

JsonRpcRemote runs the keywords of Robot Framework libraries in another process. A
**client library** (`src/JsonRpcRemote`) is imported into a test suite and talks JSON-RPC
2.0, over TCP or over the standard streams of a child process, to a **server**
(`packages/server`), which runs the keywords inside of its own Robot Framework. Both sides
use the same **peer** (`packages/jsonrpcpeer`).

This directory holds TLA+ modules that model the concurrent core of it, TLC configurations
that check them on small instances, and proofs checked by TLAPS. What is modelled is the
code; the requirements in `openspec/specs/` and the comments are what the properties are
held against.

## The system

| Component | Code | State | Operations | Module |
|---|---|---|---|---|
| Peer: requests, read loop, stop | `peer.py` | flags `_running`, `_closed`; `_pending_requests`, `_id_counter`; the read task, the tasks in flight, the completion future | `start`, `stop`, `send_request`, `io_loop`, `_finish`, `_handle_response`, `_call_handler` | `JsonRpcPeer` |
| Peer: dispatch of messages and batches | `peer.py` 564-738 | the tasks of the messages, the handlers | `handle_message`: classify, collect a batch, answer | `MessageDispatch` (`JsonRpcPeer` has one message in one task) |
| Peer: framing | `peer.py` 459-530 | the bytes in the `StreamReader` | `_read_message`, skipping, size limit | `MessageFraming` |
| Typed endpoints, remote objects | `peer.py` 740-857 | class tables fixed at definition | reflection | - |
| JSON conversion | `json_helpers.py` | none | `from_dict`, `as_json` | `JsonConversion` |
| Robot runner | `_runner.py` 239-427 | `_queue`, `_stopped`, `_closed`, `_lock`, the current session | `_submit`, `_hook_loop`, `_close`, `stop`, `_log_message` | `RobotRunner`, abstractly `CommandService` |
| Commands inside of Robot Framework | `_runner.py` 60-236 | Robot's library store and the scopes it opens | import, keyword, finalize | in `RobotServerEndpoint` |
| Endpoint of the server | `_endpoint.py` | `_imported_tokens`, `_disconnected`, `log_level`, the two flags of the handshake, the count of requests | `initialize`, `initialized`, `set_log_level`, `import_library`, `run_keyword`, `finalize_library`, `finalize_all` | `RobotServerEndpoint`; `log` in `RobotRunner`, `wait_idle` in `ServerProcess` |
| Process control | `__main__.py` | the started and stop events, the stop hook and its lock, `_clients` | `run`, `run_server`, `run_tcp_server`, `run_stdio_server`, `handle_client`, `close_clients`, `stop_server` | `ServerProcess` |
| Signals | `_signals.py` | the saved handlers of Robot Framework | patched `__call__` | `Interrupt` of `ServerProcess` |
| Client session | `src/JsonRpcRemote/__init__.py` 256-657 | the `_SessionResources`: worker thread, its loop, peer, process; the events `initialized` and `ended`, `start_error`, `closed_by_client`, `_calls` and its lock | `start`, `submit`, `_end`, `close_connection`, `stop`, `_finalize_session` | `ClientSession` |
| Client library | the same, 660-963 | the session of each scope, the registered definition, the incompatibility and the outage | connecting with retries, run a keyword, end of scope | `RemoteLibrary` |
| Log sink | the same, 78-122 and 933-963 | messages kept, the loop they go to | `submit`, `attach`, `detach`, `drain` | `KeywordLog`, over `ClientSession` |
| Protocol, Echo, samples, command line, stdio streams | `protocol`, `Echo.py`, `examples`, `stdio.py` | none that behaves | data classes, sample keywords, option parsing | - |

How they interact. In the server, two threads share state: the *main thread* runs Robot
Framework and, inside of it, the hook loop of the runner; the *server thread* runs one
asyncio loop with the listening socket, a `JsonRpcPeer` and a `RobotServerEndpoint` for each
connection. A handler of an endpoint puts a command into the queue of the runner and awaits
a `concurrent.futures.Future` through `asyncio.wrap_future`; the runner completes that future
and hands log messages over with `call_soon_threadsafe`. The two threads start and stop each
other by two `threading.Event`s, a stop hook under a lock, and the stop flag of the runner,
which a signal handler sets. In the client, a worker thread runs the loop with the one peer,
and the thread of the test submits coroutines to it.

What is hard about it, component by component, and what makes it correct:

* **Peer.** A call has an await between registering and waiting, a response may come at any
  time, the closure fails all futures at once, and callers, `stop()` and the read loop run
  between any two awaits of one another. No request may be left pending, no response may reach
  another caller, no task may survive `stop()`. A message that cannot be read must not make it misread the
  next one, and each request of a batch gets its one answer whatever the others are.
* **Runner.** Commands are submitted by one thread and run by another while the end of the
  runner races with the submission. Every command is run, failed or refused, in order, one at
  a time, and the log messages of a keyword reach the client before its result.
* **Endpoint.** A client may go while its library is being imported, called or finalized. Its
  libraries are finalized, each once, and nobody else's are touched.
* **Process.** A signal, the end of the input, a failing start and arriving clients meet in
  any order. Nothing that runs is cut off, and the process ends.
* **Client session and library.** A session ends by timeout, loss, scope or reconnect while the
  other thread submits; a keyword is never sent twice; threads and processes are not left behind. Log
  messages arrive on a thread where Robot Framework drops them, and keep their order on the two ways to
  the thread of the keyword.

`PROJECT.json` lists, under `hazards`, each of these at its line, with the properties that
would catch it.

## The modules and the code

A step of a model is what the code does between two points where something else may act: two
awaits of an event loop, or two accesses to state that another thread shares.
Names are the names of the code where TLA+ allows it, and `map` in `PROJECT.json` gives the
lines of each definition. A definition whose comment begins with "Defect:" is part of no
specification: it is the form of the action above or below it with a plausible bug, and the
mutants of `PROJECT.json` use it to show that a property can tell the two apart.

**`JsonRpcPeer`** is one peer with tasks that call `send_request()` (`Callers`), tasks that call
`stop()` (`Stoppers`) and requests of the other side (`Inbound`). `call[c]` is the frame of
`send_request_typed()`: `SendRequest` registers and writes, `EncodeFails` is a request
that `_encode_message()` refuses (its id is spent, and nothing is sent), `RequestDrained` and `RequestDrainFails` leave `drain()`, `InterruptRequest` is the timeout or the cancellation of
the await, `RequestAnswered` and `AbandonRequest` are the `finally` part. The read loop is
`BeginReading`, `ReadMessage`, `ReadEnd` or `ReadCancelled`, `EndReading`, `CloseWaited`, with
`Finish`/`MarkClosed` for `_finish()`/`_mark_closed()`. `stream` is how the `StreamReader` ends
(clean, in the middle of a message, by a reset) and `writer` what became of the transport;
`RemoteAnswers`, `RemoteCalls`, `RemoteEnds`, `ConnectionLost` and `WriterCloses` are the other
side and asyncio, and are external. **`RequestLifecycle`** is what callers are promised: a request
is accepted while the connection is open, and its end settles all of them in one step.

**`RobotRunner`** is the runner with its two threads. `SubmitCheck`/`SubmitPut` is `_submit()`, with
the lock between them; `CheckStopped`, `TakeNothing`/`TakeCommand`, `CommandReturns`,
`CommandEndsLoop`, `Close`, `FailQueued`, `RunnerEnds` is `_hook_loop()` and `_close()`;
`LogMessage` is what the runner thread does while a command runs. `ready` is the queue of
callbacks that `call_soon_threadsafe` fills and `RunCallback` empties: `FirstTurn` and
`SecondTurn` are the turns of the loop that a log message and a result need before they are
written. `Exiting` are the commands that end the runner with a `SystemExit`.
**`CommandService`** is the abstract runner: a line of commands, one of them running,
each ending answered, dropped, or with the runner.

**`RobotServerEndpoint`** is all endpoints of a server. It is composed with the *abstract* runner
(`Service == INSTANCE CommandService`), which `RobotRunner` is proved to implement, so that what
it shows of the endpoints holds over the real one. A command is `[op, lib]`; `handler` is the
coroutine that awaits it, and `RunnerBegins` does in `Execute` what the command does inside of Robot
Framework, to the one `store` that all clients share. `FinalizeAll` is the end of a connection:
it marks the endpoint and takes the copy of its tokens, and `FinalizeNext` goes from one awaited
finalization to the next, to `cleanup()` and the end.

**`ServerProcess`** is `__main__.py`: `main` is where the main thread is (`AwaitUp`, `CheckStarted`,
`CheckStop` is `_server_has_been_up()` reading one event after the other; `BeginHookLoop`,
`EndHookLoop`, `ReadHook`, `PostStop`, `Exit`), `srv` where the server thread is (`StartFails`,
`Listen`, `SetStarted`, `ClearStop`, `TransportEnds`, `SetStop`, `LeaveTransport`, `EndThread`). `CloseClients`,
`FindIdle`, `EndConnections` and `FinishClosing` are `close_clients()` with its snapshot of
`_clients`; a connection is "accepted" when asyncio has created the task of `handle_client()`,
"served" once that has run (or "late", if the snapshot was taken first). `request` is what a connection wants of the runner:
`Answer` ends it, but not where its command raises `SystemExit` (`CommandExits`): that ends the runner, and the request is "dropped". Then
`wait_idle()` of that client does not return, and `EndConnections` comes with the grace period. `mode` is the transport.

**`ClientSession`** is one session of the client, with its two threads. `worker` is where `_run_client()` is
(`Boot`, `Connect`, `HandshakeSucceeds`/`HandshakeFails`, `PeerCompletes`; `CloseConnection`, `CloseWriter`, `ReadProcess`, `ReapProcess` for the parts of
`close_connection()`, each with its own read of the resources; `Clear`), then what
`asyncio.run()` does after it (`CancelTasks`, `CloseLoop`) and `_end()` (`End` takes the lock, `FailStranded`
completes the futures outside of it). `test` is where the thread of the test is: `Start`, `Started`; `Submit` and
`Schedule`, which hold the lock; `Return`; and `Stop` with `_finalize_session()`: `ReadResources`, one `_run_on_loop()` for each of
the jobs "graceful" and "stop" (`Posted`, then `JobIsOver` or `JobTimesOut`), `Join`, `Release`. The jobs run on
the loop of the worker (`StartJob`, `GracefulEnds`, `StopPeer`), as the calls do. A call is sent (`RunCall`); its response comes
(`ResponseArrives`), or its write fails (`WriteFails`: on stdio the input of the server can be gone while its output, and so the peer, goes on), and
its task goes on with either in a turn of its own (`CallReturns`), before which the connection may end; or the closure fails it (`CallFails`).
`res` is the set of the fields of `_SessionResources` that are not `None`, and `seen` what the thread of the
test has read of it. Only the successive reads of `_finalize_session()` at its begin, and its clearing of all fields at the end, are one step each.
**`SessionLifecycle`** is what a session promises: it comes up once, and a loss is for good; a call ends once, with a response that
came before the loss, with the loss, or with a request that could not be written, which may come out while the session still seems up; and the
client stops a session that has no call under way. `Phase`
is the session of it, from `Lost`, and `CallState` its calls; a call that is refused is one that fails at once.

**`KeywordLog`** composes the session with `run_keyword()` of the library and the loop it runs on. Its steps on the
worker thread are those of `SessionStep`, each followed by `PostOutcome`: when the awaited future of a call
completes, `wrap_future()` posts that to the loop of the keyword, behind the log messages that `LogArrives` has
posted before. `ready` is the queue of that loop. The coroutine resumes one turn later (`TakeOutcome`), detaches the
sink (`LeaveKeyword`), and the loop stops behind everything that was posted until then (`StopLoop`).

**`MessageFraming`** is `_read_message()` over a stream of pieces (line ends, fields, messages, text), of which a
length says how many it covers. `ReadHeaderLine`, `NoLength`, `RefuseOversized`, `SkipContent`, `ReadContent`,
`ReadEnd` are its branches; each message starts a task. **`MessageDispatch`** runs these tasks, all of them at the
same time and with the reader: `AnswerInvalid`, `TakeResponse`, `UnknownMethod`, `CallHandler`, `HandlerReturns` are the
branches of `process_single_message()` for the current element of a task, and `EndTask` hands its answer to the writer (`written`). Once the
read loop has ended, `_finish()` may have closed that writer, and what it gets then is not sent (`peer.py` 541-545). A message is
the list of its elements, and of an element the model keeps what the branches tell apart. `from_dict()` is a parameter
there (`FromDict`), so what is proved of the dispatch does not depend on it.
**`JsonConversion`** is `from_dict()` (`Converted`, with `ConvertedBy` for the table of handlers by type, `Chosen` for the
types of a union and `Matches` for the classes among them) and `as_json()` (`AsJson`). The code recurses; the module has recursive
functions, of the pairs of a value and a type (`Conversion`) and of the values (`AsJson`), and the constants `Json`, `Depth` and `Height` give
them a domain. **`MessageParams`** is the dispatch together with it, where `FromDict` is `Converted`. The results of
`Converted` and of `AsJson` were compared with those of the Python functions for every one of the 2331 pairs of a type and a value of `MCMessages`, and
are the same. `factories` are the fields with a `default_factory`, of which `as_json()` leaves out none. `Found`, `Expected` and `Readings` are the references that the properties compare with: frame by
frame without a reader, element by element without tasks, and every reading of a value without an order of types.

**`RemoteLibrary`** is the library object over its sessions, which are abstract there: one is connected, may be lost,
and is closed. `at` is where the call is: `Proceed`, `Refuse`, `Reuse`, `Replace` and `ConnectAnew` are
`_ensure_session()`; `AttemptFails`, `TryAgain`, `WindowPasses` are `_connect_with_retry()`; `ConnectionIsAccepted`
and `ConnectionIsRejected` are `_check_definition()` and what follows; `Submit`, `KeywordEnds` and
`KeywordIsLost` are `run_keyword()`; `EndScope` is a listener method. `LoseConnection` and `ServerChanges` are the environment: the
server goes, comes back, or comes back with another library.

The `MC...` modules give the constants values, and the `...Proofs` modules hold the theorems.

## The runs

Twelve runs; nine must pass, three must be violated by a behaviour of the code.

| Run | Instance | Question |
|---|---|---|
| `PeerRequests` | 2 callers, 3 requests, 1 `stop()`, timeouts on, 1 message unread | Are requests settled, by the right response or by the closure, in every order? |
| `PeerStop` | 1 caller, 2 `stop()`, 1 incoming request, fair | Does `stop()` end everything, and end itself, and do calls end with the connection? |
| `RunnerCommands` | 3 commands, 1 of them exits, 1 log message each, fair | Is no command lost, reordered or left without an answer? |
| `EndpointStore` | 2 clients with a library each | Do clients that share a store keep and lose their own libraries only? |
| `EndpointLeave` | 1 client with 2 libraries, bad log levels, a library that cannot be described, fair | Does the end of a connection end, with everything released? |
| `Server` | both transports, 3 clients (stdio: one of them), SIGINT anywhere but while Robot boots, commands that exit, fair | Is a failed start reported as such, no request cut off, and does the process end, with its signal, its input or its runner? |
| `Session` | both transports, 2 calls, 3 log messages, fair (`KeywordLog`) | Does every call return, as `SessionLifecycle` says, with all log messages before and in their order; is no job destroyed, a failed start released, and does ending a session return and end it? |
| `Library` | with and without retry, 3 sessions, 2 definitions, a scope that ends between any two calls, fair | Is a replacement announced and compatible, one retry window used for each outage, nothing left behind, and does every call return? |
| `Messages` | 7334 inputs: frames of 15 kinds, three in a row, or two cut off anywhere; single messages and batches of two of 31 kinds of elements; params of 63 shapes for handlers of 37 types | Is every frame found, every request answered once, every response brought to its request, and every value converted to what it stands for? |
| `ServerStartInterrupt`, `EndpointLevel`, `SessionLateStart` | the smallest that show it | See "Disagreements". |

*Bounds.* The requests of two callers overlap in every way two requests can; the third request
lets an id be used by a caller that has given up another. Two `stop()` calls are what a session
that ends and one that is closed make; a third would find the same states. Three commands are one
that runs, one that waits and one that is being submitted, and one message is enough to be
overtaken. Two clients are enough for one to release what the other uses, and two libraries for
the finalization of one to fail before the other. Of three clients one may be waited for, one
idle and one overlooked at the same time. The thread of the test makes one call after the other, so
of two calls one may be done, cancelled or lost when the other is submitted. Three sessions are one
that is lost, one that replaces it, and one after that; two definitions are the registered one and another.
Of three log messages one may be kept, one posted and one written. A frame that is misread spoils the one after it, and a third shows
whether the reader has found its way back; the maximum size of two pieces has a frame below, at and above it. An element of a batch meets one before and one after it. `MaxRequests`, `MaxIncoming`
and `MaxMessages` only bound what is unbounded in the code; they occur in guards of the
environment's steps and of `SendRequest`, `ReadMessage` and `LogMessage`.

*Deadlock* is not checked, because each of these systems may stop: a peer that is closed, a runner
that has ended, a process that has exited. That they do not stop too early is what the liveness
properties are for.

*Fairness.* Weak fairness of the steps of a thread (`WF_vars(RunnerStep)`, `MainStep`, `ThreadStep`)
says that the operating system runs it; weak fairness of the resumption of a coroutine says that
an asyncio loop runs what is ready. Nothing is assumed of clients, callers, signals or responses.
Three assumptions go further, and the formulas name them: `DrainedSpec` assumes that the other side reads
what is sent to it (a caller's `drain()` has no timeout in the code), `FairSpec` of the runner that a
command comes to its end (a keyword has no timeout), and that of `ServerProcess` that ending a
client is only fair while a runner can finalize its libraries, or has refused to. In `ClientSession`, weak fairness of the
two threads includes that a loop runs what is posted to it before `rpc_timeout` (so `JobTimesOut` needs a job that
has begun), that a graceful job comes to its end by its timeout, that `wait_closed()` returns, and that a killed server closes its pipes; it says nothing
of answers. `join()` may time out at any time, except while the worker still connects: that attempt has the same timeout
and began before the thread of the test had waited its own. `LogFairSpec` adds that the thread of the test runs the loop of its keyword. In `RemoteLibrary`, an attempt to connect ends (by `rpc_timeout`), a keyword ends or its
connection is lost, and a retry window passes.

### What the properties say

* `JsonRpcPeer`: `NoStrandedRequest`, `OwnResponse`, `ClosureIsReported`, `LifecycleSpec` (it implements
  `RequestLifecycle`); `QuietAfterStop`, `StopReturns`, `ClosureEndsCalls`. `PendingIsLive` and `LossIsVisible`
  are proved and not in a run.
* `MessageFraming`: `FramesAreFound`; `MessageDispatch`: `EveryRequestAnswered`, `ResponsesSettle`; `MessageParams`,
  of the conversions that the handlers ask for: `ParamsAreRead` and `ReadsBack`.
* `RobotRunner`: `NoCommandLost` (the promise of the comment at `_lock`), `LogsPrecedeResponse`,
  `ServiceSpec` (it implements `CommandService`), `HandlersReturn`.
* `RobotServerEndpoint`: `NoLibraryForgotten`, `FinalizedOnce`, `ImportedLibraryIsUsable`,
  `LeavingReleases`.
* `ServerProcess`: `FailureIsReal`, `NoRequestCutOff`, `StopEndsProcess`.
* `ClientSession`: `FailedCallFindsLoss`,
  `FailedStartReleases`, `NoJobDestroyed`, `SessionLifecycleSpec` (it implements `SessionLifecycle`); `CallsReturn`, `SessionEnds`. `KeywordLog`: `LogKeepsOrder`,
  `LogPrecedesReturn`.
* `RemoteLibrary`: `LossIsAnnounced`, `OneWindowPerOutage`, `NothingLeftBehind`; `CallsReturn`.
  `NoUnaskedConnection` and `SentOnce` are proved and not in a run, nor is its `TypeOK`.

The comment above each of them states it in words.

## What is proved

TLAPS proves these for every value of the constants that satisfies the assumptions of the modules
(which TLC evaluates for each instance):

| Theorem | Statement |
|---|---|
| `JsonRpcPeerProofs!TypeCorrect`, `NoRequestStranded`, `PendingStaysLive`, `LossAlwaysVisible`, `CompletionAlwaysMeansClosed`, `QuietOnceStopped`, `ResponsesAreOwn`, `ClosuresAreReported` | the invariants of the same meaning, and `ClosureIsReported` |
| `JsonRpcPeerProofs!PeerImplementsLifecycle` | `Spec => Lifecycle!Spec` |
| `RobotRunnerProofs!TypeCorrect`, `NoCommandIsLost`, `LogsComeFirst` | the invariants |
| `RobotRunnerProofs!RunnerImplementsService` | `Spec => Service!Spec` |
| `ServerProcessProofs!TypeCorrect`, `FailuresAreReal`, `NoRequestIsCutOff` | the invariants; the last unless SIGINT comes while Robot Framework boots, and for all requests but one whose command ends the runner |
| `RobotServerEndpointProofs!TypeCorrect`, `LibrariesAreFinalizedOnce`, `NoLibraryIsForgotten`, `ImportedLibrariesAreUsable` | the invariants; the last where every log level is known |
| `SessionProofs!TypeCorrect`, `FailedCallsFindLoss`, `FailedStartsRelease`, `NoJobIsDestroyed` | the invariants |
| `SessionProofs!SessionImplementsLifecycle` | `Spec => Lifecycle!Spec` |
| `SessionProofs!LogImplementsSession` | `LogSpec => Spec`: the session with its log is a `ClientSession`, so the theorems above hold of it, too |
| `SessionProofs!LogTypeCorrect`, `LogOrderKept`, `LogBeforeReturn` | the invariants of the log |
| `MessageProofs!TypeCorrect`, `FramesFound`, `RequestsAnswered`, `WaitingSettled` | `TypeOK`; `FramesAreFound`; `EveryRequestAnswered`, `ResponsesSettle` |
| `ConversionProofs!ParamsRead`, `WhatIsReadReadsBack` | `ParamsAreRead`; `ReadsBack` |
| `RemoteLibraryProofs!TypeCorrect`, `LossAlwaysAnnounced`, `NothingIsLeftBehind`, `OnlyOneWindow`, `ConnectionsAreAsked`, `KeywordsAreSentOnce` | the invariants and action properties of the same meaning |

*The peer.* `NoStrandedRequest` says nothing of a peer that is not closed, so it cannot be shown from
one step to the next. `CallInv` relates the frame of a call to its future and to the table
of pending requests; with it, `MarkClosed` reaches every pending future, and none is registered
after it. `StopInv` says what each place of `stop()` implies about the read task and the handlers
(`ClosedStops`: a peer that was closed without a read task is one that was never started);
`QuietAfterStop` follows from it. The refinement maps each action to an action of
`RequestLifecycle` or to a stutter. `OwnInv` says whose request each id is: what the other side
sends, wherever it waits, answers somebody who asked under that id, and the entry of the table under it
is that caller's or gone; ids are not used twice, so a late answer finds nobody else (`OwnResponse`). `ClosureIsReported` rests on `NoStrandedRequest`: the
closure has found every request, the ones that are still being written too. `Waits` adds that nobody cancels the future of a call that waits, and
`Moves` what a step makes of a call, so that a future that the closure has failed stays so, and whatever ends the call then reports that.

*The runner.* The invariant is `TypeOK` with `RunnerInv`, which has two parts: `ThreadInv` (where
the runner thread is, against `stopped`, `closed`, `active` and the lock) and `CommandInv` (where each command
is: in the queue at most once, being failed, running, or through, against its future and its handler).
`NoCommandLost` and the refinement are consequences of it. `LogInv` adds what may still be in the queue of
callbacks: a log message of a command stands before its result, and none
is posted when the command is over. The lemmas on `Append`, `Head` and `Tail`, and on what is
contained in a sequence, are stated before them.

*The process.* `StartInv` ties the place of the main thread to what it has read of the two events and to
where the server thread was then; `IdleInv` says that a client that `close_clients()` has found
idle stays so: the runner has been drained, and accepts nothing any more. Only a dropped request may be left when it ends the connections.

*The endpoints.* `EndpointInv` stands over the abstract runner: a command is in the line once and begins from
there only (`LineInv`, `CommandInv`), so a library enters the store once; `StoreInv` says that it is torn down only on
its way out, and that whatever has left was finalized; `ImportInv` that the coroutine of an import has
recorded its token, or what it brought is settled; `LeaveInv` that what `finalize_all()` has before it is
its own client's, and that a library is released only for a client that is gone. Each action is first
reduced to its effect (`Requested`, `Begun`, `Ended` ...), and the invariants are shown of the effects.

*The session.* `ResourceInv` says what is open while the worker stands where it does, in the parts of `close_connection()` (`Closing`), too, and that only the thread
that ends the session clears the fields under it; `StartInv` that a start is told only once it has failed or
succeeded, a failure after the release; `JobInv` that a loop about to be closed has no task; `CallInv` that only a session
that has started gets calls. Together with the properties they are inductive. For the refinement, `TurnInv` adds that only the call
the test waits for is open, so that `CancelTasks`, which ends all that run, ends one, and `_end()` fails the one that is left; that the peer is
up as long as its connection is; and that the client closes the session when it waits for none. Refused and failed calls
then meet a session that is lost (`LostAtEnd`); one that has "raised" need not. A response comes, and a write fails under a peer that is up, only in a session
that is up (`UpWithPeer`), and may be found after the loss. For the log, `PlaceInv` and
`ReadyInv` tie the loop of the keyword to the call it waits for (it stops behind everything else that was posted),
`DueInv` and `OrderInv` say that each message is in one place, the older the nearer to the log.

*The library.* `ConnectInv` says what is known where a call stands in an attempt to connect (the outage it belongs to, and the session it replaces),
`ScopeInv` which session the scope has and that every other one is closed, and `SentInv` that a keyword is sent only between `Submit` and its end; with `LossIsAnnounced`
and `NothingLeftBehind`, which are conjuncts, they are inductive, and the action properties are read off from single steps under them.

*The messages.* These theorems hold for every sequence of frames, however many there are and wherever it is cut, for every
message in them and for all handlers, and so need inductions over data. The library's induction theorems take an operator as a
parameter and cannot be used; `SetInduction` says the same of the set of the numbers that have a property, and follows from the
least element of a set (`WFMin`). With it, a function that is defined by recursion is shown to exist and to satisfy its definition
(`FlatExists` for `FlattenSeq`, `FoundExists` for `Found`), and from that come the lemmas on them (`FlattenAppend`, `FlattenAt`,
`FoundAfter`).

For the dispatch, `IInv` has three parts besides the types. `TasksInv`: the answers a task holds, encoded one by one, are those that
its elements so far call for (`EncodedConcat`: encoding answer by answer is encoding the batch, which is what the mutant
`EncodedTogether` gets wrong). `AnsweredInv`: the answers that the writer has got are, one to one, those of the tasks that are over and owe
one; the bijection grows by one pair with each `EndTask` that writes. `SettledInv`: a request still waits only if each task stands at
or before the first response to it, and otherwise has the verdict on the first response in some message. None of the three needs
anything of the order of the tasks.

For the framing, `FrameInv` says where the reader stands, in terms of the pieces that were sent: behind `pos` of them (`At`), and
there in what an earlier frame left (`InRest`), in the header part of a frame (`InLines`), in front of its content (`InContent`) or in
what is skipped (`InSkip`), with what the header has said so far (`HeaderSays`) and with the tasks that the frames up to there ask for.
The invariant `FramesAreFound` speaks of the end only, and is what is left of it there. The hard case is a frame without a length: its content
is then read as header lines, and what the reader makes of it depends on where its last line ends; `RestFrom` says what may still be
there, and that it brings no field with it. The proof takes one step of the loop from each of these places (`StepFromRest`,
`StepFromLines`, `StepFromContent`, `StepFromSkip`, `StepFromEnd`); `FromRest` and `FromLines` say what the next line is.

Its assumptions: `FramesAssumption` (`WellSent`) says that what is sent are frames: their lines hold no line end, a header part names its length and its
charset once, a content has no header field in it and is not shorter than its length. The
writer of a peer sends such frames (`_write_frame()`); of a header part that names two lengths, or of a content with fields in it that comes
without a length, the theorem says nothing. `HandlersAssumption` and `ElementsAssumption` give
handlers an outcome that there is and messages their members. The references (`WithFrame`, `Expected`, `Verdict`) had CASE expressions with
arms that overlap, of which TLA+ leaves open which one counts; the proofs showed it, and they are IF now.

*The conversions.* `ReadInv` says that all that was read are results of `from_dict()`, so what is left to show is about the
function: for every value and every type it agrees with the reference. A recursive function is only a name for some function that meets its
equation, if there is one; that there is one for `Conversion`, `Reading` and `AsJson` (`ConversionExists`, `ReadingExists`,
`AsJsonExists`) comes from `PairInduction`: a step looks only at parts of the value, or at members of the type with the same value
(`ConvertedLocal`, `ReadingsLocal`, `AsJsonLocal`), so two functions that meet the equation up to a pair agree there, and these are glued. The pair is
ordered by the value first, because a class may have a field of any type, of its own as well.

`ConversionAgrees` is the second induction over the pairs. Its hypothesis is stronger than `ParamsAreRead`: `Agree` relates the result to
all three readings: it is one of those of any kind; where there is a result or an exact reading, there is a reading apart; and if there is only one
of these, there is no other result, and there is a result if there is an exact reading, too. Lists, tuples, objects and fields are products of
their parts (`ProductsAgree`). The hard case is the union (`UnionAgrees`), in which the code looks at the order of the types, at a first pass that
stops at a dict type, and at the number of keys, and the reference at none of them: a class that knows every key of an
object has the most keys there are (`MostKeys`, which counts `Present` by an injection from the keys in `CountedKeys`), so it is among `Matches`, and
then every class there knows every key. `Counted`, the part of the reference that tells which types of a union count, is opened up by cases in `CountedIs`.

`ReadsBack` takes a third induction (`AllReadAgain`): whatever may be read of a type, written as JSON, has an exact reading of that type, because
`as_json()` writes each field under the name that its class reads, and leaves out only a None that has a default, and no factory for it. With that, `ParamsAreRead`
says what the JSON becomes when it stands for one value only.

Their assumptions: `ValuesAssumption` and `TypesAssumption` (values and types nest others to some depth, as those of JSON and of annotations
do), `ClassesAssumption` (a key stands for one field of a class, and no object names a field twice, once by its alias and once by its name:
there the last key wins, and what the other says is lost), `ParamsAssumption` (params are JSON), `WritingAssumption` (what may be read of a type is
written as JSON; a default is None, or a value of the type of its field; what a factory makes is the latter).

Only model-checked: all liveness properties (TLAPS has no ENABLED and no fairness here).

## Disagreements between code and documentation

Three runs end in a counterexample, and `findings` quotes what they contradict:

* `ServerStartInterrupt`: a SIGINT while `run()` still waits for the server to come up ends the main
  thread; the server thread serves on and the process does not end.
* `EndpointLevel`: after a log level that Robot Framework rejects, every command fails, also those of
  `finalize_all()`, and the libraries of that client stay in the store.
* `SessionLateStart`: `_finalize_session()` reads the peer once, before it joins the worker. A connection that comes up
  during that join, after the start has timed out, is never stopped: its worker serves on.

The properties of the passing runs except, by name, what else the code does not keep:

* The hook loop looks at `_stopped` before `get()` and not after it, so one command that was waiting when the stop began
  may still be started (`CommandService` allows it), although `openspec/specs/server/spec.md:28` says that waiting requests are not executed.
* On stdio, a request may fail to be written (`peer.py` 345-348, 415-425) while the output of the server, and with it the peer,
  goes on. Then `run_keyword()` finds a session that is not `lost`, and raises the error of the write unchanged (`__init__.py` 955-959); the
  session is not replaced, and the next call fails in the same way. `FailedCallFindsLoss` speaks of the other failures, and `SessionLifecycle` has both.
* A command that raises `SystemExit` ends the runner, and its own call is never answered (`HandlersReturn`
  excepts `Exiting`): `wait_idle()` of its client does not return within the grace period, after which the connection is cut off
  (`NoRequestCutOff` excepts "dropped").
* A library that is imported and then cannot be described stays in the store (`GivenUp`): the import fails
  and no token is recorded.
* A connection accepted after `close_clients()` has taken its snapshot is not closed by it; the process
  then ends only when that client goes, or when `asyncio.run()` cancels its handler, depending on the
  version of Python (`Overlooked`).
* A stdio transport that ends between the two reads of `_server_has_been_up()` makes the main thread
  report a failed start (`FailureIsReal` is checked, and proved, for TCP); and if the stdio client ends
  while `stop_server()` holds the loop it has just read, posting to a closed loop raises there and the exit
  code is 1 ("raised" in `Failed`).
* A SIGINT after the start but before Robot Framework handles signals stops a runner that never ran: what
  was queued is not drained, and the grace period cuts it off (`Phases` excludes "booting" in the passing runs).
* `request_timeout` does not cover `drain()`: with an other side that does not read, a call outlives the
  closure of its connection (`ClosureEndsCalls` is checked under `DrainedSpec`).
* `SessionEnds` excepts the peer that `SessionLateStart` is about (`PeerWasLate`).
* Some values do not read back, or not as their own type, against "Nested values read back as they were written" and "A boolean is not a
  number" (`openspec/specs/json-conversion/spec.md`): an `Enum` or a `Literal` with the value 1 takes a JSON `true`, because Python's `==` says so
  (`PyEqual` in both definitions); `float | int` turns 1 into 1.0; a field that is None but has another default is left out and read back as the
  default; a class whose fields all have defaults ties with another one. Where keys may be ignored, the first type decides
  (`list[Point] | list[Span]` ignores the keys that only `Span` has), or the value is refused (two classes with equally many keys whose fields fit,
  the one by ignoring a key; a class with the most keys whose values do not fit). `ReadsBack` and `ParamsAreRead` speak of JSON that stands for one value
  of its type only, and `ParamsAreRead` of one that ignores no key; the instance has types of all these kinds.

## What is not modelled

Of the peer: texts of errors, the reports of problems to the log, reflection over endpoint classes; that an answer to a batch as a whole is not held
against the maximum size (each response is); in `JsonRpcPeer`, batches beyond "a handler may start late". Of the conversions: an integer too large for a float, where a float is expected
(`float()` raises an `OverflowError`, `json_helpers.py` 285, which the loop over the types of a union, 469, does not catch: the other types are not tried), the strict mode, named tuples, types of
dict keys, abstract sequence types, `as_dict()`, `validate_types()` and pickled values (the client and the runner use only the last of these).
Argument conversion, logging and command-line options. Of the server: a second signal, SIGTERM before Robot Framework handles it, connections that the operating system holds in its backlog,
the cancellation of `handle_client()` in the middle of `finalize_all()` (it comes only after the stop, of which the
endpoint's properties say nothing), `shutdown()` (it sets a flag nobody reads). Of the client: the reports of the log level, a log sink whose loop is closed under it, the cancellation of a call whose outcome is already on its way,
a session that is garbage collected instead of stopped, calls from several threads, a Robot Framework timeout or a KeyboardInterrupt that
interrupts an attempt to connect, the texts and counts of errors and warnings.

## Plan

1. *Done*: all modules above with their runs, and the proofs listed.
2. Open: `RemoteLibrary` stated over `SessionLifecycle`; the move of the standard streams (`stdio.py`) as a table of file descriptors.
