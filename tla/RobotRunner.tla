---------------------------- MODULE RobotRunner ----------------------------
(***************************************************************************)
(* RobotRemoteContext of the server: request handlers on the event loop    *)
(* submit commands, one runner thread runs them inside of Robot Framework, *)
(* and log messages and results go back through the loop. A step is what   *)
(* one of the two threads does without the other one being able to tell.   *)
(***************************************************************************)
EXTENDS Naturals, Sequences

CONSTANTS
    Calls,        \* the submitted commands, each with a handler that awaits it
    Exiting,      \* those that may raise SystemExit or KeyboardInterrupt
    NoCall,       \* none of them
    MaxMessages   \* bound on the log messages of one command

ASSUME NoCallIsNoCall == NoCall \notin Calls
ASSUME ExitingAreCalls == Exiting \subseteq Calls
ASSUME MessagesAreBounded == MaxMessages \in Nat

VARIABLES
    stopped, closed,   \* the Event _stopped and the flag _closed
    lock,              \* who holds _lock while the other thread may run
    queue,             \* _command_queue
    runner,            \* where the runner thread is
    current,           \* the command that _hook_loop() has taken last
    active,            \* whose subscriber is _active_subscriber
    failing,           \* what _close() has drained and still has to fail
    fut,               \* the concurrent future of each command
    ran,               \* the commands that have been executed
    handler,           \* the awaiting coroutine of each command
    ready,             \* the callbacks that the event loop has to run
    logged             \* the number of messages of each command

threadVars == <<lock, queue, runner, current, active, failing, ran>>
loopVars   == <<handler, ready, logged>>
vars == <<stopped, closed, threadVars, fut, loopVars>>

\* A callback takes two turns of the loop: the first one creates the task that
\* sends the message, or wakes the task that awaits the result.
Callbacks == [kind : {"log", "done"}, call : Calls, turn : {1, 2}]

TypeOK ==
    /\ stopped \in BOOLEAN /\ closed \in BOOLEAN
    /\ lock \in Calls \cup {NoCall}
    /\ queue \in Seq(Calls) /\ failing \in Seq(Calls)
    /\ runner \in {"check", "take", "running", "closing", "failing", "ended"}
    /\ current \in Calls \cup {NoCall} /\ active \in Calls \cup {NoCall}
    /\ fut \in [Calls -> {"none", "pending", "outcome", "shutdown", "cancelled"}]
    /\ ran \in SUBSET Calls
    /\ handler \in [Calls -> {"new", "submitting", "waiting", "cancelling",
                              "returned", "refused", "cancelled"}]
    /\ ready \in Seq(Callbacks)
    /\ logged \in [Calls -> 0..MaxMessages]

Init ==
    /\ stopped = FALSE /\ closed = FALSE
    /\ lock = NoCall
    /\ queue = <<>> /\ failing = <<>>
    /\ runner = "check" /\ current = NoCall /\ active = NoCall
    /\ fut = [c \in Calls |-> "none"]
    /\ ran = {}
    /\ handler = [c \in Calls |-> "new"]
    /\ ready = <<>>
    /\ logged = [c \in Calls |-> 0]

Post(kind, c) == ready' = Append(ready, [kind |-> kind, call |-> c, turn |-> 1])

-----------------------------------------------------------------------------
(* The event loop. It runs nothing else while it is inside of _submit().   *)

LoopIsFree == lock = NoCall

\* Defect: the check and the put are not under one lock.
SubmitUnlocked(c) ==
    /\ handler[c] = "new"
    /\ handler' = [handler EXCEPT ![c] = IF closed \/ stopped THEN "refused" ELSE "submitting"]
    /\ UNCHANGED <<stopped, closed, threadVars, fut, ready, logged>>

\* _submit() takes the lock and looks whether commands are still run.
SubmitCheck(c) ==
    /\ LoopIsFree
    /\ handler[c] = "new"
    /\ \/ /\ closed \/ stopped
          /\ handler' = [handler EXCEPT ![c] = "refused"]
          /\ UNCHANGED lock
       \/ /\ ~closed /\ ~stopped
          /\ handler' = [handler EXCEPT ![c] = "submitting"]
          /\ lock' = c
    /\ UNCHANGED <<stopped, closed, queue, runner, current, active, failing, fut, ran,
                   ready, logged>>

SubmitPut(c) ==
    /\ handler[c] = "submitting"
    /\ handler' = [handler EXCEPT ![c] = "waiting"]
    /\ queue' = Append(queue, c)
    /\ fut' = [fut EXCEPT ![c] = "pending"]
    /\ lock' = NoCall
    /\ UNCHANGED <<stopped, closed, runner, current, active, failing, ran, ready, logged>>

\* Defect: a future wakes its handler in the turn in which it is copied.
DoneInOneTurn(cb) ==
    IF cb.kind = "done" /\ handler[cb.call] = "waiting"
    THEN /\ handler' = [handler EXCEPT ![cb.call] = "returned"]
         /\ ready' = Tail(ready)
    ELSE /\ ready' = Append(Tail(ready), [cb EXCEPT !.turn = 2])
         /\ UNCHANGED handler

FirstTurn(cb) ==
    /\ ready' = Append(Tail(ready), [cb EXCEPT !.turn = 2])
    /\ UNCHANGED handler

\* The message is written to the connection, or the handler goes on, and its
\* response is written; a cancelled one is not there anymore.
SecondTurn(cb) ==
    /\ ready' = Tail(ready)
    /\ handler' = IF cb.kind = "done" /\ handler[cb.call] = "waiting"
                  THEN [handler EXCEPT ![cb.call] = "returned"] ELSE handler

RunCallback ==
    /\ LoopIsFree
    /\ ready # <<>>
    /\ LET cb == Head(ready) IN
       \/ cb.turn = 1 /\ FirstTurn(cb)
       \/ cb.turn = 2 /\ SecondTurn(cb)
    /\ UNCHANGED <<stopped, closed, threadVars, fut, logged>>

\* asyncio.run() cancels the handlers that are left when the server's thread
\* ends, which is after the stop.
CancelHandler(c) ==
    /\ LoopIsFree
    /\ stopped
    /\ handler[c] = "waiting"
    /\ handler' = [handler EXCEPT ![c] = "cancelling"]
    /\ UNCHANGED <<stopped, closed, threadVars, fut, ready, logged>>

\* In the next turn, the cancellation reaches the future of the command.
CancelFuture(c) ==
    /\ LoopIsFree
    /\ handler[c] = "cancelling"
    /\ handler' = [handler EXCEPT ![c] = "cancelled"]
    /\ fut' = [fut EXCEPT ![c] = IF @ = "pending" THEN "cancelled" ELSE @]
    /\ UNCHANGED <<stopped, closed, threadVars, ready, logged>>

-----------------------------------------------------------------------------
(* The runner thread: _hook_loop() and _close(). *)

\* A signal handler on the runner thread, or the end of the stdio transport on
\* the other one. It takes no lock.
Stop ==
    /\ ~stopped
    /\ stopped' = TRUE
    /\ UNCHANGED <<closed, threadVars, fut, loopVars>>

CheckStopped ==
    /\ runner = "check"
    /\ runner' = IF stopped THEN "closing" ELSE "take"
    /\ UNCHANGED <<stopped, closed, lock, queue, current, active, failing, ran, fut, loopVars>>

\* Nothing has come within the timeout of get().
TakeNothing ==
    /\ runner = "take"
    /\ queue = <<>>
    /\ runner' = "check"
    /\ UNCHANGED <<stopped, closed, lock, queue, current, active, failing, ran, fut, loopVars>>

\* Defect: the newest command is taken.
TakeNewest ==
    /\ runner = "take"
    /\ queue # <<>>
    /\ LET c == queue[Len(queue)] IN
       /\ current' = c /\ active' = c
       /\ ran' = ran \cup {c}
    /\ queue' = SubSeq(queue, 1, Len(queue) - 1)
    /\ runner' = "running"
    /\ UNCHANGED <<stopped, closed, lock, failing, fut, loopVars>>

TakeCommand ==
    /\ runner = "take"
    /\ queue # <<>>
    /\ LET c == Head(queue) IN
       /\ current' = c /\ active' = c
       /\ ran' = ran \cup {c}
    /\ queue' = Tail(queue)
    /\ runner' = "running"
    /\ UNCHANGED <<stopped, closed, lock, failing, fut, loopVars>>

\* A message goes to the subscriber of the running command, if there is one.
LogMessage ==
    /\ active # NoCall
    /\ logged[active] < MaxMessages
    /\ logged' = [logged EXCEPT ![active] = @ + 1]
    /\ Post("log", active)
    /\ UNCHANGED <<stopped, closed, threadVars, fut, handler>>

\* The command returns or raises.
CommandReturns ==
    /\ runner = "running"
    /\ fut[current] = "pending"
    /\ fut' = [fut EXCEPT ![current] = "outcome"]
    /\ Post("done", current)
    /\ active' = NoCall
    /\ runner' = "check"
    /\ UNCHANGED <<stopped, closed, lock, queue, current, failing, ran, handler, logged>>

\* The hook loop ends with the exception: that of a cancelled future, which
\* takes neither a result nor an error, or one that `except Exception` does not
\* catch; it leaves the future of its command as it is.
CommandEndsLoop ==
    /\ runner = "running"
    /\ fut[current] = "cancelled" \/ current \in Exiting
    /\ active' = NoCall
    /\ runner' = "closing"
    /\ UNCHANGED <<stopped, closed, lock, queue, current, failing, ran, fut, loopVars>>

\* Defect: what is queued is not failed.
CloseWithoutDrain ==
    /\ runner = "closing"
    /\ LoopIsFree
    /\ closed' = TRUE
    /\ runner' = "failing"
    /\ queue' = <<>>
    /\ UNCHANGED <<stopped, lock, current, active, failing, ran, fut, loopVars>>

\* Defect: the drain keeps the entries of the queue instead of their futures.
CloseDrainingEntries ==
    /\ runner = "closing"
    /\ LoopIsFree
    /\ closed' = TRUE
    /\ runner' = "failing"
    /\ failing' = [i \in 1..Len(queue) |-> [command |-> queue[i]]]
    /\ queue' = <<>>
    /\ UNCHANGED <<stopped, lock, current, active, ran, fut, loopVars>>

\* _close() under the lock.
Close ==
    /\ runner = "closing"
    /\ LoopIsFree
    /\ closed' = TRUE
    /\ runner' = "failing"
    /\ failing' = queue
    /\ queue' = <<>>
    /\ UNCHANGED <<stopped, lock, current, active, ran, fut, loopVars>>

\* Outside of the lock: one future after the other, except the cancelled ones.
FailQueued ==
    /\ runner = "failing"
    /\ failing # <<>>
    /\ failing' = Tail(failing)
    /\ LET c == Head(failing) IN
       IF fut[c] = "pending"
       THEN fut' = [fut EXCEPT ![c] = "shutdown"] /\ Post("done", c)
       ELSE UNCHANGED <<fut, ready>>
    /\ UNCHANGED <<stopped, closed, lock, queue, runner, current, active, ran, handler, logged>>

RunnerEnds ==
    /\ runner = "failing"
    /\ failing = <<>>
    /\ runner' = "ended"
    /\ UNCHANGED <<stopped, closed, lock, queue, current, active, failing, ran, fut, loopVars>>

-----------------------------------------------------------------------------

RunnerStep ==
    \/ CheckStopped \/ TakeNothing \/ TakeCommand \/ CommandReturns \/ CommandEndsLoop
    \/ Close \/ FailQueued \/ RunnerEnds

LoopStep(c) == SubmitPut(c) \/ CancelFuture(c)

Next ==
    \/ Stop \/ RunnerStep \/ LogMessage \/ RunCallback
    \/ \E c \in Calls : SubmitCheck(c) \/ CancelHandler(c) \/ LoopStep(c)

Spec == Init /\ [][Next]_vars

\* Both threads go on, and every command that is run comes to its end.
FairSpec ==
    /\ Spec
    /\ WF_vars(RunnerStep) /\ WF_vars(RunCallback)
    /\ \A c \in Calls : WF_vars(LoopStep(c))

-----------------------------------------------------------------------------
(* The runner implements CommandService. *)

InSeq(c, s) == \E i \in 1..Len(s) : s[i] = c

CommandState(c) ==
    CASE c \in ran -> IF runner = "running" /\ current = c THEN "running" ELSE "finished"
      [] c \notin ran /\ fut[c] = "none" -> "new"
      [] c \notin ran /\ fut[c] # "none" -> IF InSeq(c, queue) THEN "waiting" ELSE "dropped"

Mode ==
    CASE closed -> "shut"
      [] ~closed /\ ~stopped /\ runner # "closing" -> "open"
      [] ~closed /\ stopped /\ runner = "take" -> "last"
      [] OTHER -> "over"

Service == INSTANCE CommandService WITH
    mode <- Mode,
    line <- queue,
    state <- [c \in Calls |-> CommandState(c)],
    answer <- [c \in Calls |-> IF fut[c] \in {"outcome", "shutdown"} THEN fut[c] ELSE "none"]

\* Commands run one at a time and in order, at most one of them is started
\* after the stop began, and exactly those that never run are told of the
\* shutdown.
ServiceSpec == Service!Spec

-----------------------------------------------------------------------------
(* Properties *)

\* "a command is either run by the loop, failed by the drain, or rejected on
\* submit" (the comment at _lock): whatever is submitted while the loop ends,
\* no future is left that nobody will complete.
NoCommandLost ==
    \A c \in Calls : fut[c] = "pending" =>
        \/ InSeq(c, queue) /\ runner \notin {"failing", "ended"}
        \/ InSeq(c, failing)
        \/ c = current

\* The client gets all the log messages of a call before its response, and no
\* message after it, although both come from another thread.
LogsPrecedeResponse ==
    \A c \in Calls : handler[c] = "returned" =>
        active # c /\ \A i \in 1..Len(ready) : ready[i].call # c

\* "None of them SHALL stay unanswered" (openspec/specs/server/spec.md): a handler
\* that a client waits for gets its answer, whatever happens to the runner in
\* between. Only a command that itself ends the runner is left without one.
HandlersReturn ==
    \A c \in Calls \ Exiting : handler[c] = "submitting" ~> handler[c] \in {"returned", "cancelled"}

=============================================================================
