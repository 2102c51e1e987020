-------------------------- MODULE MessageDispatch --------------------------
(***************************************************************************)
(* handle_message() of a JsonRpcPeer: the tasks that the read loop starts. *)
(* Each handles one message or the elements of one batch, one after the    *)
(* other, while the other tasks go on; it calls the handlers, settles the  *)
(* waiting requests with the responses, and writes one answer or none.     *)
(***************************************************************************)
EXTENDS MessageFraming

CONSTANTS
    FromDict(_, _),     \* from_dict(): of a value and types, the set of its result, {} if it fails
    Handlers,   \* of requests, by method: [type, ends], where ends is what a call comes to
    Notified,   \* of notifications, the same
    Waiting     \* the ids of the requests of this peer that wait for their responses

VARIABLES
    tasks,      \* of each started task: [next element, answers, whether its handler runs, over]
    calls,      \* what a waiting request has got
    written,    \* the answers that the writer has got
    read        \* history: the params that were converted for a handler, [type, sent, got]

dispatchVars == <<tasks, calls, written, read>>
vars == <<readerVars, dispatchVars>>

\* What a call of a handler comes to.
Outcomes == {"result", "own error", "internal error", "unwritable"}

ASSUME HandlersAssumption ==
    /\ \A m \in DOMAIN Handlers : Handlers[m].ends \in Outcomes
    /\ \A m \in DOMAIN Notified : Notified[m].ends \in Outcomes
ASSUME ElementsAssumption ==
    \A e \in Elements : e.object \in BOOLEAN /\ e.version \in BOOLEAN

Fresh == [next |-> 1, answers |-> <<>>, running |-> FALSE, over |-> FALSE]

DispatchInit ==
    /\ Init
    /\ tasks = <<>> /\ written = <<>> /\ read = {}
    /\ calls = [id \in Waiting |-> "waiting"]

\* The loop goes on reading while the tasks run.
ReadOn ==
    /\ ReaderStep
    /\ tasks' = [i \in DOMAIN started' |-> IF i \in DOMAIN tasks THEN tasks[i] ELSE Fresh]
    /\ UNCHANGED <<calls, written, read>>

-----------------------------------------------------------------------------
(* The members of an element: the id is "absent", "null", of another type ("bad"),     *)
(* or usable; the method "absent", "bad" or a name; the error and the result may be    *)
(* "absent" or "null".                                                                 *)

NoIds == {"absent", "null", "bad"}
UsableId(e) == IF e.id \in NoIds THEN "null" ELSE e.id

IsResponse(e) == e.object /\ e.id # "absent" /\ e.method = "absent"

\* A null counts as missing.
NoParams == [k |-> "null", v |-> "null"]
ParamsOf(e) == IF e.params.k = "absent" THEN NoParams ELSE e.params
ParamsUsable(e) == ParamsOf(e).k \in {"null", "list", "object"}

\* Defect: params of a wrong kind are left to the handler.
IsInvalidButForParams(e) ==
    \/ ~e.object
    \/ ~IsResponse(e) /\ (~e.version \/ e.method \in {"absent", "bad"} \/ e.id \in NoIds \ {"absent"})

IsInvalid(e) ==
    \/ ~e.object
    \/ ~IsResponse(e) /\ \/ ~e.version
                         \/ e.method \in {"absent", "bad"}
                         \/ ~ParamsUsable(e)
                         \/ e.id \in NoIds \ {"absent"}
IsNotification(e) == ~IsInvalid(e) /\ e.id = "absent"

Current(i) == started[i].message.elements[tasks[i].next]
Reply(id, code) == <<[id |-> id, code |-> code]>>

\* The task goes on to its next element, with the answers to this one.
Advanced(task, answers) ==
    [task EXCEPT !.next = @ + 1, !.running = FALSE, !.answers = @ \o answers]
GoOn(i, answers) == tasks' = [tasks EXCEPT ![i] = Advanced(@, answers)]

\* Defect: a response whose error is null is an error.
VerdictByMember(e) ==
    IF ~e.version THEN "invalid version"
    ELSE IF e.error # "absent" THEN "error"
    ELSE IF e.result = "absent" THEN "invalid response" ELSE "result"

\* What a waiting request gets from a response: the failure of an invalid one, too.
Verdict(e) ==
    IF ~e.version THEN "invalid version"
    ELSE IF e.error = "error" THEN "error"
    ELSE IF e.result = "absent" THEN "invalid response" ELSE "result"

HandleResponse(e) ==
    calls' = IF e.id \in Waiting /\ calls[e.id] = "waiting"
             THEN [calls EXCEPT ![e.id] = Verdict(e)] ELSE calls

\* A task that still has an element to handle, and no handler running.
Busy(i) ==
    /\ started[i].does = "handle" /\ ~tasks[i].running
    /\ tasks[i].next <= Len(started[i].message.elements)

AnswerInvalid(i) ==
    /\ Busy(i) /\ IsInvalid(Current(i))
    /\ GoOn(i, Reply(IF Current(i).object THEN UsableId(Current(i)) ELSE "null", "invalid request"))
    /\ UNCHANGED <<readerVars, calls, written, read>>

TakeResponse(i) ==
    /\ Busy(i) /\ IsResponse(Current(i))
    /\ HandleResponse(Current(i))
    /\ GoOn(i, <<>>)
    /\ UNCHANGED <<readerVars, written, read>>

-----------------------------------------------------------------------------
(* Requests and notifications *)

TableFor(e) == IF IsNotification(e) THEN Notified ELSE Handlers

\* The answer to a request; a notification gets none, whatever happens.
ReplyTo(e, code) == IF IsNotification(e) THEN <<>> ELSE Reply(e.id, code)

IsCall(e) == ~IsInvalid(e) /\ ~IsResponse(e)

UnknownMethod(i) ==
    LET e == Current(i)
    IN /\ Busy(i) /\ IsCall(e) /\ e.method \notin DOMAIN TableFor(e)
       /\ GoOn(i, ReplyTo(e, "method not found"))
       /\ UNCHANGED <<readerVars, calls, written, read>>

\* from_dict() with the type of the handler, then the handler, up to its first await.
CallHandler(i) ==
    LET e == Current(i)
        type == TableFor(e)[e.method].type
        got == FromDict(ParamsOf(e), <<type>>)
    IN /\ Busy(i) /\ IsCall(e) /\ e.method \in DOMAIN TableFor(e)
       /\ read' = read \cup {[type |-> type, sent |-> ParamsOf(e), got |-> got]}
       /\ IF got = {} THEN GoOn(i, ReplyTo(e, "invalid params"))
                      ELSE tasks' = [tasks EXCEPT ![i].running = TRUE]
       /\ UNCHANGED <<readerVars, calls, written>>

\* With a result, an error response of its own, another exception, or a result that cannot be written.
HandlerReturns(i) ==
    LET e == Current(i)
    IN /\ tasks[i].running
       /\ GoOn(i, ReplyTo(e, TableFor(e)[e.method].ends))
       /\ UNCHANGED <<readerVars, calls, written, read>>

-----------------------------------------------------------------------------
(* Answers *)

\* Defect: the batch is encoded as a whole.
EncodedTogether(answers) ==
    IF \E j \in DOMAIN answers : answers[j].code = "unwritable"
    THEN Reply("null", "internal error") ELSE answers

\* Each response on its own: one that cannot be written, or is too long, becomes an error.
Encoded(answers) ==
    [j \in DOMAIN answers |->
        IF answers[j].code = "unwritable" THEN [answers[j] EXCEPT !.code = "internal error"] ELSE answers[j]]

Answer(batch, items) == [batch |-> batch, items |-> items]

\* What a task writes at its end, if anything.
AnswerOf(i) ==
    LET message == started[i].message
        answers == tasks[i].answers
    IN IF started[i].does = "report" THEN <<Answer(FALSE, Reply("null", started[i].code))>>
       ELSE IF message.form = "text" THEN <<Answer(FALSE, Reply("null", "parse error"))>>
       ELSE IF message.form = "batch" /\ message.elements = <<>>
            THEN <<Answer(FALSE, Reply("null", "invalid request"))>>
       ELSE IF answers = <<>> THEN <<>>
       ELSE <<Answer(message.form = "batch", Encoded(answers))>>

\* The task hands its answer to the writer. Once the read loop has ended, the writer
\* may have been closed: then it sends nothing of it.
EndTask(i) ==
    /\ ~tasks[i].over /\ ~tasks[i].running /\ ~Busy(i)
    /\ written' = written \o AnswerOf(i)
    /\ tasks' = [tasks EXCEPT ![i].over = TRUE]
    /\ UNCHANGED <<readerVars, calls, read>>

TaskStep(i) ==
    \/ AnswerInvalid(i) \/ TakeResponse(i) \/ UnknownMethod(i)
    \/ CallHandler(i) \/ HandlerReturns(i) \/ EndTask(i)

Next == ReadOn \/ \E i \in DOMAIN tasks : TaskStep(i)

Spec == DispatchInit /\ [][Next]_vars

-----------------------------------------------------------------------------
(* Properties *)

Codes == Outcomes \cup {"parse error", "invalid request", "method not found", "invalid params"}
Item == [id : {"null"} \cup {e.id : e \in Elements}, code : Codes]

TypeOK ==
    /\ ReaderTypeOK
    /\ tasks \in Seq([next : Nat \ {0}, answers : Seq(Item), running : BOOLEAN, over : BOOLEAN])
    /\ Len(tasks) = Len(started)
    /\ calls \in [Waiting -> {"waiting", "invalid version", "error", "invalid response", "result"}]
    /\ written \in Seq([batch : BOOLEAN, items : Seq(Item)])

AllOver == reader = "ended" /\ \A i \in DOMAIN tasks : tasks[i].over

\* What the requirements say of one element, by its members: [id, code] or nothing.
WellFormed(e) ==
    /\ e.object /\ e.version /\ e.method \notin {"absent", "bad"}
    /\ e.params.k \in {"absent", "null", "list", "object"}
Convertible(e) == FromDict(ParamsOf(e), <<Handlers[e.method].type>>) # {}
OutcomeOf(e) ==
    IF e.method \notin DOMAIN Handlers THEN "method not found"
    ELSE IF ~Convertible(e) THEN "invalid params"
    ELSE IF Handlers[e.method].ends = "unwritable" THEN "internal error" ELSE Handlers[e.method].ends

Expected(e) ==
    LET usable == e.object /\ e.id \notin NoIds
        response == e.object /\ e.id # "absent" /\ e.method = "absent"
    IN IF response \/ (WellFormed(e) /\ e.id = "absent") THEN <<>>
       ELSE Reply(IF usable THEN e.id ELSE "null",
                  IF WellFormed(e) /\ usable THEN OutcomeOf(e) ELSE "invalid request")

ExpectedAnswer(task) ==
    LET m == task.message
        items == FlattenSeq([j \in DOMAIN m.elements |-> Expected(m.elements[j])])
        failure == IF task.does = "report" THEN task.code
                   ELSE IF m.form = "text" THEN "parse error"
                   ELSE IF m.form = "batch" /\ m.elements = <<>> THEN "invalid request" ELSE "none"
    IN IF failure # "none" THEN <<Answer(FALSE, Reply("null", failure))>>
       ELSE IF items = <<>> THEN <<>> ELSE <<Answer(m.form = "batch", items)>>

\* Each answer that the writer has got is the one that a task of its own calls for, and each task that
\* calls for an answer has written it: every request gets one answer, in the one array of its batch
\* if it has one, with its own id and the outcome of its own handler; an invalid message gets an
\* error, and a notification, a response and a batch of such get nothing. In any order of the tasks.
EveryRequestAnswered ==
    AllOver =>
        \E task \in Bijection(DOMAIN written, {i \in DOMAIN started : ExpectedAnswer(started[i]) # <<>>}) :
            \A k \in DOMAIN written : ExpectedAnswer(started[task[k]]) = <<written[k]>>

\* The places of the responses in a task for one request.
ResponsesFor(id, task) ==
    IF task.does = "report" THEN {}
    ELSE {j \in DOMAIN task.message.elements :
            IsResponse(task.message.elements[j]) /\ task.message.elements[j].id = id}

\* A waiting request is settled by the first response with its id in one of the messages, alone or
\* in a batch, and goes on waiting if there is none. An invalid response fails it.
ResponsesSettle ==
    AllOver =>
        \A id \in Waiting :
            LET some == {i \in DOMAIN started : ResponsesFor(id, started[i]) # {}}
                first(i) == started[i].message.elements[Min(ResponsesFor(id, started[i]))]
            IN IF some = {} THEN calls[id] = "waiting"
               ELSE \E i \in some :
                    /\ calls[id] = "result" <=> first(i).version /\ first(i).error # "error" /\ first(i).result # "absent"
                    /\ calls[id] = "error" <=> first(i).version /\ first(i).error = "error"
                    /\ calls[id] # "waiting"
=============================================================================
