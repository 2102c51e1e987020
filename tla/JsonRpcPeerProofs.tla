------------------------- MODULE JsonRpcPeerProofs -------------------------
(***************************************************************************)
(* Proofs about JsonRpcPeer, for any number of callers, stops, handlers    *)
(* and requests.                                                           *)
(***************************************************************************)
EXTENDS JsonRpcPeer, TLAPS

USE NoneIsNoCaller, BoundsAreNaturals, OptionsAreBooleans

-----------------------------------------------------------------------------
(* Type correctness *)

LEMMA SeqTailAppend ==
    ASSUME NEW S, NEW s \in Seq(S), NEW e \in S
    PROVE  /\ Append(s, e) \in Seq(S)
           /\ s # <<>> => Head(s) \in S /\ Tail(s) \in Seq(S)
  OBVIOUS

LEMMA EmptySeq == ASSUME NEW S PROVE <<>> \in Seq(S)
  OBVIOUS

LEMMA CallStateUpdate ==
    ASSUME NEW r \in CallStates,
           NEW pc \in {"idle", "sending", "waiting", "timeout", "cancelled"},
           NEW f \in {"none", "pending", "result", "error", "closed", "cancelled"}
    PROVE  /\ [r EXCEPT !.pc = pc, !.fut = f] \in CallStates
           /\ \A o \in {"result", "error", "closed", "writeError", "timeout", "cancelled"} :
                [r EXCEPT !.pc = pc, !.fut = f, !.outcome = o] \in CallStates
           /\ \A v \in Callers : [r EXCEPT !.fut = f, !.value = v] \in CallStates
  <1>1. [r EXCEPT !.pc = pc] \in CallStates
    BY DEF CallStates
  <1>2. [r EXCEPT !.pc = pc, !.fut = f] \in CallStates
    BY <1>1 DEF CallStates
  <1>3. \A o \in {"result", "error", "closed", "writeError", "timeout", "cancelled"} :
          [r EXCEPT !.pc = pc, !.fut = f, !.outcome = o] \in CallStates
    BY <1>2 DEF CallStates
  <1>4. [r EXCEPT !.fut = f] \in CallStates
    BY DEF CallStates
  <1>5. \A v \in Callers : [r EXCEPT !.fut = f, !.value = v] \in CallStates
    BY <1>4 DEF CallStates
  <1> QED BY <1>2, <1>3, <1>5

LEMMA CallUpdate ==
    ASSUME TypeOK, NEW c \in Callers, NEW new \in CallStates,
           call' = [call EXCEPT ![c] = new]
    PROVE  call' \in [Callers -> CallStates]
  BY DEF TypeOK

LEMMA FinishType ==
    ASSUME TypeOK, NEW how \in {"clean", "error"}, Finish(how)
    PROVE  /\ running' \in BOOLEAN /\ closed' \in BOOLEAN
           /\ completion' \in {"unset", "clean", "error"}
           /\ pending' \in [Ids -> Callers \cup {None}]
           /\ call' \in [Callers -> CallStates]
           /\ writer' \in {"open", "closing", "closed"}
  <1>1. ASSUME NEW c \in Callers
        PROVE  call[c] \in CallStates /\ [call[c] EXCEPT !.fut = "closed"] \in CallStates
    BY <1>1, SMTT(20) DEF TypeOK, CallStates
  <1>2. call' \in [Callers -> CallStates]
    BY <1>1 DEF Finish, MarkClosed
  <1>3. QED
    BY <1>2 DEF Finish, MarkClosed, TypeOK

LEMMA ReadType == TypeOK /\ ReadStep => TypeOK'
  <1> SUFFICES ASSUME TypeOK, ReadStep PROVE TypeOK'
    OBVIOUS
  <1>1. CASE BeginReading
    <2>1. CASE running
      BY <1>1, <2>1 DEF BeginReading, TypeOK, endVars, workVars, linkVars, EndReading
    <2>2. CASE ~running
      BY <1>1, <2>2, FinishType DEF BeginReading, TypeOK, endVars, workVars, linkVars, EndReading
    <2> QED BY <2>1, <2>2
  <1>2. CASE ReadMessage
    <2>1. incoming' \in Seq(Messages) /\ tasks' \in Seq(Messages)
      BY <1>2, SeqTailAppend DEF ReadMessage, TypeOK
    <2>2. CASE running
      BY <1>2, <2>1, <2>2 DEF ReadMessage, TypeOK, endVars, readVars, workVars, linkVars, EndReading
    <2>3. CASE ~running
      BY <1>2, <2>1, <2>3, FinishType
      DEF ReadMessage, TypeOK, endVars, readVars, workVars, linkVars, EndReading
    <2> QED BY <2>2, <2>3
  <1>3. CASE ReadEnd
    BY <1>3, FinishType DEF ReadEnd, TypeOK, workVars, linkVars, EndReading
  <1>4. CASE ReadCancelled
    BY <1>4, FinishType DEF ReadCancelled, TypeOK, workVars, linkVars, endVars, EndReading
  <1>5. CASE CloseWaited
    BY <1>5 DEF CloseWaited, TypeOK, workVars, linkVars, endVars
  <1> QED BY <1>1, <1>2, <1>3, <1>4, <1>5 DEF ReadStep

LEMMA LeaveType ==
    ASSUME TypeOK, NEW c \in Callers,
           NEW how \in {"result", "error", "closed", "writeError", "timeout", "cancelled"},
           Leave(c, how)
    PROVE  TypeOK'
  <1>1. [call[c] EXCEPT !.pc = "idle", !.fut = "none", !.outcome = how] \in CallStates
    <2>1. call[c] \in CallStates
      BY DEF TypeOK
    <2> QED BY <2>1, CallStateUpdate
  <1>2. call' \in [Callers -> CallStates]
    BY <1>1, CallUpdate DEF Leave
  <1> QED
    BY <1>1, <1>2, ZenonT(30) DEF Leave, TypeOK, readVars, workVars, linkVars

LEMMA CallType ==
    ASSUME TypeOK, NEW c \in Callers,
           \/ NewCall(c) \/ RequestDrained(c) \/ CallStep(c)
           \/ \E how \in {"timeout", "cancelled"} : InterruptRequest(c, how)
    PROVE  TypeOK'
  <1>0. call[c] \in CallStates
    BY DEF TypeOK
  <1>1. CASE RefuseRequest(c)
    <2>1. [call[c] EXCEPT !.outcome = "closed"] \in CallStates
      BY <1>0 DEF CallStates
    <2> QED
      BY <1>1, <2>1, CallUpdate DEF RefuseRequest, TypeOK, readVars, workVars, linkVars
  <1>2. CASE SendRequest(c)
    <2>1. nextId \in Ids
      BY <1>2 DEF SendRequest, TypeOK, Ids
    <2>2. call' \in [Callers -> CallStates]
      BY <1>2, <2>1 DEF SendRequest, TypeOK, CallStates
    <2>3. asked' \in SUBSET Requests
      BY <1>2, <2>1 DEF SendRequest, TypeOK, Requests
    <2>4. nextId' \in 1..(MaxRequests + 1)
      BY <1>2 DEF SendRequest, TypeOK
    <2> QED
      BY <1>2, <2>1, <2>2, <2>3, <2>4 DEF SendRequest, TypeOK, readVars, workVars
  <1>8. CASE EncodeFails(c)
    <2>1. [call[c] EXCEPT !.outcome = "encodeError"] \in CallStates
      BY <1>0 DEF CallStates
    <2>2. call' \in [Callers -> CallStates]
      BY <1>8, <2>1, CallUpdate DEF EncodeFails
    <2>3. nextId' \in 1..(MaxRequests + 1)
      BY <1>8 DEF EncodeFails, TypeOK
    <2> QED
      BY <1>8, <2>2, <2>3 DEF EncodeFails, TypeOK, readVars, workVars, linkVars
  <1>3. CASE RequestDrained(c)
    <2>1. [call[c] EXCEPT !.pc = "waiting"] \in CallStates
      BY <1>0 DEF CallStates
    <2> QED
      BY <1>3, <2>1, CallUpdate DEF RequestDrained, TypeOK, readVars, workVars, linkVars
  <1>4. CASE RequestDrainFails(c)
    BY <1>4, LeaveType DEF RequestDrainFails
  <1>5. CASE RequestAnswered(c)
    BY <1>5, LeaveType DEF RequestAnswered
  <1>6. CASE AbandonRequest(c)
    BY <1>6, LeaveType DEF AbandonRequest
  <1>7. ASSUME NEW how \in {"timeout", "cancelled"}, InterruptRequest(c, how)
        PROVE  TypeOK'
    <2> DEFINE new(f) == [call[c] EXCEPT !.pc = how, !.fut = f]
    <2>1. \A f \in {call[c].fut, "cancelled"} : new(f) \in CallStates
      <3>1. call[c].fut \in {"none", "pending", "result", "error", "closed", "cancelled"}
        BY <1>0 DEF CallStates
      <3> QED BY <1>0, <3>1, CallStateUpdate, ZenonT(30)
    <2>2. \E f \in {call[c].fut, "cancelled"} : call' = [call EXCEPT ![c] = new(f)]
      <3>1. CASE call[c].pc = "waiting" /\ call[c].fut = "pending"
        <4>1. call' = [call EXCEPT ![c] = new("cancelled")]
          BY <1>7, <3>1 DEF InterruptRequest
        <4> QED BY <4>1
      <3>2. CASE ~(call[c].pc = "waiting" /\ call[c].fut = "pending")
        <4>1. call' = [call EXCEPT ![c] = new(call[c].fut)]
          BY <1>7, <3>2 DEF InterruptRequest
        <4> QED BY <4>1
      <3> QED BY <3>1, <3>2
    <2>3. call' \in [Callers -> CallStates]
      BY <2>1, <2>2, CallUpdate
    <2> QED
      BY <1>7, <2>3 DEF InterruptRequest, TypeOK, readVars, workVars, linkVars
  <1> QED
    BY <1>1, <1>2, <1>3, <1>4, <1>5, <1>6, <1>7, <1>8 DEF NewCall, CallStep

LEMMA TaskType == TypeOK /\ RunTask => TypeOK'
  <1> SUFFICES ASSUME TypeOK, RunTask PROVE TypeOK'
    OBVIOUS
  <1> DEFINE msg == Head(tasks)
  <1>1. msg \in Messages /\ tasks' \in Seq(Messages)
    BY SeqTailAppend DEF RunTask, TypeOK
  <1>2. CASE msg.kind = "request"
    <2>1. msg.key \in Inbound
      BY <1>1, <1>2 DEF Messages, Responses
    <2> QED
      BY <1>1, <1>2, <2>1 DEF RunTask, TypeOK, readVars, linkVars
  <1>3. CASE msg.kind # "request"
    <2>1. msg \in Responses
      BY <1>1, <1>3 DEF Messages
    <2>2. msg.id \in Ids /\ msg.by \in Callers /\ msg.kind \in {"result", "error"}
      BY <2>1 DEF Responses
    <2>3. HandleResponse(msg)
      BY <1>3 DEF RunTask
    <2>4. pending' \in [Ids -> Callers \cup {None}]
      BY <2>2, <2>3 DEF HandleResponse, TypeOK
    <2> DEFINE c == pending[msg.id]
    <2>5. call' \in [Callers -> CallStates]
      <3>1. CASE c # None /\ call[c].fut = "pending"
        <4>1. c \in Callers
          BY <2>2, <3>1 DEF TypeOK
        <4>2. [call[c] EXCEPT !.fut = msg.kind, !.value = msg.by] \in CallStates
          <5>1. call[c] \in CallStates
            BY <4>1 DEF TypeOK
          <5> QED BY <2>2, <4>1, <5>1, CallStateUpdate
        <4>3. call' = [call EXCEPT ![c] = [call[c] EXCEPT !.fut = msg.kind, !.value = msg.by]]
          BY <2>3, <3>1 DEF HandleResponse
        <4> QED
          BY <4>1, <4>2, <4>3, CallUpdate
      <3>2. CASE ~(c # None /\ call[c].fut = "pending")
        BY <2>3, <3>2 DEF HandleResponse, TypeOK
      <3> QED BY <3>1, <3>2
    <2> QED
      BY <1>1, <1>3, <2>4, <2>5 DEF RunTask, TypeOK, readVars, linkVars
  <1> QED BY <1>2, <1>3

LEMMA StopType ==
    ASSUME TypeOK, NEW s \in Stoppers, StopReading(s) \/ StopAtOnce(s) \/ StopResumes(s)
    PROVE  TypeOK'
  <1>1. CASE StopReading(s)
    BY <1>1 DEF StopReading, TypeOK, endVars, linkVars
  <1>2. CASE StopCancelInflight(s)
    BY <1>2, EmptySeq DEF StopCancelInflight, TypeOK, endVars, readVars, linkVars
  <1>3. CASE StopFinish(s)
    <2>1. CASE closed
      BY <1>3, <2>1 DEF StopFinish, TypeOK, endVars, readVars, linkVars
    <2>2. CASE ~closed
      BY <1>3, <2>2, FinishType DEF StopFinish, TypeOK, readVars, linkVars
    <2> QED BY <2>1, <2>2
  <1> QED BY <1>1, <1>2, <1>3 DEF StopAtOnce, StopResumes

LEMMA EnvironmentType ==
    ASSUME TypeOK,
           \/ Start \/ RemoteEnds \/ ConnectionLost \/ WriterCloses \/ EndConnection
           \/ \E m \in Inbound : RemoteCalls(m) \/ HandlerReturns(m) \/ HandlerEnds(m)
           \/ \E q \in asked : RemoteAnswers(q)
    PROVE  TypeOK'
  <1>1. CASE Start
    BY <1>1 DEF Start, TypeOK, endVars, workVars, linkVars
  <1>2. CASE RemoteEnds \/ WriterCloses \/ EndConnection
    <2>1. stream' \in {"open", "eof", "cut", "reset"}
      BY <1>2 DEF RemoteEnds, WriterCloses, EndConnection, FeedEof, TypeOK
    <2> QED
      BY <1>2, <2>1, ZenonT(30) DEF RemoteEnds, WriterCloses, EndConnection, TypeOK, endVars, readVars, workVars
  <1>6. CASE ConnectionLost
    BY <1>6 DEF ConnectionLost, TypeOK, endVars, readVars, workVars
  <1>3. ASSUME NEW m \in Inbound, RemoteCalls(m) PROVE TypeOK'
    <2>1. [kind |-> "request", key |-> m] \in Messages
      BY DEF Messages
    <2>2. incoming' \in Seq(Messages)
      BY <1>3, <2>1, SeqTailAppend DEF RemoteCalls, TypeOK
    <2> QED
      BY <1>3, <2>2 DEF RemoteCalls, TypeOK, endVars, readVars
  <1>4. ASSUME NEW m \in Inbound, HandlerReturns(m) \/ HandlerEnds(m) PROVE TypeOK'
    BY <1>4 DEF HandlerReturns, HandlerEnds, TypeOK, endVars, readVars, linkVars
  <1>5. ASSUME NEW q \in asked, RemoteAnswers(q) PROVE TypeOK'
    <2>1. ASSUME NEW kind \in {"result", "error"}
          PROVE  [kind |-> kind, id |-> q.id, by |-> q.by] \in Messages
      BY DEF Messages, Responses, Requests, TypeOK
    <2>2. incoming' \in Seq(Messages)
      BY <1>5, <2>1, SeqTailAppend DEF RemoteAnswers, TypeOK
    <2> QED
      BY <1>5, <2>2 DEF RemoteAnswers, TypeOK, endVars, readVars, workVars
  <1> QED BY <1>1, <1>2, <1>3, <1>4, <1>5, <1>6

LEMMA InitType == Init => TypeOK
  <1>1. <<>> \in Seq(Messages)
    BY EmptySeq
  <1>2. NoCall \in CallStates
    BY DEF NoCall, CallStates
  <1>3. 1 \in 1..(MaxRequests + 1)
    OBVIOUS
  <1> QED BY <1>1, <1>2, <1>3 DEF Init, TypeOK

LEMMA TypeStep == TypeOK /\ [Next]_vars => TypeOK'
  <1>1. TypeOK /\ Next => TypeOK'
    BY ReadType, CallType, TaskType, StopType, EnvironmentType DEF Next
  <1>2. TypeOK /\ UNCHANGED vars => TypeOK'
    BY DEF vars, TypeOK, readVars, endVars, workVars, linkVars
  <1> QED BY <1>1, <1>2

\* Every variable of the peer keeps its type: no step takes an id, a message or
\* a caller's state out of its domain.
THEOREM TypeCorrect == Spec => []TypeOK
  BY InitType, TypeStep, PTL DEF Spec

-----------------------------------------------------------------------------
(* The inductive invariant about requests: Registered says where the closure *)
(* finds the pending futures, PendingIsLive what else is registered, and     *)
(* ClosedStops what the closure leaves behind.                               *)

\* The request of a pending future is registered under its own id, so that the
\* closure finds it; ids are used once.
Registered ==
    /\ \A c \in Callers :
         /\ call[c].pc = "idle" => call[c].fut = "none"
         /\ call[c].pc # "idle" => call[c].id # 0
         /\ call[c].fut = "pending" => pending[call[c].id] = c
         /\ call[c].id < nextId
         /\ \A d \in Callers : c # d /\ call[c].id = call[d].id => call[c].id = 0
    /\ \A i \in Ids : pending[i] # None => i < nextId

\* Whoever waits for the completion finds a peer that has closed, and the
\* other way round.
CompletionMeansClosed == (completion # "unset") <=> closed

ClosedStops ==
    /\ closed => ~running
    /\ \A c \in Callers : "closed" \in {call[c].fut, call[c].outcome} => closed

CallInv ==
    /\ TypeOK
    /\ Registered
    /\ PendingIsLive
    /\ NoStrandedRequest
    /\ CompletionMeansClosed
    /\ ClosedStops

LEMMA CallInvInit == Init => CallInv
  <1>1. Init => TypeOK
    BY InitType
  <1>2. Init => Registered /\ PendingIsLive
    BY DEF Init, Registered, PendingIsLive, NoCall, Ids
  <1>3. Init => NoStrandedRequest /\ CompletionMeansClosed /\ ClosedStops
    BY DEF Init, NoStrandedRequest, CompletionMeansClosed, ClosedStops, NoCall
  <1> QED BY <1>1, <1>2, <1>3 DEF CallInv

\* A step that touches no request and does not end the peer.
LEMMA FrameInv ==
    ASSUME CallInv, TypeOK',
           UNCHANGED <<closed, completion, pending, call, nextId>>,
           running' => running \/ ~closed
    PROVE  CallInv'
  BY DEF CallInv, Registered, PendingIsLive, NoStrandedRequest, CompletionMeansClosed, ClosedStops

LEMMA FinishInv ==
    ASSUME CallInv, TypeOK', NEW how \in {"clean", "error"}, Finish(how), UNCHANGED nextId
    PROVE  CallInv'
  <1>1. \A c \in Callers : call[c] \in CallStates /\ call[c].id \in Ids \cup {0}
    BY DEF CallInv, TypeOK, CallStates
  <1>2. \A c \in Callers : call[c].fut = "pending" => \E i \in Ids : pending[i] = c
    <2> SUFFICES ASSUME NEW c \in Callers, call[c].fut = "pending"
                 PROVE  \E i \in Ids : pending[i] = c
      OBVIOUS
    <2>1. call[c].id \in Ids /\ pending[call[c].id] = c
      BY <1>1 DEF CallInv, Registered, CallStates
    <2> QED BY <2>1
  <1>3. \A c \in Callers :
          /\ call'[c].pc = call[c].pc /\ call'[c].id = call[c].id
          /\ call'[c].outcome = call[c].outcome
          /\ call'[c].fut = IF call[c].fut = "pending" THEN "closed" ELSE call[c].fut
    BY <1>1, <1>2 DEF Finish, MarkClosed, CallStates
  <1>4. closed' /\ ~running' /\ completion' # "unset"
    BY DEF Finish, MarkClosed, CallInv, TypeOK
  <1>5. \A i \in Ids : pending'[i] = None
    BY DEF Finish, MarkClosed
  <1>6. Registered'
    BY <1>3, <1>5 DEF CallInv, Registered
  <1>7. PendingIsLive'
    BY <1>5 DEF PendingIsLive
  <1>8. NoStrandedRequest' /\ CompletionMeansClosed' /\ ClosedStops'
    BY <1>3, <1>4 DEF NoStrandedRequest, CompletionMeansClosed, ClosedStops
  <1> QED BY <1>6, <1>7, <1>8 DEF CallInv

LEMMA LeaveInv ==
    ASSUME CallInv, TypeOK', NEW c \in Callers,
           NEW how \in {"result", "error", "closed", "writeError", "timeout", "cancelled"},
           Leave(c, how), call[c].pc # "idle", how = "closed" => closed
    PROVE  CallInv'
  <1>1. /\ \A d \in Callers : call[d] \in CallStates /\ call[d].id \in Ids \cup {0}
        /\ call[c].id \in Ids
        /\ pending \in [Ids -> Callers \cup {None}]
    BY DEF CallInv, TypeOK, CallStates, Registered
  <1>2. /\ call'[c].pc = "idle" /\ call'[c].fut = "none"
        /\ call'[c].outcome = how /\ call'[c].id = call[c].id
        /\ \A d \in Callers : d # c => call'[d] = call[d]
    BY <1>1 DEF Leave, CallInv, TypeOK, CallStates
  <1>3. \A i \in Ids : pending'[i] = IF i = call[c].id THEN None ELSE pending[i]
    BY <1>1 DEF Leave
  <1>4. \A d \in Callers : d # c => call[d].id # call[c].id
    BY <1>1 DEF CallInv, Registered, Ids
  <1>5. UNCHANGED <<running, closed, completion, nextId>>
    BY DEF Leave
  <1>6. Registered'
    BY <1>1, <1>2, <1>3, <1>4, <1>5 DEF CallInv, Registered
  <1>7. PendingIsLive'
    BY <1>1, <1>2, <1>3 DEF CallInv, PendingIsLive
  <1>8. NoStrandedRequest' /\ CompletionMeansClosed' /\ ClosedStops'
    BY <1>2, <1>5 DEF CallInv, NoStrandedRequest, CompletionMeansClosed, ClosedStops
  <1> QED BY <1>6, <1>7, <1>8 DEF CallInv

\* A step that gives one call a new state, with the same id.
LEMMA ChangeInv ==
    ASSUME CallInv, TypeOK', NEW c \in Callers,
           call'[c].id = call[c].id,
           \A d \in Callers : d # c => call'[d] = call[d],
           call'[c].pc = "idle" <=> call[c].pc = "idle",
           call'[c].fut = "pending" => call[c].fut = "pending",
           call[c].pc = "idle" => call'[c].fut = "none",
           "closed" \in {call'[c].fut, call'[c].outcome} =>
              closed \/ "closed" \in {call[c].fut, call[c].outcome},
           nextId' \in {nextId, nextId + 1},
           UNCHANGED <<running, closed, completion, pending>>
    PROVE  CallInv'
  <1>0. \A i \in Ids \cup {0} : i < nextId => i < nextId'
    BY DEF CallInv, TypeOK, Ids
  <1>4. \A d \in Callers : call[d].id \in Ids \cup {0} /\ call'[d].id = call[d].id
    BY DEF CallInv, TypeOK, CallStates
  <1>1. Registered'
    BY <1>0, <1>4 DEF CallInv, Registered
  <1>2. PendingIsLive'
    <2> SUFFICES ASSUME NEW i \in Ids, pending[i] # None
                 PROVE  call'[pending[i]].pc # "idle" /\ call'[pending[i]].id = i
      BY DEF PendingIsLive
    <2>1. pending[i] \in Callers
      BY DEF CallInv, TypeOK
    <2>2. call[pending[i]].pc # "idle" /\ call[pending[i]].id = i
      BY DEF CallInv, PendingIsLive
    <2> QED BY <2>1, <2>2
  <1>3. NoStrandedRequest' /\ CompletionMeansClosed' /\ ClosedStops'
    BY DEF CallInv, NoStrandedRequest, CompletionMeansClosed, ClosedStops
  <1> QED BY <1>1, <1>2, <1>3 DEF CallInv

LEMMA SendInv ==
    ASSUME CallInv, TypeOK', NEW c \in Callers, SendRequest(c)
    PROVE  CallInv'
  <1>1. nextId \in Ids /\ nextId' = nextId + 1
    BY DEF SendRequest, CallInv, TypeOK, Ids
  <1>2. /\ call'[c] = [pc |-> "sending", id |-> nextId, fut |-> "pending",
                       value |-> None, outcome |-> "none"]
        /\ \A d \in Callers : d # c => call'[d] = call[d]
    BY DEF SendRequest, CallInv, TypeOK
  <1>3. \A i \in Ids : pending'[i] = IF i = nextId THEN c ELSE pending[i]
    BY <1>1 DEF SendRequest, CallInv, TypeOK
  <1>4. \A d \in Callers : call[d].id < nextId /\ call[d].id \in Ids \cup {0}
    BY DEF CallInv, Registered, TypeOK, CallStates
  <1>5. Registered'
    <2>1. ASSUME NEW d \in Callers
          PROVE  /\ call'[d].pc = "idle" => call'[d].fut = "none"
                 /\ call'[d].pc # "idle" => call'[d].id # 0
                 /\ call'[d].fut = "pending" => pending'[call'[d].id] = d
                 /\ call'[d].id < nextId'
      <3>1. CASE d = c
        BY <1>1, <1>2, <1>3, <3>1 DEF Ids
      <3>2. CASE d # c
        <4>1. call'[d] = call[d] /\ call[d].id < nextId /\ call[d].id \in Ids \cup {0}
          BY <1>2, <1>4, <3>2
        <4>2. call[d].fut = "pending" => call[d].id \in Ids
          BY <4>1 DEF CallInv, Registered
        <4> QED
          BY <1>1, <1>3, <4>1, <4>2 DEF CallInv, Registered, Ids
      <3> QED BY <3>1, <3>2
    <2>2. \A d, e \in Callers : d # e /\ call'[d].id = call'[e].id => call'[d].id = 0
      BY <1>1, <1>2, <1>4 DEF CallInv, Registered, Ids
    <2>3. \A i \in Ids : pending'[i] # None => i < nextId'
      BY <1>1, <1>3 DEF CallInv, Registered, Ids
    <2> QED BY <2>1, <2>2, <2>3 DEF Registered
  <1>6. PendingIsLive'
    <2> SUFFICES ASSUME NEW i \in Ids, pending'[i] # None
                 PROVE  call'[pending'[i]].pc # "idle" /\ call'[pending'[i]].id = i
      BY DEF PendingIsLive
    <2>1. CASE i = nextId
      BY <1>2, <1>3, <2>1
    <2>2. CASE i # nextId
      <3>1. pending'[i] = pending[i] /\ pending[i] \in Callers
        BY <1>3, <2>2 DEF CallInv, TypeOK
      <3>2. call[pending[i]].pc # "idle" /\ call[pending[i]].id = i
        BY <3>1 DEF CallInv, PendingIsLive
      <3>3. pending[i] # c
        BY <3>2 DEF SendRequest
      <3> QED BY <1>2, <3>1, <3>2, <3>3
    <2> QED BY <2>1, <2>2
  <1>7. NoStrandedRequest' /\ CompletionMeansClosed' /\ ClosedStops'
    BY <1>2 DEF SendRequest, CallInv, NoStrandedRequest, CompletionMeansClosed, ClosedStops
  <1> QED BY <1>5, <1>6, <1>7 DEF CallInv

LEMMA CallStepInv ==
    ASSUME CallInv, TypeOK', NEW c \in Callers,
           \/ NewCall(c) \/ RequestDrained(c) \/ CallStep(c)
           \/ \E how \in {"timeout", "cancelled"} : InterruptRequest(c, how)
    PROVE  CallInv'
  <1>0. call \in [Callers -> CallStates] /\ call[c] \in CallStates
    BY DEF CallInv, TypeOK
  <1>1. CASE RefuseRequest(c)
    <2>1. /\ call'[c] = [call[c] EXCEPT !.outcome = "closed"]
          /\ \A d \in Callers : d # c => call'[d] = call[d]
      BY <1>0, <1>1 DEF RefuseRequest
    <2>2. call'[c].id = call[c].id /\ call'[c].pc = call[c].pc /\ call'[c].fut = call[c].fut
      BY <1>0, <2>1 DEF CallStates
    <2>3. call[c].fut = "none" /\ closed
      BY <1>1 DEF RefuseRequest, CallInv, Registered
    <2> QED
      BY <1>1, <2>1, <2>2, <2>3, ChangeInv DEF RefuseRequest
  <1>6. CASE EncodeFails(c)
    <2>1. /\ call'[c] = [call[c] EXCEPT !.outcome = "encodeError"]
          /\ \A d \in Callers : d # c => call'[d] = call[d]
      BY <1>0, <1>6 DEF EncodeFails
    <2>2. /\ call'[c].id = call[c].id /\ call'[c].pc = call[c].pc /\ call'[c].fut = call[c].fut
          /\ call'[c].outcome = "encodeError"
      BY <1>0, <2>1 DEF CallStates
    <2>3. call[c].fut = "none"
      BY <1>6 DEF EncodeFails, CallInv, Registered
    <2> QED
      BY <1>6, <2>1, <2>2, <2>3, ChangeInv DEF EncodeFails
  <1>2. CASE SendRequest(c)
    BY <1>2, SendInv
  <1>3. CASE RequestDrained(c)
    <2>1. /\ call'[c] = [call[c] EXCEPT !.pc = "waiting"]
          /\ \A d \in Callers : d # c => call'[d] = call[d]
      BY <1>0, <1>3 DEF RequestDrained
    <2>2. /\ call'[c].id = call[c].id /\ call'[c].fut = call[c].fut
          /\ call'[c].pc = "waiting" /\ call'[c].outcome = call[c].outcome
      BY <1>0, <2>1 DEF CallStates
    <2> QED
      BY <1>3, <2>1, <2>2, ChangeInv DEF RequestDrained
  <1>4. CASE CallStep(c)
    <2>1. call[c].fut = "closed" => closed
      BY DEF CallInv, ClosedStops
    <2>2. CASE RequestDrainFails(c)
      BY <2>1, <2>2, LeaveInv DEF RequestDrainFails
    <2>3. CASE RequestAnswered(c)
      BY <2>1, <2>3, LeaveInv DEF RequestAnswered
    <2>4. CASE AbandonRequest(c)
      BY <2>4, LeaveInv DEF AbandonRequest
    <2> QED BY <1>4, <2>2, <2>3, <2>4 DEF CallStep
  <1>5. ASSUME NEW how \in {"timeout", "cancelled"}, InterruptRequest(c, how)
        PROVE  CallInv'
    <2>1. PICK f \in {call[c].fut, "cancelled"} :
            call' = [call EXCEPT ![c] = [call[c] EXCEPT !.pc = how, !.fut = f]]
      <3>1. CASE call[c].pc = "waiting" /\ call[c].fut = "pending"
        BY <1>5, <3>1 DEF InterruptRequest
      <3>2. CASE ~(call[c].pc = "waiting" /\ call[c].fut = "pending")
        BY <1>5, <3>2 DEF InterruptRequest
      <3> QED BY <3>1, <3>2
    <2>2. /\ call'[c] = [call[c] EXCEPT !.pc = how, !.fut = f]
          /\ \A d \in Callers : d # c => call'[d] = call[d]
      BY <1>0, <2>1
    <2>3. /\ call'[c].id = call[c].id /\ call'[c].outcome = call[c].outcome
          /\ call'[c].pc = how /\ call'[c].fut = f
      BY <1>0, <2>2 DEF CallStates
    <2> QED
      BY <1>5, <2>2, <2>3, ChangeInv DEF InterruptRequest
  <1> QED BY <1>1, <1>2, <1>3, <1>4, <1>5, <1>6 DEF NewCall

\* A response reaches the future of a call, and nothing else of the calls.
LEMMA FutureSet ==
    ASSUME TypeOK, NEW c \in Callers, NEW f, NEW v,
           call' = [call EXCEPT ![c] = [call[c] EXCEPT !.fut = f, !.value = v]]
    PROVE  /\ \A d \in Callers : d # c => call'[d] = call[d]
           /\ call'[c].fut = f
           /\ call'[c].pc = call[c].pc /\ call'[c].id = call[c].id
           /\ call'[c].outcome = call[c].outcome
  <1> DEFINE new == [call[c] EXCEPT !.fut = f, !.value = v]
  <1>1. call \in [Callers -> CallStates]
    BY DEF TypeOK
  <1>2. call'[c] = new /\ \A d \in Callers : d # c => call'[d] = call[d]
    BY <1>1
  <1>3. call[c] \in CallStates
    BY <1>1
  <1>4. new.fut = f /\ new.pc = call[c].pc /\ new.id = call[c].id /\ new.outcome = call[c].outcome
    BY <1>3 DEF CallStates
  <1> QED BY <1>2, <1>4

LEMMA ResponseInv ==
    ASSUME CallInv, TypeOK', RunTask
    PROVE  CallInv'
  <1> DEFINE msg == Head(tasks)
             c == pending[msg.id]
  <1>0. UNCHANGED <<running, closed, completion, nextId>>
    BY DEF RunTask
  <1>1. CASE msg.kind = "request"
    BY <1>0, <1>1, FrameInv DEF RunTask
  <1>2. CASE msg.kind # "request"
    <2>1. HandleResponse(msg)
      BY <1>2 DEF RunTask
    <2>2. msg.id \in Ids /\ msg.kind \in {"result", "error"}
      BY <1>2, SeqTailAppend DEF RunTask, CallInv, TypeOK, Messages, Responses
    <2>3. \A i \in Ids : pending'[i] = IF i = msg.id THEN None ELSE pending[i]
      BY <2>1, <2>2 DEF HandleResponse, CallInv, TypeOK
    <2>4. \A d \in Callers : call[d] \in CallStates
      BY DEF CallInv, TypeOK
    <2>5. \A d \in Callers :
            /\ call'[d].pc = call[d].pc /\ call'[d].id = call[d].id
            /\ call'[d].outcome = call[d].outcome
            /\ call'[d].fut = IF d = c /\ call[d].fut = "pending" THEN msg.kind ELSE call[d].fut
      <3>1. CASE c # None /\ call[c].fut = "pending"
        <4>1. call' = [call EXCEPT ![c] = [call[c] EXCEPT !.fut = msg.kind, !.value = msg.by]]
          BY <2>1, <3>1 DEF HandleResponse
        <4>2. c \in Callers
          BY <2>2, <3>1 DEF CallInv, TypeOK
        <4>3. TypeOK
          BY DEF CallInv
        <4>4. /\ \A d \in Callers : d # c => call'[d] = call[d]
              /\ call'[c].fut = msg.kind
              /\ call'[c].pc = call[c].pc /\ call'[c].id = call[c].id
              /\ call'[c].outcome = call[c].outcome
          BY <4>1, <4>2, <4>3, FutureSet
        <4> QED BY <3>1, <4>4
      <3>2. CASE ~(c # None /\ call[c].fut = "pending")
        <4>1. call' = call
          BY <2>1, <3>2 DEF HandleResponse
        <4> QED BY <3>2, <4>1
      <3> QED BY <3>1, <3>2
    <2>6. Registered'
      <3>1. ASSUME NEW d \in Callers, call'[d].fut = "pending"
            PROVE  pending'[call'[d].id] = d
        <4>1. d # c /\ call[d].fut = "pending" /\ call'[d].id = call[d].id
          BY <2>2, <2>5, <3>1
        <4>2. pending[call[d].id] = d /\ call[d].id \in Ids
          BY <2>4, <4>1 DEF CallInv, Registered, CallStates
        <4> QED BY <2>3, <4>1, <4>2
      <3>2. \A d \in Callers :
              /\ call'[d].pc = "idle" => call'[d].fut = "none"
              /\ call'[d].pc # "idle" => call'[d].id # 0
              /\ call'[d].id < nextId'
              /\ \A e \in Callers : d # e /\ call'[d].id = call'[e].id => call'[d].id = 0
        BY <1>0, <2>5 DEF CallInv, Registered
      <3>3. \A i \in Ids : pending'[i] # None => i < nextId'
        BY <1>0, <2>3 DEF CallInv, Registered
      <3> QED BY <3>1, <3>2, <3>3 DEF Registered
    <2>7. PendingIsLive'
      <3> SUFFICES ASSUME NEW i \in Ids, pending'[i] # None
                   PROVE  call'[pending'[i]].pc # "idle" /\ call'[pending'[i]].id = i
        BY DEF PendingIsLive
      <3>1. pending'[i] = pending[i] /\ pending[i] \in Callers
        BY <2>3 DEF CallInv, TypeOK
      <3> QED BY <2>5, <3>1 DEF CallInv, PendingIsLive
    <2>8. NoStrandedRequest' /\ CompletionMeansClosed' /\ ClosedStops'
      BY <1>0, <2>2, <2>5 DEF CallInv, NoStrandedRequest, CompletionMeansClosed, ClosedStops
    <2> QED BY <2>6, <2>7, <2>8 DEF CallInv
  <1> QED BY <1>1, <1>2

LEMMA ReadStepInv == CallInv /\ TypeOK' /\ ReadStep => CallInv'
  <1> SUFFICES ASSUME CallInv, TypeOK', ReadStep PROVE CallInv'
    OBVIOUS
  <1>1. CASE UNCHANGED <<running, endVars>> /\ UNCHANGED nextId
    BY <1>1, FrameInv DEF endVars
  <1>2. CASE (\E how \in {"clean", "error"} : EndReading(how)) /\ UNCHANGED nextId
    BY <1>2, FinishInv DEF EndReading
  <1>3. \/ UNCHANGED <<running, endVars>> /\ UNCHANGED nextId
        \/ (\E how \in {"clean", "error"} : EndReading(how)) /\ UNCHANGED nextId
    BY DEF ReadStep, BeginReading, ReadMessage, ReadEnd, ReadCancelled, CloseWaited
  <1> QED BY <1>1, <1>2, <1>3

LEMMA StopStepInv ==
    ASSUME CallInv, TypeOK', NEW s \in Stoppers,
           StopReading(s) \/ StopAtOnce(s) \/ StopResumes(s)
    PROVE  CallInv'
  <1>1. CASE StopReading(s) \/ StopCancelInflight(s)
    BY <1>1, FrameInv DEF StopReading, StopCancelInflight, endVars
  <1>2. CASE StopFinish(s)
    <2>1. CASE closed
      BY <1>2, <2>1, FrameInv DEF StopFinish, endVars
    <2>2. CASE ~closed
      BY <1>2, <2>2, FinishInv DEF StopFinish
    <2> QED BY <2>1, <2>2
  <1> QED BY <1>1, <1>2 DEF StopAtOnce, StopResumes

LEMMA CallInvStep == CallInv /\ [Next]_vars => CallInv'
  <1> SUFFICES ASSUME CallInv, [Next]_vars PROVE CallInv'
    OBVIOUS
  <1>0. TypeOK'
    BY TypeStep DEF CallInv
  <1>1. CASE UNCHANGED vars
    BY <1>0, <1>1, FrameInv DEF vars, endVars
  <1>2. CASE ReadStep
    BY <1>0, <1>2, ReadStepInv
  <1>3. CASE RunTask
    BY <1>0, <1>3, ResponseInv
  <1>4. ASSUME NEW c \in Callers,
               \/ NewCall(c) \/ RequestDrained(c) \/ CallStep(c)
               \/ \E how \in {"timeout", "cancelled"} : InterruptRequest(c, how)
        PROVE  CallInv'
    BY <1>0, <1>4, CallStepInv
  <1>5. ASSUME NEW s \in Stoppers, StopReading(s) \/ StopAtOnce(s) \/ StopResumes(s)
        PROVE  CallInv'
    BY <1>0, <1>5, StopStepInv
  <1>6. ASSUME NEW m \in Inbound, RemoteCalls(m) \/ HandlerReturns(m) \/ HandlerEnds(m)
        PROVE  CallInv'
    BY <1>0, <1>6, FrameInv DEF RemoteCalls, HandlerReturns, HandlerEnds, endVars
  <1>7. ASSUME NEW q \in asked, RemoteAnswers(q)
        PROVE  CallInv'
    BY <1>0, <1>7, FrameInv DEF RemoteAnswers, endVars
  <1>8. CASE Start \/ RemoteEnds \/ ConnectionLost \/ WriterCloses \/ EndConnection
    BY <1>0, <1>8, FrameInv
    DEF Start, RemoteEnds, ConnectionLost, WriterCloses, EndConnection, endVars
  <1> QED BY <1>1, <1>2, <1>3, <1>4, <1>5, <1>6, <1>7, <1>8 DEF Next

LEMMA CallInvHolds == Spec => []CallInv
  BY CallInvInit, CallInvStep, PTL DEF Spec

\* No future of a request is left pending once the connection has closed,
\* whoever sends, gives up, answers or stops, and in whatever order.
THEOREM NoRequestStranded == Spec => []NoStrandedRequest
  <1>1. CallInv => NoStrandedRequest
    BY DEF CallInv
  <1> QED BY <1>1, CallInvHolds, PTL

\* The table of pending requests holds live calls only: it cannot grow with
\* calls that timed out, failed or were cancelled.
THEOREM PendingStaysLive == Spec => []PendingIsLive
  <1>1. CallInv => PendingIsLive
    BY DEF CallInv
  <1> QED BY <1>1, CallInvHolds, PTL

\* A caller that was told of the closure finds `running` cleared, which is
\* what the client's `lost` looks at.
THEOREM LossAlwaysVisible == Spec => []LossIsVisible
  <1>1. CallInv => LossIsVisible
    BY DEF CallInv, ClosedStops, LossIsVisible
  <1> QED BY <1>1, CallInvHolds, PTL

\* The completion resolves with the closure and never apart from it.
THEOREM CompletionAlwaysMeansClosed == Spec => []CompletionMeansClosed
  <1>1. CallInv => CompletionMeansClosed
    BY DEF CallInv
  <1> QED BY <1>1, CallInvHolds, PTL

-----------------------------------------------------------------------------
(* After stop(). A stop() that has got past the read task finds it ended for  *)
(* good, so no further message task can be started.                           *)

StopInv ==
    /\ TypeOK
    /\ \A s \in Stoppers : stopPc[s] \in {"awaitInflight", "done"} => readTask \in {"none", "ended"}
    /\ \A s \in Stoppers : stopPc[s] = "done" => NoInflight

LEMMA NothingStartsAfterStop ==
    ASSUME StopInv, TypeOK', UNCHANGED stopPc,
           readTask' = readTask \/ readTask' = "ended" \/ readTask \notin {"none", "ended"}
             \/ \A s \in Stoppers : stopPc[s] = "idle",
           NoInflight => NoInflight' \/ \A s \in Stoppers : stopPc[s] # "done"
    PROVE  StopInv'
  BY DEF StopInv

LEMMA StopInvStep == StopInv /\ [Next]_vars => StopInv'
  <1> SUFFICES ASSUME StopInv, [Next]_vars PROVE StopInv'
    OBVIOUS
  <1>0. TypeOK'
    BY TypeStep DEF StopInv
  <1>1. CASE UNCHANGED vars \/ (\E c \in Callers :
               \/ NewCall(c) \/ RequestDrained(c) \/ CallStep(c)
               \/ \E how \in {"timeout", "cancelled"} : InterruptRequest(c, how))
    <2>1. UNCHANGED <<stopPc, readTask, tasks, handler>>
      BY <1>1 DEF vars, NewCall, RefuseRequest, EncodeFails, SendRequest, RequestDrained,
                  CallStep, RequestDrainFails, RequestAnswered, AbandonRequest, Leave,
                  InterruptRequest, readVars, workVars, linkVars
    <2> QED BY <1>0, <2>1, NothingStartsAfterStop DEF NoInflight
  <1>2. CASE \/ RemoteEnds \/ ConnectionLost \/ WriterCloses \/ EndConnection
             \/ \E q \in asked : RemoteAnswers(q)
    <2>1. UNCHANGED <<stopPc, readTask, tasks, handler>>
      BY <1>2 DEF RemoteEnds, ConnectionLost, WriterCloses, EndConnection, RemoteAnswers,
                  readVars, workVars
    <2> QED BY <1>0, <2>1, NothingStartsAfterStop DEF NoInflight
  <1>3. CASE Start
    <2>1. UNCHANGED <<stopPc, tasks, handler>> /\ \A s \in Stoppers : stopPc[s] = "idle"
      BY <1>3 DEF Start, workVars
    <2> QED BY <1>0, <2>1, NothingStartsAfterStop DEF NoInflight
  <1>4. CASE ReadStep
    <2>1. CASE ReadMessage
      <3>1. UNCHANGED stopPc /\ readTask = "reading"
        BY <2>1 DEF ReadMessage
      <3>2. \A s \in Stoppers : stopPc[s] # "done"
        BY <3>1 DEF StopInv
      <3> QED BY <1>0, <3>1, <3>2, NothingStartsAfterStop
    <2>2. CASE ReadStep /\ ~ReadMessage
      <3>1. UNCHANGED <<stopPc, tasks, handler>>
        BY <2>2 DEF ReadStep, BeginReading, ReadEnd, ReadCancelled, CloseWaited, workVars
      <3>2. readTask \notin {"none", "ended"}
        BY <2>2 DEF ReadStep, BeginReading, ReadEnd, ReadCancelled, CloseWaited
      <3> QED BY <1>0, <3>1, <3>2, NothingStartsAfterStop DEF NoInflight
    <2> QED BY <1>4, <2>1, <2>2
  <1>5. CASE RunTask
    <2>1. UNCHANGED <<stopPc, readTask>> /\ ~NoInflight
      BY <1>5 DEF RunTask, readVars, NoInflight
    <2> QED BY <1>0, <2>1, NothingStartsAfterStop
  <1>6. ASSUME NEW m \in Inbound, RemoteCalls(m) \/ HandlerReturns(m) \/ HandlerEnds(m)
        PROVE  StopInv'
    <2>1. UNCHANGED <<stopPc, readTask, tasks>>
      BY <1>6 DEF RemoteCalls, HandlerReturns, HandlerEnds, readVars
    <2>2. NoInflight => NoInflight'
      BY <1>6, <2>1 DEF RemoteCalls, HandlerReturns, HandlerEnds, NoInflight, Alive, StopInv, TypeOK
    <2> QED BY <1>0, <2>1, <2>2, NothingStartsAfterStop
  <1>7. ASSUME NEW s \in Stoppers, StopReading(s) \/ StopAtOnce(s) \/ StopResumes(s)
        PROVE  StopInv'
    <2>1. CASE StopReading(s)
      <3>1. \A t \in Stoppers : stopPc[t] \notin {"awaitInflight", "done"}
        BY <2>1 DEF StopReading, StopInv
      <3>2. \A t \in Stoppers : stopPc'[t] \notin {"awaitInflight", "done"}
        BY <2>1, <3>1 DEF StopReading, StopInv, TypeOK
      <3> QED BY <1>0, <3>2 DEF StopInv
    <2>2. CASE StopAtOnce(s) \/ StopResumes(s)
      <3>1. readTask \in {"none", "ended"} /\ UNCHANGED readTask
        BY <2>2 DEF StopAtOnce, StopResumes, StopCancelInflight, StopFinish, StopInv, readVars
      <3>2. CASE StopFinish(s)
        BY <1>0, <3>1, <3>2 DEF StopFinish, StopInv, NoInflight
      <3>3. CASE StopCancelInflight(s)
        <4>1. \A t \in Stoppers : stopPc'[t] # "done"
          BY <3>3 DEF StopCancelInflight, StopInv, TypeOK
        <4> QED BY <1>0, <3>1, <4>1 DEF StopInv
      <3> QED BY <2>2, <3>2, <3>3 DEF StopAtOnce, StopResumes
    <2> QED BY <1>7, <2>1, <2>2
  <1> QED BY <1>1, <1>2, <1>3, <1>4, <1>5, <1>6, <1>7 DEF Next

\* A stop() that has returned leaves nothing running, also next to other stops,
\* handlers that were waiting, and a peer that was never started.
THEOREM QuietOnceStopped == Spec => []QuietAfterStop
  <1>1. Init => StopInv
    BY InitType DEF Init, StopInv
  <1>2. StopInv => QuietAfterStop
    BY DEF StopInv, QuietAfterStop
  <1> QED BY <1>1, <1>2, StopInvStep, PTL DEF Spec

-----------------------------------------------------------------------------
(* The peer implements RequestLifecycle. *)

Fut == {"none", "pending", "result", "error", "closed", "cancelled"}
Request == [c \in Callers |-> RequestState(call[c].fut)]

LEMMA RequestStates ==
    /\ RequestState("none") = "none" /\ RequestState("pending") = "waiting"
    /\ RequestState("result") = "answered" /\ RequestState("error") = "answered"
    /\ RequestState("closed") = "closed" /\ RequestState("cancelled") = "givenUp"
  BY DEF RequestState

LEMMA FutType == TypeOK => \A c \in Callers : call[c].fut \in Fut
  BY DEF TypeOK, CallStates, Fut

LEMMA SameRequests ==
    ASSUME \A c \in Callers : call'[c].fut = call[c].fut, UNCHANGED closed
    PROVE  UNCHANGED <<~closed, Request>>
  BY DEF Request

LEMMA CloseStep ==
    ASSUME CallInv, NEW how \in {"clean", "error"}, Finish(how)
    PROVE  Lifecycle!Close \/ UNCHANGED <<~closed, Request>>
  <1>1. \A c \in Callers :
          call'[c].fut = IF call[c].fut = "pending" THEN "closed" ELSE call[c].fut
    <2> SUFFICES ASSUME NEW c \in Callers
                 PROVE  call'[c].fut = IF call[c].fut = "pending" THEN "closed" ELSE call[c].fut
      OBVIOUS
    <2>1. call[c] \in CallStates
      BY DEF CallInv, TypeOK
    <2>2. call[c].fut = "pending" => \E i \in Ids : pending[i] = c
      <3>1. call[c].fut = "pending" => call[c].id \in Ids
        BY <2>1 DEF CallInv, Registered, CallStates
      <3> QED BY <3>1 DEF CallInv, Registered
    <2> QED BY <2>1, <2>2 DEF Finish, MarkClosed, CallStates
  <1>2. closed' = TRUE
    BY DEF Finish, MarkClosed
  <1>3. CASE closed
    BY <1>1, <1>2, <1>3, SameRequests DEF CallInv, NoStrandedRequest
  <1>4. CASE ~closed
    <2>1. \A c \in Callers : call[c].fut \in Fut
      BY FutType DEF CallInv
    <2>2. \A c \in Callers :
            RequestState(call'[c].fut) =
              IF RequestState(call[c].fut) = "waiting" THEN "closed" ELSE RequestState(call[c].fut)
      BY <1>1, <2>1, RequestStates DEF Fut
    <2>3. Request' = [c \in Callers |->
                        IF Request[c] = "waiting" THEN "closed" ELSE Request[c]]
      BY <2>2 DEF Request
    <2> QED BY <1>2, <1>4, <2>3 DEF Lifecycle!Close, Request
  <1> QED BY <1>3, <1>4

\* A step that changes the future of one request only.
LEMMA OneStep ==
    ASSUME CallInv, CallInv', NEW c \in Callers,
           \A d \in Callers : d # c => call'[d] = call[d],
           UNCHANGED closed,
           \/ call[c].fut = "none" /\ call'[c].fut = "pending" /\ ~closed
           \/ call[c].fut = "pending" /\ call'[c].fut \in {"result", "error", "cancelled"}
           \/ call'[c].fut \in {"none", call[c].fut}
    PROVE  (\E d \in Callers : Lifecycle!Ask(d) \/ Lifecycle!Settle(d) \/ Lifecycle!Return(d))
             \/ UNCHANGED <<~closed, Request>>
  <1> DEFINE new == RequestState(call'[c].fut)
  <1>1. call[c].fut \in Fut
    BY FutType DEF CallInv
  <1>2. Request' = [Request EXCEPT ![c] = new]
    BY DEF Request
  <1>3. Request[c] = RequestState(call[c].fut)
    BY DEF Request
  <1>4. CASE call'[c].fut = call[c].fut
    BY <1>4, SameRequests
  <1>5. CASE call[c].fut = "none" /\ call'[c].fut = "pending" /\ ~closed
    <2>1. Lifecycle!Ask(c)
      BY <1>2, <1>3, <1>5, RequestStates DEF Lifecycle!Ask, Request
    <2> QED BY <2>1
  <1>6. CASE call[c].fut = "pending" /\ call'[c].fut \in {"result", "error", "cancelled"}
    <2>1. Lifecycle!Settle(c)
      BY <1>2, <1>3, <1>6, RequestStates DEF Lifecycle!Settle, Request
    <2> QED BY <2>1
  <1>7. CASE call'[c].fut = "none" /\ call[c].fut # "none"
    <2>1. Request[c] # "none"
      BY <1>1, <1>3, <1>7, RequestStates DEF Fut
    <2>2. Lifecycle!Return(c)
      BY <1>2, <1>7, <2>1, RequestStates DEF Lifecycle!Return, Request
    <2> QED BY <2>2
  <1> QED BY <1>4, <1>5, <1>6, <1>7

LEMMA CallRefines ==
    ASSUME CallInv, CallInv', NEW c \in Callers,
           \/ NewCall(c) \/ RequestDrained(c) \/ CallStep(c)
           \/ \E how \in {"timeout", "cancelled"} : InterruptRequest(c, how)
    PROVE  (\E d \in Callers : Lifecycle!Ask(d) \/ Lifecycle!Settle(d) \/ Lifecycle!Return(d))
             \/ UNCHANGED <<~closed, Request>>
  <1>0. call \in [Callers -> CallStates] /\ call[c] \in CallStates
    BY DEF CallInv, TypeOK
  <1>1. CASE RefuseRequest(c)
    <2>1. \A d \in Callers : call'[d].fut = call[d].fut
      BY <1>0, <1>1 DEF RefuseRequest, CallStates
    <2> QED BY <1>1, <2>1, SameRequests DEF RefuseRequest
  <1>7. CASE EncodeFails(c)
    <2>1. \A d \in Callers : call'[d].fut = call[d].fut
      BY <1>0, <1>7 DEF EncodeFails, CallStates
    <2> QED BY <1>7, <2>1, SameRequests DEF EncodeFails
  <1>2. CASE SendRequest(c)
    <2>1. call'[c].fut = "pending" /\ (\A d \in Callers : d # c => call'[d] = call[d])
      BY <1>0, <1>2 DEF SendRequest
    <2>2. call[c].fut = "none" /\ ~closed
      BY <1>2 DEF SendRequest, CallInv, Registered
    <2> QED BY <1>2, <2>1, <2>2, OneStep DEF SendRequest
  <1>3. CASE RequestDrained(c)
    <2>1. \A d \in Callers : call'[d].fut = call[d].fut
      BY <1>0, <1>3 DEF RequestDrained, CallStates
    <2> QED BY <1>3, <2>1, SameRequests DEF RequestDrained
  <1>4. ASSUME NEW how, Leave(c, how)
        PROVE  (\E d \in Callers : Lifecycle!Return(d) \/ Lifecycle!Ask(d) \/ Lifecycle!Settle(d))
                 \/ UNCHANGED <<~closed, Request>>
    <2>1. call'[c].fut = "none" /\ (\A d \in Callers : d # c => call'[d] = call[d])
      BY <1>0, <1>4 DEF Leave, CallStates
    <2> QED BY <1>4, <2>1, OneStep DEF Leave
  <1>5. CASE CallStep(c)
    BY <1>4, <1>5 DEF CallStep, RequestDrainFails, RequestAnswered, AbandonRequest
  <1>6. ASSUME NEW how \in {"timeout", "cancelled"}, InterruptRequest(c, how)
        PROVE  (\E d \in Callers : Lifecycle!Ask(d) \/ Lifecycle!Settle(d) \/ Lifecycle!Return(d))
                 \/ UNCHANGED <<~closed, Request>>
    <2>1. \A d \in Callers : d # c => call'[d] = call[d]
      BY <1>0, <1>6 DEF InterruptRequest
    <2>2. \/ call[c].fut = "pending" /\ call'[c].fut = "cancelled"
          \/ call'[c].fut = call[c].fut
      <3>1. CASE call[c].pc = "waiting" /\ call[c].fut = "pending"
        BY <1>0, <1>6, <3>1 DEF InterruptRequest, CallStates
      <3>2. CASE ~(call[c].pc = "waiting" /\ call[c].fut = "pending")
        BY <1>0, <1>6, <3>2 DEF InterruptRequest, CallStates
      <3> QED BY <3>1, <3>2
    <2> QED BY <1>6, <2>1, <2>2, OneStep DEF InterruptRequest
  <1> QED BY <1>1, <1>2, <1>3, <1>5, <1>6, <1>7 DEF NewCall

LEMMA TaskRefines ==
    ASSUME CallInv, CallInv', RunTask
    PROVE  (\E d \in Callers : Lifecycle!Ask(d) \/ Lifecycle!Settle(d) \/ Lifecycle!Return(d))
             \/ UNCHANGED <<~closed, Request>>
  <1> DEFINE msg == Head(tasks)
             c == pending[msg.id]
  <1>1. CASE msg.kind = "request"
    BY <1>1, SameRequests DEF RunTask
  <1>2. CASE msg.kind # "request"
    <2>1. HandleResponse(msg) /\ UNCHANGED closed
      BY <1>2 DEF RunTask
    <2>2. msg.id \in Ids /\ msg.kind \in {"result", "error"}
      BY <1>2, SeqTailAppend DEF RunTask, CallInv, TypeOK, Messages, Responses
    <2>3. CASE c # None /\ call[c].fut = "pending"
      <3>1. call' = [call EXCEPT ![c] = [call[c] EXCEPT !.fut = msg.kind, !.value = msg.by]]
        BY <2>1, <2>3 DEF HandleResponse
      <3>2. c \in Callers
        BY <2>2, <2>3 DEF CallInv, TypeOK
      <3>3. call'[c].fut = msg.kind /\ (\A d \in Callers : d # c => call'[d] = call[d])
        BY <3>1, <3>2, FutureSet DEF CallInv
      <3> QED BY <2>1, <2>2, <2>3, <3>2, <3>3, OneStep
    <2>4. CASE ~(c # None /\ call[c].fut = "pending")
      BY <2>1, <2>4, SameRequests DEF HandleResponse
    <2> QED BY <2>3, <2>4
  <1> QED BY <1>1, <1>2

LEMMA StepRefines ==
    ASSUME CallInv, CallInv', [Next]_vars
    PROVE  [Lifecycle!Next]_<<~closed, Request>>
  <1>1. CASE UNCHANGED <<closed, call>>
    BY <1>1, SameRequests
  <1>2. CASE \E how \in {"clean", "error"} : Finish(how)
    BY <1>2, CloseStep DEF Lifecycle!Next
  <1>3. CASE RunTask
    BY <1>3, TaskRefines DEF Lifecycle!Next
  <1>4. ASSUME NEW c \in Callers,
               \/ NewCall(c) \/ RequestDrained(c) \/ CallStep(c)
               \/ \E how \in {"timeout", "cancelled"} : InterruptRequest(c, how)
        PROVE  [Lifecycle!Next]_<<~closed, Request>>
    BY <1>4, CallRefines DEF Lifecycle!Next
  <1>5. CASE ReadStep
    <2>1. UNCHANGED <<closed, call>> \/ \E how \in {"clean", "error"} : Finish(how)
      BY <1>5 DEF ReadStep, BeginReading, ReadMessage, ReadEnd, ReadCancelled, CloseWaited,
                  EndReading, endVars
    <2> QED BY <1>1, <1>2, <2>1
  <1>6. ASSUME NEW s \in Stoppers, StopReading(s) \/ StopAtOnce(s) \/ StopResumes(s)
        PROVE  [Lifecycle!Next]_<<~closed, Request>>
    <2>1. UNCHANGED <<closed, call>> \/ \E how \in {"clean", "error"} : Finish(how)
      BY <1>6 DEF StopReading, StopAtOnce, StopResumes, StopCancelInflight, StopFinish, endVars
    <2> QED BY <1>1, <1>2, <2>1
  <1>7. CASE \/ UNCHANGED vars \/ Start
             \/ \E m \in Inbound : RemoteCalls(m) \/ HandlerReturns(m) \/ HandlerEnds(m)
             \/ \E q \in asked : RemoteAnswers(q)
             \/ RemoteEnds \/ ConnectionLost \/ WriterCloses \/ EndConnection
    <2>1. UNCHANGED <<closed, call>>
      BY <1>7 DEF vars, Start, RemoteCalls, HandlerReturns, HandlerEnds, RemoteAnswers,
                  RemoteEnds, ConnectionLost, WriterCloses, EndConnection, endVars
    <2> QED BY <1>1, <2>1
  <1> QED BY <1>3, <1>4, <1>5, <1>6, <1>7 DEF Next

\* The peer implements RequestLifecycle: a request is accepted only while the
\* connection is open, and the closure settles all waiting ones in one step.
THEOREM PeerImplementsLifecycle == Spec => LifecycleSpec
  <1>1. Init => Lifecycle!Init
    BY RequestStates DEF Init, Lifecycle!Init, NoCall
  <1>2. CallInv /\ CallInv' /\ [Next]_vars => [Lifecycle!Next]_<<~closed, Request>>
    BY StepRefines
  <1> QED
    BY <1>1, <1>2, CallInvHolds, PTL DEF Spec, LifecycleSpec, Lifecycle!Spec, Request

-----------------------------------------------------------------------------
(* Whose response it is. An id is given to one request only, so whatever the *)
(* other side sends, and whenever it is handled, the entry that it finds     *)
(* under its id is that of the caller who asked, or there is none.           *)

\* The other side answers what it was asked.
AllAsked(s) ==
    \A i \in DOMAIN s : s[i].kind # "request" =>
        \E q \in asked : q.id = s[i].id /\ q.by = s[i].by

OwnInv ==
    /\ \A q \in asked : q.id < nextId
    /\ \A i \in Ids : pending[i] # None => \A q \in asked : q.id = i => q.by = pending[i]
    /\ AllAsked(incoming) /\ AllAsked(tasks)
    /\ \A c \in Callers : call[c].fut \in {"result", "error"} => call[c].value = c
    /\ OwnResponse

LEMMA AskedSequences ==
    ASSUME TypeOK
    PROVE  /\ AllAsked(<<>>)
           /\ \A s \in Seq(Messages) : AllAsked(s) =>
                 /\ s # <<>> => AllAsked(Tail(s))
                 /\ \A m \in Messages :
                       (m.kind # "request" => \E q \in asked : q.id = m.id /\ q.by = m.by)
                          => AllAsked(Append(s, m))
                 /\ \A m \in Inbound : AllAsked(Append(s, [kind |-> "request", key |-> m]))
  <1>1. AllAsked(<<>>)
    BY DEF AllAsked
  <1>2. ASSUME NEW s \in Seq(Messages), AllAsked(s), s # <<>>
        PROVE  AllAsked(Tail(s))
    <2>1. \A i \in DOMAIN Tail(s) : Tail(s)[i] = s[i + 1] /\ i + 1 \in DOMAIN s
      BY <1>2
    <2> QED BY <1>2, <2>1 DEF AllAsked
  <1>3. ASSUME NEW s \in Seq(Messages), AllAsked(s), NEW m,
               m.kind # "request" => \E q \in asked : q.id = m.id /\ q.by = m.by
        PROVE  AllAsked(Append(s, m))
    <2>1. \A i \in DOMAIN Append(s, m) :
             \/ i \in DOMAIN s /\ Append(s, m)[i] = s[i]
             \/ Append(s, m)[i] = m
      BY <1>3
    <2> QED BY <1>3, <2>1 DEF AllAsked
  <1>4. \A m \in Inbound : [kind |-> "request", key |-> m].kind = "request"
    OBVIOUS
  <1> QED BY <1>1, <1>2, <1>3, <1>4

\* A step that sends no request and takes no response.
LEMMA OwnFrame ==
    ASSUME OwnInv, TypeOK,
           asked' = asked, nextId' \in {nextId, nextId + 1},
           \A i \in Ids : pending'[i] \in {pending[i], None},
           \A c \in Callers :
              /\ call'[c].value = call[c].value
              /\ call'[c].fut \in {"result", "error"} => call'[c].fut = call[c].fut
              /\ call'[c].outcome \in {"result", "error"} =>
                    call'[c].outcome \in {call[c].outcome, call[c].fut},
           AllAsked(incoming)', AllAsked(tasks)'
    PROVE  OwnInv'
  <1>1. \A q \in asked' : q.id < nextId'
    BY DEF OwnInv, TypeOK, Requests, Ids
  <1>2. \A i \in Ids : pending'[i] # None => \A q \in asked' : q.id = i => q.by = pending'[i]
    BY DEF OwnInv
  <1>3. \A c \in Callers : call'[c].fut \in {"result", "error"} => call'[c].value = c
    BY DEF OwnInv
  <1>4. OwnResponse'
    BY DEF OwnInv, OwnResponse
  <1> QED BY <1>1, <1>2, <1>3, <1>4 DEF OwnInv

\* The peer is closed, or keeps all its requests.
LEMMA OwnEnding ==
    ASSUME OwnInv, TypeOK,
           \/ UNCHANGED <<pending, call>>
           \/ \E how \in {"clean", "error"} : Finish(how),
           asked' = asked, nextId' = nextId, AllAsked(incoming)', AllAsked(tasks)'
    PROVE  OwnInv'
  <1>1. CASE UNCHANGED <<pending, call>>
    BY <1>1, OwnFrame
  <1>2. CASE \E how \in {"clean", "error"} : Finish(how)
    <2>1. \A i \in Ids : pending'[i] = None
      BY <1>2 DEF Finish, MarkClosed
    <2>2. \A c \in Callers : call'[c] = call[c] \/ call'[c] = [call[c] EXCEPT !.fut = "closed"]
      BY <1>2 DEF Finish, MarkClosed
    <2>3. \A c \in Callers : call[c] \in CallStates
      BY DEF TypeOK
    <2>4. \A c \in Callers :
             /\ call'[c].value = call[c].value /\ call'[c].outcome = call[c].outcome
             /\ call'[c].fut \in {call[c].fut, "closed"}
      BY <2>2, <2>3 DEF CallStates
    <2> QED BY <2>1, <2>4, OwnFrame
  <1> QED BY <1>1, <1>2

LEMMA OwnCall ==
    ASSUME OwnInv, TypeOK, TypeOK', NEW c \in Callers,
           \/ NewCall(c) \/ RequestDrained(c) \/ CallStep(c)
           \/ \E how \in {"timeout", "cancelled"} : InterruptRequest(c, how)
    PROVE  OwnInv'
  <1>0. call \in [Callers -> CallStates] /\ call[c] \in CallStates
        /\ pending \in [Ids -> Callers \cup {None}]
    BY DEF TypeOK
  <1>1. UNCHANGED <<incoming, tasks>>
    BY DEF NewCall, RefuseRequest, EncodeFails, SendRequest, RequestDrained, CallStep,
           RequestDrainFails, RequestAnswered, AbandonRequest, InterruptRequest, Leave, workVars, linkVars
  <1>2. CASE SendRequest(c)
    <2>1. nextId \in Ids /\ nextId' = nextId + 1
      BY <1>2 DEF SendRequest, TypeOK, Ids
    <2>2. asked' \in {asked, asked \cup {[id |-> nextId, by |-> c]}}
      BY <1>2 DEF SendRequest
    <2>3. \A i \in Ids : pending'[i] = IF i = nextId THEN c ELSE pending[i]
      BY <1>0, <1>2, <2>1 DEF SendRequest
    <2>4. \A d \in Callers : \/ d # c /\ call'[d] = call[d]
                             \/ call'[d].fut = "pending" /\ call'[d].outcome = "none"
      BY <1>0, <1>2 DEF SendRequest
    <2>5. \A q \in asked : q.id \in Ids /\ q.id < nextId
      BY DEF OwnInv, TypeOK, Requests
    <2>6. \A q \in asked' : q.id < nextId'
      BY <2>1, <2>2, <2>5 DEF Ids
    <2>7. \A i \in Ids : pending'[i] # None => \A q \in asked' : q.id = i => q.by = pending'[i]
      <3>1. ASSUME NEW i \in Ids, pending'[i] # None, NEW q \in asked', q.id = i
            PROVE  q.by = pending'[i]
        <4>1. CASE i = nextId
          <5>1. q = [id |-> nextId, by |-> c]
            BY <2>2, <2>5, <3>1, <4>1 DEF Ids
          <5> QED BY <2>3, <4>1, <5>1
        <4>2. CASE i # nextId
          <5>1. q \in asked
            BY <2>2, <3>1, <4>2
          <5> QED BY <2>3, <3>1, <4>2, <5>1 DEF OwnInv
        <4> QED BY <4>1, <4>2
      <3> QED BY <3>1
    <2>8. AllAsked(incoming)' /\ AllAsked(tasks)'
      BY <1>1, <2>2 DEF OwnInv, AllAsked
    <2>9. /\ \A d \in Callers : call'[d].fut \in {"result", "error"} => call'[d].value = d
          /\ OwnResponse'
      BY <2>4 DEF OwnInv, OwnResponse
    <2> QED BY <2>6, <2>7, <2>8, <2>9 DEF OwnInv
  <1>3. CASE ~SendRequest(c)
    <2>1. asked' = asked /\ nextId' \in {nextId, nextId + 1}
      BY <1>3 DEF NewCall, RefuseRequest, EncodeFails, RequestDrained, CallStep,
                  RequestDrainFails, RequestAnswered, AbandonRequest, InterruptRequest, Leave, linkVars
    <2>2. AllAsked(incoming)' /\ AllAsked(tasks)'
      BY <1>1, <2>1 DEF OwnInv, AllAsked
    <2>3. \A i \in Ids : pending'[i] \in {pending[i], None}
      BY <1>0, <1>3 DEF NewCall, RefuseRequest, EncodeFails, RequestDrained, CallStep,
                  RequestDrainFails, RequestAnswered, AbandonRequest, InterruptRequest, Leave
    <2>4. \A d \in Callers : d # c => call'[d] = call[d]
      BY <1>0, <1>3 DEF NewCall, RefuseRequest, EncodeFails, RequestDrained, CallStep,
                  RequestDrainFails, RequestAnswered, AbandonRequest, InterruptRequest, Leave
    <2>5. /\ call'[c].value = call[c].value
          /\ call'[c].fut \in {call[c].fut, "none", "cancelled"}
          /\ call'[c].outcome \in {call[c].outcome, "closed", "encodeError", "writeError",
                                  "timeout", "cancelled"}
             \/ call'[c].outcome = call[c].fut
      <3>1. CASE RefuseRequest(c)
        BY <1>0, <3>1 DEF RefuseRequest, CallStates
      <3>6. CASE EncodeFails(c)
        BY <1>0, <3>6 DEF EncodeFails, CallStates
      <3>2. CASE RequestDrained(c)
        BY <1>0, <3>2 DEF RequestDrained, CallStates
      <3>3. ASSUME NEW how, Leave(c, how)
            PROVE  call'[c].value = call[c].value /\ call'[c].fut = "none" /\ call'[c].outcome = how
        BY <1>0, <3>3 DEF Leave, CallStates
      <3>4. CASE CallStep(c)
        BY <3>3, <3>4 DEF CallStep, RequestDrainFails, RequestAnswered, AbandonRequest
      <3>5. ASSUME NEW how \in {"timeout", "cancelled"}, InterruptRequest(c, how)
            PROVE  /\ call'[c].value = call[c].value /\ call'[c].outcome = call[c].outcome
                   /\ call'[c].fut \in {call[c].fut, "cancelled"}
        BY <1>0, <3>5 DEF InterruptRequest, CallStates
      <3> QED BY <1>3, <3>1, <3>2, <3>4, <3>5, <3>6 DEF NewCall
    <2> QED BY <2>1, <2>2, <2>3, <2>4, <2>5, OwnFrame
  <1> QED BY <1>2, <1>3

LEMMA OwnTask ==
    ASSUME OwnInv, TypeOK, RunTask
    PROVE  OwnInv'
  <1> DEFINE msg == Head(tasks)
             c == pending[msg.id]
  <1>0. call \in [Callers -> CallStates] /\ pending \in [Ids -> Callers \cup {None}]
    BY DEF TypeOK
  <1>1. msg \in Messages /\ tasks # <<>> /\ tasks \in Seq(Messages)
    BY SeqTailAppend DEF RunTask, TypeOK
  <1>2. asked' = asked /\ nextId' = nextId
    BY DEF RunTask, linkVars
  <1>3. AllAsked(incoming)' /\ AllAsked(tasks)'
    <2>1. AllAsked(Tail(tasks)) /\ AllAsked(incoming)
      BY <1>1, AskedSequences DEF OwnInv
    <2>2. tasks' = Tail(tasks) /\ incoming' = incoming
      BY DEF RunTask, linkVars
    <2> QED BY <1>2, <2>1, <2>2 DEF AllAsked
  <1>4. CASE UNCHANGED <<pending, call>>
    BY <1>2, <1>3, <1>4, OwnFrame
  <1>5. CASE msg.kind # "request" /\ HandleResponse(msg)
    <2>1. msg.id \in Ids
      BY <1>1, <1>5 DEF Messages, Responses
    <2>2. \A i \in Ids : pending'[i] \in {pending[i], None}
      BY <1>0, <1>5 DEF HandleResponse
    <2>3. CASE call' = call
      BY <1>2, <1>3, <2>2, <2>3, OwnFrame
    <2>4. CASE call' # call
      <3>1. c # None /\ c \in Callers
            /\ call' = [call EXCEPT ![c] = [call[c] EXCEPT !.fut = msg.kind, !.value = msg.by]]
        BY <1>0, <1>5, <2>1, <2>4 DEF HandleResponse
      <3>2. msg.by = c
        <4>1. 1 \in DOMAIN tasks /\ tasks[1] = msg
          BY <1>1
        <4>2. PICK q \in asked : q.id = msg.id /\ q.by = msg.by
          BY <1>5, <4>1 DEF OwnInv, AllAsked
        <4> QED BY <2>1, <3>1, <4>2 DEF OwnInv
      <3>3. call'[c].value = c /\ \A d \in Callers : d # c => call'[d] = call[d]
        BY <1>0, <3>1, <3>2 DEF CallStates
      <3>4. /\ \A d \in Callers : call'[d].fut \in {"result", "error"} => call'[d].value = d
            /\ OwnResponse'
        BY <3>3 DEF OwnInv, OwnResponse
      <3>5. \A q \in asked' : q.id < nextId'
        BY <1>2 DEF OwnInv
      <3>6. \A i \in Ids : pending'[i] # None => \A q \in asked' : q.id = i => q.by = pending'[i]
        BY <1>2, <2>2 DEF OwnInv
      <3> QED BY <1>3, <3>4, <3>5, <3>6 DEF OwnInv
    <2> QED BY <2>3, <2>4
  <1> QED BY <1>4, <1>5 DEF RunTask

LEMMA OwnStep ==
    ASSUME OwnInv, TypeOK, TypeOK', [Next]_vars
    PROVE  OwnInv'
  <1>0. incoming \in Seq(Messages) /\ tasks \in Seq(Messages) /\ AllAsked(incoming) /\ AllAsked(tasks)
    BY DEF TypeOK, OwnInv
  <1>2. CASE RunTask
    BY <1>2, OwnTask
  <1>3. ASSUME NEW c \in Callers,
               \/ NewCall(c) \/ RequestDrained(c) \/ CallStep(c)
               \/ \E how \in {"timeout", "cancelled"} : InterruptRequest(c, how)
        PROVE  OwnInv'
    BY <1>3, OwnCall
  <1>4. CASE ReadStep
    <2>1. asked' = asked /\ nextId' = nextId
      BY <1>4 DEF ReadStep, BeginReading, ReadMessage, ReadEnd, ReadCancelled, CloseWaited, linkVars
    <2>2. UNCHANGED <<pending, call>> \/ \E how \in {"clean", "error"} : Finish(how)
      BY <1>4 DEF ReadStep, BeginReading, ReadMessage, ReadEnd, ReadCancelled, CloseWaited,
                  EndReading, endVars
    <2>3. CASE ReadMessage
      <3>1. incoming' = Tail(incoming) /\ tasks' = Append(tasks, Head(incoming)) /\ incoming # <<>>
        BY <2>3 DEF ReadMessage
      <3>2. Head(incoming) \in Messages
            /\ (Head(incoming).kind # "request" =>
                  \E q \in asked : q.id = Head(incoming).id /\ q.by = Head(incoming).by)
        <4>1. 1 \in DOMAIN incoming /\ Head(incoming) = incoming[1]
          BY <1>0, <3>1
        <4> QED BY <1>0, <3>1, <4>1, SeqTailAppend DEF AllAsked
      <3>3. AllAsked(Tail(incoming)) /\ AllAsked(Append(tasks, Head(incoming)))
        BY <1>0, <3>1, <3>2, AskedSequences
      <3>4. AllAsked(incoming)' /\ AllAsked(tasks)'
        BY <2>1, <3>1, <3>3 DEF AllAsked
      <3> QED BY <2>1, <2>2, <3>4, OwnEnding
    <2>4. CASE ~ReadMessage
      <3>1. UNCHANGED <<incoming, tasks>>
        BY <1>4, <2>4 DEF ReadStep, BeginReading, ReadEnd, ReadCancelled, CloseWaited,
                          workVars, linkVars
      <3>2. AllAsked(incoming)' /\ AllAsked(tasks)'
        BY <1>0, <2>1, <3>1 DEF AllAsked
      <3> QED BY <2>1, <2>2, <3>2, OwnEnding
    <2> QED BY <2>3, <2>4
  <1>5. ASSUME NEW s \in Stoppers, StopReading(s) \/ StopAtOnce(s) \/ StopResumes(s)
        PROVE  OwnInv'
    <2>1. asked' = asked /\ nextId' = nextId /\ incoming' = incoming /\ tasks' \in {tasks, <<>>}
      BY <1>5 DEF StopReading, StopAtOnce, StopResumes, StopCancelInflight, StopFinish, linkVars
    <2>2. UNCHANGED <<pending, call>> \/ \E how \in {"clean", "error"} : Finish(how)
      BY <1>5 DEF StopReading, StopAtOnce, StopResumes, StopCancelInflight, StopFinish, endVars
    <2>3. AllAsked(incoming)' /\ AllAsked(tasks)'
      BY <1>0, <2>1, AskedSequences DEF AllAsked
    <2> QED BY <2>1, <2>2, <2>3, OwnEnding
  <1>6. CASE \/ UNCHANGED vars \/ Start
             \/ \E m \in Inbound : RemoteCalls(m) \/ HandlerReturns(m) \/ HandlerEnds(m)
             \/ \E q \in asked : RemoteAnswers(q)
             \/ RemoteEnds \/ ConnectionLost \/ WriterCloses \/ EndConnection
    <2>1. UNCHANGED <<asked, nextId, pending, call, tasks>>
      BY <1>6 DEF vars, Start, RemoteCalls, HandlerReturns, HandlerEnds, RemoteAnswers,
                  RemoteEnds, ConnectionLost, WriterCloses, EndConnection, endVars, workVars, linkVars
    <2>2. AllAsked(incoming)'
      <3>1. ASSUME NEW m \in Inbound, RemoteCalls(m)
            PROVE  AllAsked(incoming')
        BY <1>0, <3>1, AskedSequences DEF RemoteCalls
      <3>2. ASSUME NEW q \in asked, RemoteAnswers(q)
            PROVE  AllAsked(incoming')
        <4>1. PICK kind \in {"result", "error"} :
                 incoming' = Append(incoming, [kind |-> kind, id |-> q.id, by |-> q.by])
          BY <3>2 DEF RemoteAnswers
        <4>2. [kind |-> kind, id |-> q.id, by |-> q.by] \in Messages
          BY DEF TypeOK, Requests, Messages, Responses
        <4>3. [kind |-> kind, id |-> q.id, by |-> q.by].id = q.id
              /\ [kind |-> kind, id |-> q.id, by |-> q.by].by = q.by
          OBVIOUS
        <4> QED BY <1>0, <4>1, <4>2, <4>3, AskedSequences
      <3>3. incoming' = incoming \/ AllAsked(incoming')
        BY <1>6, <3>1, <3>2 DEF vars, Start, HandlerReturns, HandlerEnds, RemoteEnds,
                  ConnectionLost, WriterCloses, EndConnection, linkVars
      <3>4. AllAsked(incoming')
        BY <1>0, <3>3
      <3> QED BY <2>1, <3>4 DEF AllAsked
    <2>3. AllAsked(tasks)'
      BY <1>0, <2>1 DEF AllAsked
    <2> QED BY <2>1, <2>2, <2>3, OwnEnding
  <1> QED BY <1>2, <1>3, <1>4, <1>5, <1>6 DEF Next

\* A response reaches the caller of the request that it answers and no other,
\* whatever the other side sends again, late, or out of order.
THEOREM ResponsesAreOwn == Spec => []OwnResponse
  <1>1. Init => OwnInv
    BY DEF Init, OwnInv, OwnResponse, AllAsked, NoCall
  <1>2. TypeOK /\ TypeOK' /\ OwnInv /\ [Next]_vars => OwnInv'
    BY OwnStep
  <1>3. OwnInv => OwnResponse
    BY DEF OwnInv
  <1> QED BY <1>1, <1>2, <1>3, TypeCorrect, PTL DEF Spec

-----------------------------------------------------------------------------
(* What a call reports: it waits for a future that nobody has cancelled, and *)
(* one that the closure has failed decides how the call ends.                *)

Waits == \A c \in Callers :
    call[c].pc \in {"sending", "waiting"} => call[c].fut \notin {"none", "cancelled"}

\* What one step makes of a call.
Moves(c) ==
    \/ call'[c].pc = call[c].pc /\ call'[c].fut \in {call[c].fut, "result", "error", "closed"}
    \/ call[c].pc = "sending" /\ call'[c].pc = "waiting" /\ call'[c].fut = call[c].fut
    \/ call'[c].pc = "sending" /\ call'[c].fut = "pending"
    \/ call'[c].pc \in {"timeout", "cancelled"}
    \/ /\ call'[c].pc = "idle"
       /\ call[c].pc \in {"sending", "waiting"} /\ call[c].fut = "closed"
             => call'[c].outcome = "closed"

LEMMA MoveStep ==
    ASSUME TypeOK, [Next]_vars
    PROVE  \A c \in Callers : Moves(c)
  <1>0. call \in [Callers -> CallStates] /\ \A c \in Callers : call[c] \in CallStates
    BY DEF TypeOK
  <1>1. \A how : Finish(how) => \A c \in Callers : Moves(c)
    <2>1. ASSUME NEW how, Finish(how), NEW c \in Callers
          PROVE  call'[c].fut \in {call[c].fut, "closed"} /\ call'[c].pc = call[c].pc
      BY <1>0, <2>1 DEF Finish, MarkClosed, CallStates
    <2> QED BY <2>1 DEF Moves
  <1>2. UNCHANGED call => \A c \in Callers : Moves(c)
    BY DEF Moves
  <1>3. CASE RunTask
    <2>1. UNCHANGED call \/ (HandleResponse(Head(tasks)) /\ Head(tasks).kind # "request")
      BY <1>3 DEF RunTask
    <2>2. Head(tasks).kind # "request" => Head(tasks).kind \in {"result", "error"}
      BY <1>3, SeqTailAppend DEF RunTask, TypeOK, Messages, Responses
    <2>3. ASSUME HandleResponse(Head(tasks)), NEW c \in Callers
          PROVE  call'[c].pc = call[c].pc /\ call'[c].fut \in {call[c].fut, Head(tasks).kind}
      BY <1>0, <2>3 DEF HandleResponse, CallStates
    <2> QED BY <1>2, <2>1, <2>2, <2>3 DEF Moves
  <1>4. ASSUME NEW c \in Callers,
               \/ NewCall(c) \/ RequestDrained(c) \/ CallStep(c)
               \/ \E how \in {"timeout", "cancelled"} : InterruptRequest(c, how),
               NEW d \in Callers
        PROVE  Moves(d)
    <2>1. CASE d # c
      <3>1. call'[d] = call[d]
        BY <1>0, <1>4, <2>1
           DEF NewCall, RefuseRequest, EncodeFails, SendRequest, RequestDrained, CallStep,
               RequestDrainFails, RequestAnswered, AbandonRequest, InterruptRequest, Leave
      <3> QED BY <3>1 DEF Moves
    <2>2. CASE NewCall(c) /\ d = c
      BY <1>0, <2>2 DEF NewCall, RefuseRequest, EncodeFails, SendRequest, CallStates, Moves
    <2>3. CASE RequestDrained(c) /\ d = c
      BY <1>0, <2>3 DEF RequestDrained, CallStates, Moves
    <2>4. ASSUME NEW how, Leave(c, how)
          PROVE  call'[c].pc = "idle" /\ call'[c].outcome = how
      BY <1>0, <2>4 DEF Leave, CallStates
    <2>5. CASE CallStep(c) /\ d = c
      BY <2>4, <2>5 DEF CallStep, RequestDrainFails, RequestAnswered, AbandonRequest, Moves
    <2>6. ASSUME NEW how \in {"timeout", "cancelled"}, InterruptRequest(c, how), d = c
          PROVE  Moves(d)
      BY <1>0, <2>6 DEF InterruptRequest, CallStates, Moves
    <2> QED BY <1>4, <2>1, <2>2, <2>3, <2>5, <2>6
  <1>5. ASSUME ReadStep \/ \E s \in Stoppers : StopReading(s) \/ StopAtOnce(s) \/ StopResumes(s)
        PROVE  \A c \in Callers : Moves(c)
    BY <1>1, <1>2, <1>5
       DEF ReadStep, BeginReading, ReadMessage, ReadEnd, ReadCancelled, CloseWaited, EndReading,
           StopReading, StopAtOnce, StopResumes, StopCancelInflight, StopFinish, endVars
  <1>6. CASE \/ UNCHANGED vars \/ Start
             \/ \E m \in Inbound : RemoteCalls(m) \/ HandlerReturns(m) \/ HandlerEnds(m)
             \/ \E q \in asked : RemoteAnswers(q)
             \/ RemoteEnds \/ ConnectionLost \/ WriterCloses \/ EndConnection
    BY <1>2, <1>6 DEF vars, Start, RemoteCalls, HandlerReturns, HandlerEnds, RemoteAnswers,
                      RemoteEnds, ConnectionLost, WriterCloses, EndConnection, endVars
  <1> QED BY <1>3, <1>4, <1>5, <1>6 DEF Next

\* Once the connection is closed, a call that nobody has given up and that got
\* no response reports the closure, by which the client knows a lost session.
\* It rests on the closure finding every request (NoStrandedRequest), those
\* that are still being written too.
THEOREM ClosuresAreReported == Spec => ClosureIsReported
  <1>1. Init => Waits
    BY DEF Init, Waits, NoCall
  <1>2. TypeOK /\ Waits /\ [Next]_vars => Waits'
    BY MoveStep DEF Moves, Waits
  <1>3. TypeOK /\ NoStrandedRequest /\ Waits /\ [Next]_vars =>
           [\A c \in Callers :
              closed /\ call[c].pc \in {"sending", "waiting"} /\ call'[c].pc = "idle"
                 => call'[c].outcome = "closed" \/ call[c].fut \in {"result", "error"}]_vars
    <2> SUFFICES ASSUME TypeOK, NoStrandedRequest, Waits, [Next]_vars,
                        NEW c \in Callers, closed,
                        call[c].pc \in {"sending", "waiting"}, call'[c].pc = "idle"
                 PROVE  call'[c].outcome = "closed" \/ call[c].fut \in {"result", "error"}
      OBVIOUS
    <2>1. call[c].fut \in {"closed", "result", "error"}
      BY DEF TypeOK, CallStates, NoStrandedRequest, Waits
    <2>2. Moves(c)
      BY MoveStep
    <2> QED BY <2>1, <2>2 DEF Moves
  <1> QED BY <1>1, <1>2, <1>3, TypeCorrect, NoRequestStranded, PTL DEF Spec, ClosureIsReported

=============================================================================
