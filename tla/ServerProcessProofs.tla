------------------------ MODULE ServerProcessProofs ------------------------
(***************************************************************************)
(* Proofs about ServerProcess, for any number of connections.              *)
(***************************************************************************)
EXTENDS ServerProcess, TLAPS

-----------------------------------------------------------------------------
(* Type correctness *)

\* A step of the main thread keeps the types.
LEMMA MainType == TypeOK /\ (MainStep \/ Interrupt) => TypeOK'
  <1> SUFFICES ASSUME TypeOK, MainStep \/ Interrupt PROVE TypeOK'
    OBVIOUS
  <1>1. main' \in MainStates
    BY DEF TypeOK, MainStates, Failed, MainStep, AwaitUp, CheckStarted, CheckStop, BeginHookLoop,
           EndHookLoop, ReadHook, PostStop, Exit, Interrupt
  <1>2. closer' \in {closer, "requested"} /\ UNCHANGED <<mode, srv, eventVars, snapshot, awaited, conn, request>>
    BY DEF MainStep, AwaitUp, CheckStarted, CheckStop, BeginHookLoop, EndHookLoop, ReadHook,
           PostStop, Exit, Interrupt, clientVars
  <1>3. stopped' \in BOOLEAN /\ drained' \in BOOLEAN /\ signalled' \in BOOLEAN
    BY DEF TypeOK, MainStep, AwaitUp, CheckStarted, CheckStop, BeginHookLoop, EndHookLoop, ReadHook,
           PostStop, Exit, Interrupt, clientVars
  <1> QED BY <1>1, <1>2, <1>3 DEF TypeOK, eventVars

\* A step of the server thread keeps the types.
LEMMA ThreadType == TypeOK /\ ThreadStep => TypeOK'
  <1> SUFFICES ASSUME TypeOK, ThreadStep PROVE TypeOK'
    OBVIOUS
  <1>1. CASE StartFails \/ SetStarted \/ ClearStop \/ TransportEnds \/ SetStop \/ LeaveTransport \/ EndThread
    <2>1. srv' \in {"ended", "announced", "serving", "cleared", "stopSet", "waitClosed"}
      BY <1>1 DEF StartFails, SetStarted, ClearStop, TransportEnds, SetStop, LeaveTransport, EndThread
    <2>2. {started', stopEvent', hook', stopped'} \subseteq BOOLEAN
      BY <1>1 DEF TypeOK, StartFails, SetStarted, ClearStop, TransportEnds, SetStop,
                  LeaveTransport, EndThread, eventVars
    <2>3. UNCHANGED <<mode, main, drained, clientVars, signalled>>
      BY <1>1 DEF StartFails, SetStarted, ClearStop, TransportEnds, SetStop, LeaveTransport, EndThread
    <2> QED BY <2>1, <2>2, <2>3 DEF TypeOK, clientVars
  <1>2. CASE Listen
    BY <1>2 DEF TypeOK, Listen
  <1>3. CASE CloseClients
    <2>1. Registered \subseteq Clients
      BY DEF Registered
    <2> QED BY <1>3, <2>1 DEF TypeOK, CloseClients
  <1>4. CASE EndConnections
    BY <1>4 DEF TypeOK, EndConnections, eventVars
  <1>5. CASE FinishClosing
    BY <1>5 DEF TypeOK, FinishClosing, eventVars
  <1> QED BY <1>1, <1>2, <1>3, <1>4, <1>5 DEF ThreadStep

\* A step of a client or its task keeps the types.
LEMMA ClientType ==
    ASSUME TypeOK, NEW c \in Clients, ClientStep(c) \/ Accept(c) \/ Request(c) \/ CommandExits(c) \/ Disconnect(c)
    PROVE  TypeOK'
  <1>1. CASE ServeClient(c) \/ EndClient(c) \/ Accept(c) \/ Disconnect(c)
    BY <1>1 DEF TypeOK, ServeClient, EndClient, Accept, Disconnect, eventVars
  <1>2. CASE Request(c) \/ Answer(c)
    <2>1. request' \in [Clients -> {"none", "waiting", "dropped"}]
      BY <1>2 DEF TypeOK, Request, Answer
    <2> QED BY <1>2, <2>1 DEF TypeOK, Request, Answer, eventVars
  <1>3. CASE FindIdle(c)
    BY <1>3 DEF TypeOK, FindIdle, eventVars
  <1>4. CASE CommandExits(c)
    BY <1>4 DEF TypeOK, CommandExits, MainStates, eventVars
  <1> QED BY <1>1, <1>2, <1>3, <1>4 DEF ClientStep

\* The variables of the process keep their types.
THEOREM TypeCorrect == Spec => []TypeOK
  <1>1. Init => TypeOK
    BY DEF Init, TypeOK, MainStates
  <1>2. TypeOK /\ [Next]_vars => TypeOK'
    <2> SUFFICES ASSUME TypeOK, [Next]_vars PROVE TypeOK'
      OBVIOUS
    <2>1. CASE UNCHANGED vars
      BY <2>1 DEF TypeOK, vars, eventVars, clientVars
    <2> QED BY <2>1, MainType, ThreadType, ClientType DEF Next
  <1> QED BY <1>1, <1>2, PTL DEF Spec

-----------------------------------------------------------------------------
(* A failed start *)

\* The transport ends in TCP mode only after the main thread has stopped it, so
\* what _server_has_been_up() reads cannot change under it.
StartInv == mode = "tcp" =>
    /\ closer # "none" => main \in {"waiting", "exited"}
    /\ srv \in {"start", "hooked"} =>
         main \in {"starting", "interrupted"} /\ ~stopEvent /\ ~started
    /\ srv \in {"announced", "serving"} => started
    /\ srv \in {"closing", "cleared", "stopSet", "waitClosed"} => closer # "none"
    /\ srv = "ended" => stopEvent \/ (~started /\ closer = "none")
    /\ srv \in {"stopSet", "waitClosed"} => stopEvent
    /\ srv = "ended" /\ stopEvent => closer # "none"
    /\ main = "checkingStop" => StartFailed
    /\ main = "failed" => StartFailed
    /\ main \in {"booting", "running", "leaving", "posting", "waiting", "exited"} => ~StartFailed

\* A server in TCP mode reports a failed start if and only if the start has
\* failed, whatever the interleaving of its two threads.
THEOREM FailuresAreReal == Spec => []FailureIsReal
  <1>1. Init => StartInv
    BY DEF Init, StartInv, StartFailed
  <1>2. TypeOK /\ StartInv /\ [Next]_vars => StartInv'
    <2> SUFFICES ASSUME TypeOK, StartInv, [Next]_vars PROVE StartInv'
      OBVIOUS
    <2>1. CASE MainStep \/ Interrupt
      <3>1. CASE AwaitUp \/ CheckStarted \/ CheckStop
        BY <3>1 DEF TypeOK, StartInv, StartFailed, AwaitUp, CheckStarted, CheckStop, eventVars,
                    clientVars
      <3>2. CASE BeginHookLoop \/ EndHookLoop \/ ReadHook \/ Exit
        BY <3>2 DEF StartInv, StartFailed, BeginHookLoop, EndHookLoop, ReadHook, Exit, eventVars,
                    clientVars
      <3>3. CASE PostStop
        BY <3>3 DEF StartInv, StartFailed, PostStop, eventVars
      <3>4. CASE Interrupt
        BY <3>4, PhasesAreKnown DEF StartInv, StartFailed, Interrupt, eventVars, clientVars
      <3> QED BY <2>1, <3>1, <3>2, <3>3, <3>4 DEF MainStep
    <2>2. CASE StartFails \/ Listen \/ SetStarted \/ ClearStop
      BY <2>2 DEF TypeOK, StartInv, StartFailed, StartFails, Listen, SetStarted, ClearStop,
                  eventVars, clientVars
    <2>3. CASE TransportEnds \/ SetStop \/ LeaveTransport \/ EndThread
      BY <2>3 DEF TypeOK, StartInv, StartFailed, TransportEnds, SetStop, LeaveTransport,
                  EndThread, eventVars, clientVars
    <2>4. CASE CloseClients \/ EndConnections \/ FinishClosing
      BY <2>4 DEF TypeOK, StartInv, StartFailed, CloseClients, EndConnections, FinishClosing,
                  eventVars
    <2>5. ASSUME NEW c \in Clients, ClientStep(c) \/ Accept(c) \/ Request(c) \/ CommandExits(c)
                                          \/ Disconnect(c)
          PROVE  StartInv'
      BY <2>5 DEF StartInv, StartFailed, ClientStep, ServeClient, Answer, EndClient, FindIdle,
                  Accept, Request, CommandExits, Disconnect, eventVars
    <2>6. CASE UNCHANGED vars
      BY <2>6 DEF StartInv, StartFailed, vars, eventVars, clientVars
    <2> QED BY <2>1, <2>2, <2>3, <2>4, <2>5, <2>6 DEF Next, ThreadStep
  <1>3. StartInv => FailureIsReal
    BY DEF StartInv, FailureIsReal
  <1> QED BY <1>1, <1>2, <1>3, TypeCorrect, PTL DEF Spec

-----------------------------------------------------------------------------
(* Answers before the end of the connection *)

\* When the runner has ended before the transport is stopped, a client that has
\* been found idle stays idle.
IdleInv ==
    /\ closer # "none" => drained /\ main \in {"waiting", "exited"}
    /\ main \in {"leaving", "posting"} => drained
    /\ \A c \in Clients :
         /\ conn[c] = "told" => closer \in {"ending", "done"} /\ request[c] # "waiting"
         /\ closer = "idle" /\ c \in snapshot => c \in awaited \/ request[c] # "waiting"

\* Unless SIGINT comes before Robot Framework handles signals, no connection is ended before the
\* answers to its requests, for any number of clients and in both modes.
THEOREM NoRequestIsCutOff == "booting" \notin Phases => (Spec => []NoRequestCutOff)
  <1> SUFFICES ASSUME "booting" \notin Phases PROVE Spec => []NoRequestCutOff
    OBVIOUS
  <1>1. Init => IdleInv
    BY DEF Init, IdleInv
  <1>2. TypeOK /\ IdleInv /\ [Next]_vars => IdleInv'
    <2> SUFFICES ASSUME TypeOK, IdleInv, [Next]_vars PROVE IdleInv'
      OBVIOUS
    <2>1. CASE MainStep \/ Interrupt
      <3>1. CASE AwaitUp \/ CheckStarted \/ CheckStop \/ BeginHookLoop \/ EndHookLoop \/ ReadHook \/ Exit
        BY <3>1 DEF IdleInv, AwaitUp, CheckStarted, CheckStop, BeginHookLoop, EndHookLoop,
                    ReadHook, Exit, eventVars, clientVars
      <3>2. CASE PostStop
        BY <3>2 DEF IdleInv, PostStop, eventVars
      <3>3. CASE Interrupt
        BY <3>3, PhasesAreKnown DEF IdleInv, Interrupt, eventVars, clientVars
      <3> QED BY <2>1, <3>1, <3>2, <3>3 DEF MainStep
    <2>2. CASE StartFails \/ SetStarted \/ ClearStop \/ TransportEnds \/ SetStop \/ LeaveTransport \/ EndThread
      BY <2>2 DEF IdleInv, StartFails, SetStarted, ClearStop, TransportEnds, SetStop,
                  LeaveTransport, EndThread, eventVars, clientVars
    <2>3. CASE Listen
      BY <2>3 DEF TypeOK, IdleInv, Listen
    <2>4. CASE CloseClients
      BY <2>4 DEF TypeOK, IdleInv, CloseClients
    <2>5. CASE EndConnections
      BY <2>5 DEF TypeOK, IdleInv, EndConnections, eventVars
    <2>6. CASE FinishClosing
      BY <2>6 DEF TypeOK, IdleInv, FinishClosing, eventVars
    <2>7. ASSUME NEW c \in Clients, ServeClient(c) \/ Accept(c) \/ Disconnect(c) \/ EndClient(c)
          PROVE  IdleInv'
      BY <2>7 DEF TypeOK, IdleInv, ServeClient, Accept, Disconnect, EndClient, eventVars
    <2>8. ASSUME NEW c \in Clients, Request(c) \/ CommandExits(c) \/ Answer(c) \/ FindIdle(c)
          PROVE  IdleInv'
      BY <2>8 DEF TypeOK, IdleInv, Request, CommandExits, Answer, FindIdle, eventVars
    <2>9. CASE UNCHANGED vars
      BY <2>9 DEF IdleInv, vars, eventVars, clientVars
    <2> QED
      BY <2>1, <2>2, <2>3, <2>4, <2>5, <2>6, <2>7, <2>8, <2>9 DEF Next, ThreadStep, ClientStep
  <1>3. IdleInv => NoRequestCutOff
    BY DEF IdleInv, NoRequestCutOff
  <1> QED BY <1>1, <1>2, <1>3, TypeCorrect, PTL DEF Spec

=============================================================================
