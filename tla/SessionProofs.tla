---------------------------- MODULE SessionProofs ----------------------------
(***************************************************************************)
(* The invariants of ClientSession, for any number of calls. IInv is       *)
(* inductive: beside the properties, it says what each place of the worker *)
(* implies of the resources, of the two events, and of the jobs and calls  *)
(* on its loop.                                                            *)
(*                                                                         *)
(* Then the log messages of a session, for any number of them: a keyword   *)
(* with its loop and the sink takes only steps of the session, so that its *)
(* invariants hold. LogInv adds what may stand in the queue of the loop,   *)
(* where the keyword stands, and where every message is.                   *)
(***************************************************************************)
EXTENDS KeywordLog, TLAPS

\* The worker has not come to serve; has cleared the resources; has released
\* what stood in them; is about to.
Starting == {"none", "boot", "connecting", "handshake"}
Cleared == {"cancelling", "draining"} \cup LoopClosed
Released == {"clearing"} \cup Cleared
Closing == {"telling", "reaping", "waiting"}

\* Only the thread of a session that is being ended clears the resources under
\* the worker; otherwise what is open stands in them.
ResourceInv ==
    /\ test = "new" => worker = "none"
    /\ test \in {"finalizing", "graceful", "stop", "joining", "releasing"} => closedByClient
    /\ worker \in Cleared => "loop" \notin res /\ "peer" \notin res
    /\ worker \in {"none", "boot", "connecting"} => conn # "open" /\ process # "running"
    /\ closedByClient
       \/ /\ worker \notin Released => /\ conn = "open" => "peer" \in res
                                       /\ process = "running" => "process" \in res
          /\ worker = "telling" => "peer" \in res
          /\ worker \in {"reaping", "waiting"} => conn # "open"
          /\ worker \in Released => conn # "open" /\ process # "running"
          /\ worker \in {"connecting", "handshake"} => "loop" \in res
          /\ "loop" \notin res => "peer" \notin res

\* A start fails or it succeeds, and the failure is told after the release.
StartInv ==
    /\ worker \in Starting => ~startError /\ ~token
    /\ worker \in Starting \cup {"closing"} => ~initialized
    /\ worker = "closing" => startError /\ ~token
    /\ worker \in {"serving", "ending"} => token /\ ~startError /\ initialized
    /\ worker \in Released => startError \/ token
    /\ worker \in Closing => IF initialized THEN token /\ ~startError ELSE startError
    /\ test \in {"idle", "submitting", "calling"} => token

\* A loop that is about to end gets no task.
JobInv ==
    worker \in {"draining"} \cup LoopClosed => \A j \in Jobs : jobs[j] # "running"

\* Only a session that has started gets calls.
CallInv ==
    /\ \A c \in Calls : calls[c] # "new" => token
    /\ \A c \in stranded : calls[c] # "new"

IInv == TypeOK /\ ResourceInv /\ StartInv /\ JobInv /\ CallInv /\ FailedCallFindsLoss

-----------------------------------------------------------------------------

\* Every step keeps the types.
LEMMA TypeStep ==
    ASSUME TypeOK, [Next]_vars
    PROVE  TypeOK'
<1>. USE DEF TypeOK, sessionVars, startVars, linkVars, callVars, testVars, LoopClosed, LoopRuns,
             Fields, Jobs, Open, CallStates
<1>1. CASE Boot
  BY <1>1 DEF Boot
<1>2. CASE Connect
  BY <1>2 DEF Connect
<1>3. CASE ConnectFails
  BY <1>3 DEF ConnectFails
<1>4. CASE HandshakeSucceeds
  BY <1>4 DEF HandshakeSucceeds
<1>5. CASE HandshakeFails
  BY <1>5 DEF HandshakeFails
<1>6. CASE PeerCompletes
  BY <1>6 DEF PeerCompletes
<1>7. CASE CloseConnection
  BY <1>7 DEF CloseConnection
<1>8. CASE CloseWriter
  <2>1. CASE "peer" \in res
    BY <1>8, <2>1 DEF CloseWriter
  <2>2. CASE "peer" \notin res
    BY <1>8, <2>2 DEF CloseWriter
  <2>. QED
    BY <2>1, <2>2
<1>9. CASE ReadProcess
  <2>1. CASE "process" \in res
    BY <1>9, <2>1 DEF ReadProcess
  <2>2. CASE "process" \notin res
    BY <1>9, <2>2 DEF ReadProcess
  <2>. QED
    BY <2>1, <2>2
<1>10. CASE ReapProcess
  BY <1>10 DEF ReapProcess
<1>11. CASE Clear
  BY <1>11 DEF Clear
<1>12. CASE CancelTasks
  BY <1>12 DEF CancelTasks
<1>13. CASE CloseLoop
  BY <1>13 DEF CloseLoop
<1>14. CASE End
  BY <1>14 DEF End, Unanswered
<1>15. CASE FailStranded
  BY <1>15 DEF FailStranded
<1>16. CASE GracefulEnds
  BY <1>16 DEF GracefulEnds
<1>17. CASE StopPeer
  BY <1>17 DEF StopPeer
<1>18. CASE Start
  BY <1>18 DEF Start
<1>19. CASE Started
  BY <1>19 DEF Started
<1>20. CASE Stop
  BY <1>20 DEF Stop
<1>21. CASE ReadResources
  BY <1>21 DEF ReadResources, Posted
<1>22. CASE Join
  BY <1>22 DEF Join
<1>23. CASE Release
  BY <1>23 DEF Release
<1>24. CASE ConnectionEnds
  BY <1>24 DEF ConnectionEnds
<1>25. CASE ProcessExits
  BY <1>25 DEF ProcessExits
<1>26. ASSUME NEW c \in Calls, RunCall(c) PROVE TypeOK'
  BY <1>26 DEF RunCall
<1>27. ASSUME NEW c \in Calls, ResponseArrives(c) PROVE TypeOK'
  BY <1>27 DEF ResponseArrives
<1>28. ASSUME NEW c \in Calls, WriteFails(c) PROVE TypeOK'
  BY <1>28 DEF WriteFails
<1>29. ASSUME NEW c \in Calls, CallReturns(c) PROVE TypeOK'
  BY <1>29 DEF CallReturns
<1>30. ASSUME NEW c \in Calls, CallFails(c) PROVE TypeOK'
  BY <1>30 DEF CallFails
<1>31. ASSUME NEW c \in Calls, Submit(c) PROVE TypeOK'
  BY <1>31 DEF Submit
<1>32. ASSUME NEW c \in Calls, Schedule(c) PROVE TypeOK'
  BY <1>32 DEF Schedule
<1>33. ASSUME NEW c \in Calls, Return(c) PROVE TypeOK'
  BY <1>33 DEF Return
<1>34. ASSUME NEW c \in Calls, Cancel(c) PROVE TypeOK'
  BY <1>34 DEF Cancel
<1>35. ASSUME NEW j \in Jobs, StartJob(j) PROVE TypeOK'
  BY <1>35 DEF StartJob
<1>36. ASSUME NEW j \in Jobs, JobIsOver(j) PROVE TypeOK'
  BY <1>36 DEF JobIsOver, Posted
<1>37. ASSUME NEW j \in Jobs, JobTimesOut(j) PROVE TypeOK'
  BY <1>37 DEF JobTimesOut, Posted
<1>38. CASE UNCHANGED vars
  BY <1>38 DEF vars
<1>. QED
  BY <1>1, <1>2, <1>3, <1>4, <1>5, <1>6, <1>7, <1>8, <1>9, <1>10, <1>11, <1>12,
     <1>13, <1>14, <1>15, <1>16, <1>17, <1>18, <1>19, <1>20, <1>21, <1>22, <1>23, <1>24,
     <1>25, <1>26, <1>27, <1>28, <1>29, <1>30, <1>31, <1>32, <1>33, <1>34, <1>35, <1>36,
     <1>37, <1>38
     DEF Next, SessionStep, KeywordStep, WorkerStep, TaskStep, TestStep

\* What is open stands in the resources until the worker has closed it.
LEMMA ResourceStep ==
    ASSUME TypeOK, ResourceInv, [Next]_vars
    PROVE  ResourceInv'
<1>. USE DEF TypeOK, ResourceInv, Cleared, Released, sessionVars, startVars, linkVars, callVars,
             testVars, LoopClosed, LoopRuns, Fields, Jobs, Open, CallStates, Closing
<1>1. CASE Boot
  BY <1>1 DEF Boot
<1>2. CASE Connect
  BY <1>2 DEF Connect
<1>3. CASE ConnectFails
  BY <1>3 DEF ConnectFails
<1>4. CASE HandshakeSucceeds
  BY <1>4 DEF HandshakeSucceeds
<1>5. CASE HandshakeFails
  BY <1>5 DEF HandshakeFails
<1>6. CASE PeerCompletes
  BY <1>6 DEF PeerCompletes
<1>7. CASE CloseConnection
  BY <1>7 DEF CloseConnection
<1>8. CASE CloseWriter
  BY <1>8 DEF CloseWriter
<1>9. CASE ReadProcess
  BY <1>9 DEF ReadProcess
<1>10. CASE ReapProcess
  BY <1>10 DEF ReapProcess
<1>11. CASE Clear
  BY <1>11 DEF Clear
<1>12. CASE CancelTasks
  BY <1>12 DEF CancelTasks
<1>13. CASE CloseLoop
  BY <1>13 DEF CloseLoop
<1>14. CASE End
  BY <1>14 DEF End, Unanswered
<1>15. CASE FailStranded
  BY <1>15 DEF FailStranded
<1>16. CASE GracefulEnds
  BY <1>16 DEF GracefulEnds
<1>17. CASE StopPeer
  BY <1>17 DEF StopPeer
<1>18. CASE Start
  BY <1>18 DEF Start
<1>19. CASE Started
  BY <1>19 DEF Started
<1>20. CASE Stop
  BY <1>20 DEF Stop
<1>21. CASE ReadResources
  BY <1>21 DEF ReadResources, Posted
<1>22. CASE Join
  BY <1>22 DEF Join
<1>23. CASE Release
  BY <1>23 DEF Release
<1>24. CASE ConnectionEnds
  BY <1>24 DEF ConnectionEnds
<1>25. CASE ProcessExits
  BY <1>25 DEF ProcessExits
<1>26. ASSUME NEW c \in Calls, RunCall(c) PROVE ResourceInv'
  BY <1>26 DEF RunCall
<1>27. ASSUME NEW c \in Calls, ResponseArrives(c) PROVE ResourceInv'
  BY <1>27 DEF ResponseArrives
<1>28. ASSUME NEW c \in Calls, WriteFails(c) PROVE ResourceInv'
  BY <1>28 DEF WriteFails
<1>29. ASSUME NEW c \in Calls, CallReturns(c) PROVE ResourceInv'
  BY <1>29 DEF CallReturns
<1>30. ASSUME NEW c \in Calls, CallFails(c) PROVE ResourceInv'
  BY <1>30 DEF CallFails
<1>31. ASSUME NEW c \in Calls, Submit(c) PROVE ResourceInv'
  BY <1>31 DEF Submit
<1>32. ASSUME NEW c \in Calls, Schedule(c) PROVE ResourceInv'
  BY <1>32 DEF Schedule
<1>33. ASSUME NEW c \in Calls, Return(c) PROVE ResourceInv'
  BY <1>33 DEF Return
<1>34. ASSUME NEW c \in Calls, Cancel(c) PROVE ResourceInv'
  BY <1>34 DEF Cancel
<1>35. ASSUME NEW j \in Jobs, StartJob(j) PROVE ResourceInv'
  BY <1>35 DEF StartJob
<1>36. ASSUME NEW j \in Jobs, JobIsOver(j) PROVE ResourceInv'
  BY <1>36 DEF JobIsOver, Posted
<1>37. ASSUME NEW j \in Jobs, JobTimesOut(j) PROVE ResourceInv'
  BY <1>37 DEF JobTimesOut, Posted
<1>38. CASE UNCHANGED vars
  BY <1>38 DEF vars
<1>. QED
  BY <1>1, <1>2, <1>3, <1>4, <1>5, <1>6, <1>7, <1>8, <1>9, <1>10, <1>11, <1>12,
     <1>13, <1>14, <1>15, <1>16, <1>17, <1>18, <1>19, <1>20, <1>21, <1>22, <1>23, <1>24,
     <1>25, <1>26, <1>27, <1>28, <1>29, <1>30, <1>31, <1>32, <1>33, <1>34, <1>35, <1>36,
     <1>37, <1>38
     DEF Next, SessionStep, KeywordStep, WorkerStep, TaskStep, TestStep

\* A failure is told once the connection is closed.
LEMMA StartStep ==
    ASSUME TypeOK, StartInv, ResourceInv, [Next]_vars
    PROVE  StartInv'
<1>. USE DEF TypeOK, StartInv, ResourceInv, Starting, Cleared, Released, sessionVars, startVars,
             linkVars, callVars, testVars, LoopClosed, LoopRuns, Fields, Jobs, Open, CallStates, Closing
<1>1. CASE Boot
  BY <1>1 DEF Boot
<1>2. CASE Connect
  BY <1>2 DEF Connect
<1>3. CASE ConnectFails
  BY <1>3 DEF ConnectFails
<1>4. CASE HandshakeSucceeds
  BY <1>4 DEF HandshakeSucceeds
<1>5. CASE HandshakeFails
  BY <1>5 DEF HandshakeFails
<1>6. CASE PeerCompletes
  BY <1>6 DEF PeerCompletes
<1>7. CASE CloseConnection
  BY <1>7 DEF CloseConnection
<1>8. CASE CloseWriter
  BY <1>8 DEF CloseWriter
<1>9. CASE ReadProcess
  BY <1>9 DEF ReadProcess
<1>10. CASE ReapProcess
  BY <1>10 DEF ReapProcess
<1>11. CASE Clear
  BY <1>11 DEF Clear
<1>12. CASE CancelTasks
  BY <1>12 DEF CancelTasks
<1>13. CASE CloseLoop
  BY <1>13 DEF CloseLoop
<1>14. CASE End
  BY <1>14 DEF End, Unanswered
<1>15. CASE FailStranded
  BY <1>15 DEF FailStranded
<1>16. CASE GracefulEnds
  BY <1>16 DEF GracefulEnds
<1>17. CASE StopPeer
  BY <1>17 DEF StopPeer
<1>18. CASE Start
  BY <1>18 DEF Start
<1>19. CASE Started
  BY <1>19 DEF Started
<1>20. CASE Stop
  BY <1>20 DEF Stop
<1>21. CASE ReadResources
  BY <1>21 DEF ReadResources, Posted
<1>22. CASE Join
  BY <1>22 DEF Join
<1>23. CASE Release
  BY <1>23 DEF Release
<1>24. CASE ConnectionEnds
  BY <1>24 DEF ConnectionEnds
<1>25. CASE ProcessExits
  BY <1>25 DEF ProcessExits
<1>26. ASSUME NEW c \in Calls, RunCall(c) PROVE StartInv'
  BY <1>26 DEF RunCall
<1>27. ASSUME NEW c \in Calls, ResponseArrives(c) PROVE StartInv'
  BY <1>27 DEF ResponseArrives
<1>28. ASSUME NEW c \in Calls, WriteFails(c) PROVE StartInv'
  BY <1>28 DEF WriteFails
<1>29. ASSUME NEW c \in Calls, CallReturns(c) PROVE StartInv'
  BY <1>29 DEF CallReturns
<1>30. ASSUME NEW c \in Calls, CallFails(c) PROVE StartInv'
  BY <1>30 DEF CallFails
<1>31. ASSUME NEW c \in Calls, Submit(c) PROVE StartInv'
  BY <1>31 DEF Submit
<1>32. ASSUME NEW c \in Calls, Schedule(c) PROVE StartInv'
  BY <1>32 DEF Schedule
<1>33. ASSUME NEW c \in Calls, Return(c) PROVE StartInv'
  BY <1>33 DEF Return
<1>34. ASSUME NEW c \in Calls, Cancel(c) PROVE StartInv'
  BY <1>34 DEF Cancel
<1>35. ASSUME NEW j \in Jobs, StartJob(j) PROVE StartInv'
  BY <1>35 DEF StartJob
<1>36. ASSUME NEW j \in Jobs, JobIsOver(j) PROVE StartInv'
  BY <1>36 DEF JobIsOver, Posted
<1>37. ASSUME NEW j \in Jobs, JobTimesOut(j) PROVE StartInv'
  BY <1>37 DEF JobTimesOut, Posted
<1>38. CASE UNCHANGED vars
  BY <1>38 DEF vars
<1>. QED
  BY <1>1, <1>2, <1>3, <1>4, <1>5, <1>6, <1>7, <1>8, <1>9, <1>10, <1>11, <1>12,
     <1>13, <1>14, <1>15, <1>16, <1>17, <1>18, <1>19, <1>20, <1>21, <1>22, <1>23, <1>24,
     <1>25, <1>26, <1>27, <1>28, <1>29, <1>30, <1>31, <1>32, <1>33, <1>34, <1>35, <1>36,
     <1>37, <1>38
     DEF Next, SessionStep, KeywordStep, WorkerStep, TaskStep, TestStep

\* The loop refuses a job once the session has cleared it.
LEMMA JobStep ==
    ASSUME TypeOK, JobInv, ResourceInv, [Next]_vars
    PROVE  JobInv'
<1>. USE DEF TypeOK, JobInv, ResourceInv, Cleared, sessionVars, startVars, linkVars, callVars,
             testVars, LoopClosed, LoopRuns, Fields, Jobs, Open, CallStates, Closing
<1>1. CASE Boot
  BY <1>1 DEF Boot
<1>2. CASE Connect
  BY <1>2 DEF Connect
<1>3. CASE ConnectFails
  BY <1>3 DEF ConnectFails
<1>4. CASE HandshakeSucceeds
  BY <1>4 DEF HandshakeSucceeds
<1>5. CASE HandshakeFails
  BY <1>5 DEF HandshakeFails
<1>6. CASE PeerCompletes
  BY <1>6 DEF PeerCompletes
<1>7. CASE CloseConnection
  BY <1>7 DEF CloseConnection
<1>8. CASE CloseWriter
  BY <1>8 DEF CloseWriter
<1>9. CASE ReadProcess
  BY <1>9 DEF ReadProcess
<1>10. CASE ReapProcess
  BY <1>10 DEF ReapProcess
<1>11. CASE Clear
  BY <1>11 DEF Clear
<1>12. CASE CancelTasks
  BY <1>12 DEF CancelTasks
<1>13. CASE CloseLoop
  BY <1>13 DEF CloseLoop
<1>14. CASE End
  BY <1>14 DEF End, Unanswered
<1>15. CASE FailStranded
  BY <1>15 DEF FailStranded
<1>16. CASE GracefulEnds
  BY <1>16 DEF GracefulEnds
<1>17. CASE StopPeer
  BY <1>17 DEF StopPeer
<1>18. CASE Start
  BY <1>18 DEF Start
<1>19. CASE Started
  BY <1>19 DEF Started
<1>20. CASE Stop
  BY <1>20 DEF Stop
<1>21. CASE ReadResources
  BY <1>21 DEF ReadResources, Posted
<1>22. CASE Join
  BY <1>22 DEF Join
<1>23. CASE Release
  BY <1>23 DEF Release
<1>24. CASE ConnectionEnds
  BY <1>24 DEF ConnectionEnds
<1>25. CASE ProcessExits
  BY <1>25 DEF ProcessExits
<1>26. ASSUME NEW c \in Calls, RunCall(c) PROVE JobInv'
  BY <1>26 DEF RunCall
<1>27. ASSUME NEW c \in Calls, ResponseArrives(c) PROVE JobInv'
  BY <1>27 DEF ResponseArrives
<1>28. ASSUME NEW c \in Calls, WriteFails(c) PROVE JobInv'
  BY <1>28 DEF WriteFails
<1>29. ASSUME NEW c \in Calls, CallReturns(c) PROVE JobInv'
  BY <1>29 DEF CallReturns
<1>30. ASSUME NEW c \in Calls, CallFails(c) PROVE JobInv'
  BY <1>30 DEF CallFails
<1>31. ASSUME NEW c \in Calls, Submit(c) PROVE JobInv'
  BY <1>31 DEF Submit
<1>32. ASSUME NEW c \in Calls, Schedule(c) PROVE JobInv'
  BY <1>32 DEF Schedule
<1>33. ASSUME NEW c \in Calls, Return(c) PROVE JobInv'
  BY <1>33 DEF Return
<1>34. ASSUME NEW c \in Calls, Cancel(c) PROVE JobInv'
  BY <1>34 DEF Cancel
<1>35. ASSUME NEW j \in Jobs, StartJob(j) PROVE JobInv'
  BY <1>35 DEF StartJob
<1>36. ASSUME NEW j \in Jobs, JobIsOver(j) PROVE JobInv'
  BY <1>36 DEF JobIsOver, Posted
<1>37. ASSUME NEW j \in Jobs, JobTimesOut(j) PROVE JobInv'
  BY <1>37 DEF JobTimesOut, Posted
<1>38. CASE UNCHANGED vars
  BY <1>38 DEF vars
<1>. QED
  BY <1>1, <1>2, <1>3, <1>4, <1>5, <1>6, <1>7, <1>8, <1>9, <1>10, <1>11, <1>12,
     <1>13, <1>14, <1>15, <1>16, <1>17, <1>18, <1>19, <1>20, <1>21, <1>22, <1>23, <1>24,
     <1>25, <1>26, <1>27, <1>28, <1>29, <1>30, <1>31, <1>32, <1>33, <1>34, <1>35, <1>36,
     <1>37, <1>38
     DEF Next, SessionStep, KeywordStep, WorkerStep, TaskStep, TestStep

\* A call is submitted to a session that has started.
LEMMA CallStep ==
    ASSUME TypeOK, CallInv, StartInv, [Next]_vars
    PROVE  CallInv'
<1>. USE DEF TypeOK, CallInv, StartInv, Starting, Cleared, Released, sessionVars, startVars,
             linkVars, callVars, testVars, LoopClosed, LoopRuns, Fields, Jobs, Open, CallStates, Closing
<1>1. CASE Boot
  BY <1>1 DEF Boot
<1>2. CASE Connect
  BY <1>2 DEF Connect
<1>3. CASE ConnectFails
  BY <1>3 DEF ConnectFails
<1>4. CASE HandshakeSucceeds
  BY <1>4 DEF HandshakeSucceeds
<1>5. CASE HandshakeFails
  BY <1>5 DEF HandshakeFails
<1>6. CASE PeerCompletes
  BY <1>6 DEF PeerCompletes
<1>7. CASE CloseConnection
  BY <1>7 DEF CloseConnection
<1>8. CASE CloseWriter
  BY <1>8 DEF CloseWriter
<1>9. CASE ReadProcess
  BY <1>9 DEF ReadProcess
<1>10. CASE ReapProcess
  BY <1>10 DEF ReapProcess
<1>11. CASE Clear
  BY <1>11 DEF Clear
<1>12. CASE CancelTasks
  BY <1>12 DEF CancelTasks
<1>13. CASE CloseLoop
  BY <1>13 DEF CloseLoop
<1>14. CASE End
  BY <1>14 DEF End, Unanswered
<1>15. CASE FailStranded
  BY <1>15 DEF FailStranded
<1>16. CASE GracefulEnds
  BY <1>16 DEF GracefulEnds
<1>17. CASE StopPeer
  BY <1>17 DEF StopPeer
<1>18. CASE Start
  BY <1>18 DEF Start
<1>19. CASE Started
  BY <1>19 DEF Started
<1>20. CASE Stop
  BY <1>20 DEF Stop
<1>21. CASE ReadResources
  BY <1>21 DEF ReadResources, Posted
<1>22. CASE Join
  BY <1>22 DEF Join
<1>23. CASE Release
  BY <1>23 DEF Release
<1>24. CASE ConnectionEnds
  BY <1>24 DEF ConnectionEnds
<1>25. CASE ProcessExits
  BY <1>25 DEF ProcessExits
<1>26. ASSUME NEW c \in Calls, RunCall(c) PROVE CallInv'
  BY <1>26 DEF RunCall
<1>27. ASSUME NEW c \in Calls, ResponseArrives(c) PROVE CallInv'
  BY <1>27 DEF ResponseArrives
<1>28. ASSUME NEW c \in Calls, WriteFails(c) PROVE CallInv'
  BY <1>28 DEF WriteFails
<1>29. ASSUME NEW c \in Calls, CallReturns(c) PROVE CallInv'
  BY <1>29 DEF CallReturns
<1>30. ASSUME NEW c \in Calls, CallFails(c) PROVE CallInv'
  BY <1>30 DEF CallFails
<1>31. ASSUME NEW c \in Calls, Submit(c) PROVE CallInv'
  BY <1>31 DEF Submit
<1>32. ASSUME NEW c \in Calls, Schedule(c) PROVE CallInv'
  BY <1>32 DEF Schedule
<1>33. ASSUME NEW c \in Calls, Return(c) PROVE CallInv'
  BY <1>33 DEF Return
<1>34. ASSUME NEW c \in Calls, Cancel(c) PROVE CallInv'
  BY <1>34 DEF Cancel
<1>35. ASSUME NEW j \in Jobs, StartJob(j) PROVE CallInv'
  BY <1>35 DEF StartJob
<1>36. ASSUME NEW j \in Jobs, JobIsOver(j) PROVE CallInv'
  BY <1>36 DEF JobIsOver, Posted
<1>37. ASSUME NEW j \in Jobs, JobTimesOut(j) PROVE CallInv'
  BY <1>37 DEF JobTimesOut, Posted
<1>38. CASE UNCHANGED vars
  BY <1>38 DEF vars
<1>. QED
  BY <1>1, <1>2, <1>3, <1>4, <1>5, <1>6, <1>7, <1>8, <1>9, <1>10, <1>11, <1>12,
     <1>13, <1>14, <1>15, <1>16, <1>17, <1>18, <1>19, <1>20, <1>21, <1>22, <1>23, <1>24,
     <1>25, <1>26, <1>27, <1>28, <1>29, <1>30, <1>31, <1>32, <1>33, <1>34, <1>35, <1>36,
     <1>37, <1>38
     DEF Next, SessionStep, KeywordStep, WorkerStep, TaskStep, TestStep

\* A call fails only in a session that is lost, which it stays.
LEMMA LossStep ==
    ASSUME IInv, [Next]_vars
    PROVE  FailedCallFindsLoss'
<1>. USE DEF IInv, TypeOK, CallInv, StartInv, ResourceInv, FailedCallFindsLoss, Lost, Starting,
             Cleared, Released, sessionVars, startVars, linkVars, callVars, testVars,
             LoopClosed, LoopRuns, Fields, Jobs, Open, CallStates, Closing
<1>1. CASE Boot
  BY <1>1 DEF Boot
<1>2. CASE Connect
  BY <1>2 DEF Connect
<1>3. CASE ConnectFails
  BY <1>3 DEF ConnectFails
<1>4. CASE HandshakeSucceeds
  BY <1>4 DEF HandshakeSucceeds
<1>5. CASE HandshakeFails
  BY <1>5 DEF HandshakeFails
<1>6. CASE PeerCompletes
  BY <1>6 DEF PeerCompletes
<1>7. CASE CloseConnection
  BY <1>7 DEF CloseConnection
<1>8. CASE CloseWriter
  BY <1>8 DEF CloseWriter
<1>9. CASE ReadProcess
  BY <1>9 DEF ReadProcess
<1>10. CASE ReapProcess
  BY <1>10 DEF ReapProcess
<1>11. CASE Clear
  BY <1>11 DEF Clear
<1>12. CASE CancelTasks
  BY <1>12 DEF CancelTasks
<1>13. CASE CloseLoop
  BY <1>13 DEF CloseLoop
<1>14. CASE End
  BY <1>14 DEF End, Unanswered
<1>15. CASE FailStranded
  BY <1>15 DEF FailStranded
<1>16. CASE GracefulEnds
  BY <1>16 DEF GracefulEnds
<1>17. CASE StopPeer
  BY <1>17 DEF StopPeer
<1>18. CASE Start
  BY <1>18 DEF Start
<1>19. CASE Started
  BY <1>19 DEF Started
<1>20. CASE Stop
  BY <1>20 DEF Stop
<1>21. CASE ReadResources
  BY <1>21 DEF ReadResources, Posted
<1>22. CASE Join
  BY <1>22 DEF Join
<1>23. CASE Release
  BY <1>23 DEF Release
<1>24. CASE ConnectionEnds
  BY <1>24 DEF ConnectionEnds
<1>25. CASE ProcessExits
  BY <1>25 DEF ProcessExits
<1>26. ASSUME NEW c \in Calls, RunCall(c) PROVE FailedCallFindsLoss'
  BY <1>26 DEF RunCall
<1>27. ASSUME NEW c \in Calls, ResponseArrives(c) PROVE FailedCallFindsLoss'
  BY <1>27 DEF ResponseArrives
<1>28. ASSUME NEW c \in Calls, WriteFails(c) PROVE FailedCallFindsLoss'
  BY <1>28 DEF WriteFails
<1>29. ASSUME NEW c \in Calls, CallReturns(c) PROVE FailedCallFindsLoss'
  BY <1>29 DEF CallReturns
<1>30. ASSUME NEW c \in Calls, CallFails(c) PROVE FailedCallFindsLoss'
  BY <1>30 DEF CallFails
<1>31. ASSUME NEW c \in Calls, Submit(c) PROVE FailedCallFindsLoss'
  BY <1>31 DEF Submit
<1>32. ASSUME NEW c \in Calls, Schedule(c) PROVE FailedCallFindsLoss'
  BY <1>32 DEF Schedule
<1>33. ASSUME NEW c \in Calls, Return(c) PROVE FailedCallFindsLoss'
  BY <1>33 DEF Return
<1>34. ASSUME NEW c \in Calls, Cancel(c) PROVE FailedCallFindsLoss'
  BY <1>34 DEF Cancel
<1>35. ASSUME NEW j \in Jobs, StartJob(j) PROVE FailedCallFindsLoss'
  BY <1>35 DEF StartJob
<1>36. ASSUME NEW j \in Jobs, JobIsOver(j) PROVE FailedCallFindsLoss'
  BY <1>36 DEF JobIsOver, Posted
<1>37. ASSUME NEW j \in Jobs, JobTimesOut(j) PROVE FailedCallFindsLoss'
  BY <1>37 DEF JobTimesOut, Posted
<1>38. CASE UNCHANGED vars
  BY <1>38 DEF vars
<1>. QED
  BY <1>1, <1>2, <1>3, <1>4, <1>5, <1>6, <1>7, <1>8, <1>9, <1>10, <1>11, <1>12,
     <1>13, <1>14, <1>15, <1>16, <1>17, <1>18, <1>19, <1>20, <1>21, <1>22, <1>23, <1>24,
     <1>25, <1>26, <1>27, <1>28, <1>29, <1>30, <1>31, <1>32, <1>33, <1>34, <1>35, <1>36,
     <1>37, <1>38
     DEF Next, SessionStep, KeywordStep, WorkerStep, TaskStep, TestStep

-----------------------------------------------------------------------------

\* The invariant holds at the start, and every step keeps it.
LEMMA Invariance == Spec => []IInv
<1>1. Init => IInv
  BY DEF Init, IInv, TypeOK, ResourceInv, StartInv, JobInv, CallInv,
         FailedCallFindsLoss, Starting, Cleared, Released, Closing, LoopClosed, LoopRuns,
         Fields, Jobs, CallStates
<1>2. IInv /\ [Next]_vars => IInv'
  BY TypeStep, ResourceStep, StartStep, JobStep, CallStep, LossStep DEF IInv
<1>. QED
  BY <1>1, <1>2, PTL DEF Spec

\* The variables of a session keep their types, for any number of calls.
THEOREM TypeCorrect == Spec => []TypeOK
<1>. QED
  BY Invariance, PTL DEF IInv

\* run_keyword() of the library can tell a lost session by `lost`: every call that
\* the closure or the end of the worker fails, and every one that is refused, finds
\* the session lost, unless the client has closed it.
THEOREM FailedCallsFindLoss == Spec => []FailedCallFindsLoss
<1>. QED
  BY Invariance, PTL DEF IInv

\* When the failure of a start is told, connection and server are gone.
THEOREM FailedStartsRelease == Spec => []FailedStartReleases
<1>1. IInv => FailedStartReleases
  BY DEF IInv, TypeOK, ResourceInv, StartInv, FailedStartReleases, Starting, Cleared, Released,
         Closing, LoopClosed, LoopRuns
<1>. QED
  BY <1>1, Invariance, PTL

\* No job of the teardown is on the loop when that is closed.
THEOREM NoJobIsDestroyed == Spec => []NoJobDestroyed
<1>1. IInv => NoJobDestroyed
  BY DEF IInv, JobInv, NoJobDestroyed
<1>. QED
  BY <1>1, Invariance, PTL

-----------------------------------------------------------------------------
(* The session implements SessionLifecycle. *)

\* Whose turn it is: only the call that the test waits for is open, and the
\* client closes the session when it waits for none. The peer is up as long as
\* the connection is open; the worker fails what its loop has left.
TurnInv ==
    /\ closedByClient => test \notin {"new", "starting", "idle", "submitting", "calling"}
    /\ \A c \in Calls : calls[c] \in Open => test = "calling" /\ c \in current
    /\ \A c, d \in current : c = d
    /\ test = "submitting" => \A c \in current : calls[c] = "new"
    /\ peer = "up" <=> conn = "open"
    /\ ended => worker \in {"failing", "over"}
    /\ stranded # {} => worker = "failing"
    /\ \A c \in stranded : calls[c] \in Open \cup {"failed", "cancelled"}

LEMMA TurnStep ==
    ASSUME IInv, TurnInv, [Next]_vars
    PROVE  TurnInv'
<1>. USE DEF IInv, TypeOK, TurnInv, sessionVars, startVars, linkVars, callVars, testVars, LoopClosed,
             LoopRuns, Fields, Jobs, Open, CallStates, Closing
<1>1. CASE Boot
  BY <1>1 DEF Boot
<1>2. CASE Connect
  BY <1>2 DEF Connect
<1>3. CASE ConnectFails
  BY <1>3 DEF ConnectFails
<1>4. CASE HandshakeSucceeds
  BY <1>4 DEF HandshakeSucceeds
<1>5. CASE HandshakeFails
  BY <1>5 DEF HandshakeFails
<1>6. CASE PeerCompletes
  BY <1>6 DEF PeerCompletes
<1>7. CASE CloseConnection
  BY <1>7 DEF CloseConnection
<1>8. CASE CloseWriter
  BY <1>8 DEF CloseWriter
<1>9. CASE ReadProcess
  BY <1>9 DEF ReadProcess
<1>10. CASE ReapProcess
  BY <1>10 DEF ReapProcess
<1>11. CASE Clear
  BY <1>11 DEF Clear
<1>12. CASE CancelTasks
  BY <1>12 DEF CancelTasks
<1>13. CASE CloseLoop
  BY <1>13 DEF CloseLoop
<1>14. CASE End
  BY <1>14 DEF End, Unanswered
<1>15. CASE FailStranded
  BY <1>15 DEF FailStranded
<1>16. CASE GracefulEnds
  BY <1>16 DEF GracefulEnds
<1>17. CASE StopPeer
  BY <1>17 DEF StopPeer
<1>18. CASE Start
  BY <1>18 DEF Start, ResourceInv
<1>19. CASE Started
  BY <1>19 DEF Started
<1>20. CASE Stop
  BY <1>20 DEF Stop
<1>21. CASE ReadResources
  BY <1>21 DEF ReadResources, Posted
<1>22. CASE Join
  BY <1>22 DEF Join
<1>23. CASE Release
  BY <1>23 DEF Release
<1>24. CASE ConnectionEnds
  BY <1>24 DEF ConnectionEnds
<1>25. CASE ProcessExits
  BY <1>25 DEF ProcessExits
<1>26. ASSUME NEW c \in Calls, RunCall(c) PROVE TurnInv'
  BY <1>26 DEF RunCall
<1>27. ASSUME NEW c \in Calls, ResponseArrives(c) PROVE TurnInv'
  BY <1>27 DEF ResponseArrives
<1>28. ASSUME NEW c \in Calls, WriteFails(c) PROVE TurnInv'
  BY <1>28 DEF WriteFails
<1>29. ASSUME NEW c \in Calls, CallReturns(c) PROVE TurnInv'
  BY <1>29 DEF CallReturns
<1>30. ASSUME NEW c \in Calls, CallFails(c) PROVE TurnInv'
  BY <1>30 DEF CallFails
<1>31. ASSUME NEW c \in Calls, Submit(c) PROVE TurnInv'
  BY <1>31 DEF Submit
<1>32. ASSUME NEW c \in Calls, Schedule(c) PROVE TurnInv'
  BY <1>32 DEF Schedule
<1>33. ASSUME NEW c \in Calls, Return(c) PROVE TurnInv'
  BY <1>33 DEF Return
<1>34. ASSUME NEW c \in Calls, Cancel(c) PROVE TurnInv'
  BY <1>34 DEF Cancel
<1>35. ASSUME NEW j \in Jobs, StartJob(j) PROVE TurnInv'
  BY <1>35 DEF StartJob
<1>36. ASSUME NEW j \in Jobs, JobIsOver(j) PROVE TurnInv'
  BY <1>36 DEF JobIsOver, Posted
<1>37. ASSUME NEW j \in Jobs, JobTimesOut(j) PROVE TurnInv'
  BY <1>37 DEF JobTimesOut, Posted
<1>38. CASE UNCHANGED vars
  BY <1>38 DEF vars
<1>. QED
  BY <1>1, <1>2, <1>3, <1>4, <1>5, <1>6, <1>7, <1>8, <1>9, <1>10, <1>11, <1>12,
     <1>13, <1>14, <1>15, <1>16, <1>17, <1>18, <1>19, <1>20, <1>21, <1>22, <1>23, <1>24,
     <1>25, <1>26, <1>27, <1>28, <1>29, <1>30, <1>31, <1>32, <1>33, <1>34, <1>35, <1>36,
     <1>37, <1>38
     DEF Next, SessionStep, KeywordStep, WorkerStep, TaskStep, TestStep

LEMMA TurnHolds == Spec => [](IInv /\ TurnInv)
<1>1. Init => TurnInv
  BY DEF Init, TurnInv, Open
<1>2. IInv /\ TurnInv /\ [Next]_vars => TurnInv'
  BY TurnStep
<1>. QED
  BY <1>1, <1>2, Invariance, PTL DEF Spec

\* The calls as SessionLifecycle sees them.
Call == [c \in Calls |-> CallState(calls[c])]

LEMMA CallStateValues ==
    /\ CallState("queued") = "open" /\ CallState("running") = "open"
    /\ CallState("done") = "answered" /\ CallState("refused") = "failed"
    /\ \A s \in {"new", "received", "broken", "raised", "failed", "cancelled"} : CallState(s) = s
BY DEF CallState

\* A call is under way as long as its loop has it.
LEMMA UnderWayIsOpen ==
    ASSUME TypeOK, NEW c \in Calls
    PROVE  Lifecycle!UnderWay(c) <=> calls[c] \in Open
<1>1. calls[c] \in CallStates
  BY DEF TypeOK
<1>2. Call[c] = CallState(calls[c])
  BY DEF Call
<1>3. CallState(calls[c]) \in {"open", "received", "broken"} <=> calls[c] \in Open
  BY <1>1, CallStateValues DEF CallStates, Open
<1>. QED
  BY <1>2, <1>3 DEF Lifecycle!UnderWay, Call

\* The step of one call, from one state of it to another.
Becomes(c, old, new) == Call[c] = old /\ Call' = [Call EXCEPT ![c] = new]

LEMMA CallUpdate ==
    ASSUME TypeOK, NEW c \in Calls, NEW s, calls' = [calls EXCEPT ![c] = s]
    PROVE  Becomes(c, CallState(calls[c]), CallState(s))
<1>1. calls \in [Calls -> CallStates]
  BY DEF TypeOK, CallStates
<1>. QED
  BY <1>1 DEF Call, Becomes

LEMMA PhaseValue ==
    /\ closedByClient => Phase = "stopped"
    /\ ~closedByClient /\ ~token => Phase = "starting"
    /\ ~closedByClient /\ token /\ Lost => Phase = "lost"
    /\ ~closedByClient /\ token /\ ~Lost => Phase = "up"
BY DEF Phase

\* What makes calls, or ends them, leaves the phase as it is.
LEMMA SamePhase ==
    ASSUME UNCHANGED <<closedByClient, token, ended, res, peer>>
    PROVE  UNCHANGED Phase
BY DEF Phase, Lost

\* The phase goes on from "up" to "lost", if it changes at all.
LEMMA PhaseStep ==
    ASSUME TypeOK, UNCHANGED <<closedByClient, token, calls>>,
           closedByClient \/ ~token \/ (Lost => Lost')
    PROVE  Lifecycle!Lose \/ UNCHANGED <<Phase, Call>>
<1>1. UNCHANGED Call
  BY DEF Call
<1>2. CASE closedByClient
  BY <1>1, <1>2 DEF Phase
<1>3. CASE ~closedByClient /\ ~token
  BY <1>1, <1>3 DEF Phase
<1>4. CASE ~closedByClient /\ token /\ (Lost <=> Lost')
  BY <1>1, <1>4 DEF Phase
<1>5. CASE ~closedByClient /\ token /\ ~Lost /\ Lost'
  <2>1. Phase = "up" /\ Phase' = "lost"
    BY <1>5 DEF Phase
  <2>. QED
    BY <1>1, <2>1 DEF Lifecycle!Lose, Call
<1>. QED
  BY <1>2, <1>3, <1>4, <1>5

\* The steps of the connection and its worker that neither start the session nor
\* close it, and the steps of the teardown.
LinkStep ==
    \/ Boot \/ Connect \/ ConnectFails \/ HandshakeFails \/ PeerCompletes
    \/ CloseConnection \/ CloseWriter \/ ReadProcess \/ ReapProcess \/ Clear \/ CloseLoop \/ End \/ StopPeer \/ ConnectionEnds \/ ProcessExits \/ GracefulEnds
    \/ Start \/ Started \/ ReadResources \/ Join \/ Release
    \/ \E j \in Jobs : StartJob(j) \/ JobIsOver(j) \/ JobTimesOut(j)

\* A session that is lost stays so, unless the client closes it.
LEMMA LinkRefines ==
    ASSUME IInv, TurnInv, LinkStep
    PROVE  Lifecycle!Lose \/ UNCHANGED <<Phase, Call>>
<1>. USE DEF sessionVars, startVars, linkVars, callVars, testVars
<1>1. TypeOK /\ ResourceInv /\ StartInv
  BY DEF IInv
<1>2. UNCHANGED <<closedByClient, token, calls>>
  BY DEF LinkStep, Boot, Connect, ConnectFails, HandshakeFails, PeerCompletes, CloseConnection,
         CloseWriter, ReadProcess, ReapProcess, Clear, CloseLoop, End, StopPeer, ConnectionEnds, ProcessExits, GracefulEnds, Start, Started,
         ReadResources, Join, Release, StartJob, JobIsOver, JobTimesOut
<1>3. closedByClient \/ ~token \/ (Lost => Lost')
  <2>1. CASE Start
    BY <1>1, <2>1 DEF Start, ResourceInv, StartInv, Starting
  <2>2. CASE Connect
    BY <1>1, <2>2 DEF Connect, StartInv, Starting
  <2>3. CASE CloseWriter \/ ReapProcess
    BY <1>2, <2>3 DEF CloseWriter, ReapProcess, Lost
  <2>4. CASE Clear
    BY <1>2, <2>4 DEF Clear, Lost
  <2>5. CASE End
    BY <1>2, <2>5 DEF End, Lost
  <2>6. CASE StopPeer \/ ConnectionEnds
    BY <1>2, <2>6 DEF StopPeer, ConnectionEnds, Lost
  <2>7. CASE Release
    BY <1>2, <2>7 DEF Release, Lost
  <2>8. CASE Boot
    BY <1>1, <2>8 DEF Boot, StartInv, Starting
  <2>9. CASE \/ ConnectFails \/ HandshakeFails \/ PeerCompletes \/ CloseConnection \/ ReadProcess \/ CloseLoop \/ ProcessExits \/ GracefulEnds
             \/ Started \/ ReadResources \/ Join
             \/ \E j \in Jobs : StartJob(j) \/ JobIsOver(j) \/ JobTimesOut(j)
    BY <1>2, <2>9 DEF ConnectFails, HandshakeFails, PeerCompletes, CloseConnection, ReadProcess, CloseLoop, ProcessExits, GracefulEnds,
       Started, ReadResources, Join, StartJob, JobIsOver, JobTimesOut, Lost
  <2>. QED
    BY <2>1, <2>2, <2>3, <2>4, <2>5, <2>6, <2>7, <2>8, <2>9 DEF LinkStep
<1>. QED
  BY <1>1, <1>2, <1>3, PhaseStep

\* The handshake makes a session that was not given up come up.
LEMMA HandshakeRefines ==
    ASSUME IInv, TurnInv, HandshakeSucceeds
    PROVE  Lifecycle!ComeUp \/ UNCHANGED <<Phase, Call>>
<1>1. UNCHANGED <<closedByClient, calls, ended, res, peer>> /\ token' /\ peer = "up" /\ worker = "handshake"
  BY DEF HandshakeSucceeds, linkVars, callVars, testVars
<1>2. UNCHANGED Call
  BY <1>1 DEF Call
<1>3. CASE closedByClient
  BY <1>1, <1>2, <1>3, PhaseValue DEF Phase
<1>4. CASE ~closedByClient
  <2>1. ~token
    BY <1>1 DEF IInv, StartInv, Starting
  <2>2. "peer" \in res
    BY <1>1, <1>4 DEF IInv, ResourceInv, TurnInv, Released, Cleared, LoopClosed
  <2>3. ~ended
    BY <1>1 DEF TurnInv
  <2>4. Phase = "starting" /\ Phase' = "up"
    BY <1>1, <1>4, <2>1, <2>2, <2>3 DEF Phase, Lost
  <2>. QED
    BY <1>2, <2>4 DEF Lifecycle!ComeUp, Call
<1>. QED
  BY <1>3, <1>4

\* The client closes the session when no call is open.
LEMMA StopRefines ==
    ASSUME IInv, TurnInv, Stop
    PROVE  Lifecycle!Stop
<1>1. closedByClient' /\ ~closedByClient /\ UNCHANGED calls
  BY DEF Stop, TurnInv, callVars
<1>2. TypeOK /\ \A c \in Calls : calls[c] \notin Open
  BY DEF Stop, TurnInv, IInv
<1>3. \A c \in Calls : ~Lifecycle!UnderWay(c)
  BY <1>2, UnderWayIsOpen
<1>4. Phase # "stopped" /\ Phase' = "stopped"
  BY <1>1 DEF Phase
<1>. QED
  BY <1>1, <1>3, <1>4 DEF Lifecycle!Stop, Call

\* A call that fails does so in a session that is lost.
LEMMA FailRefines ==
    ASSUME IInv, TurnInv, NEW c \in Calls, calls[c] \in Open \cup {"new"}, ~closedByClient, token, Lost,
           NEW s \in {"failed", "refused"}, calls' = [calls EXCEPT ![c] = s],
           UNCHANGED <<closedByClient, token, ended, res, peer>>
    PROVE  Lifecycle!Fail(c)
<1>1. TypeOK
  BY DEF IInv
<1>2. Phase = "lost" /\ UNCHANGED Phase
  BY PhaseValue, SamePhase
<1>3. Becomes(c, CallState(calls[c]), CallState(s))
  BY <1>1, CallUpdate
<1>4. Call' = [Call EXCEPT ![c] = "failed"] /\ (Call[c] = "new" \/ Lifecycle!UnderWay(c))
  BY <1>1, <1>3, CallStateValues, UnderWayIsOpen DEF Becomes
<1>. QED
  BY <1>2, <1>4 DEF Lifecycle!Fail, Lifecycle!Becomes, Call

\* Where a call can be made or is open, the session has started.
LEMMA InCall ==
    ASSUME IInv, TurnInv, NEW c \in Calls,
           test \in {"idle", "submitting", "calling"} \/ calls[c] \in Open
    PROVE  ~closedByClient /\ token /\ Phase \in {"up", "lost"}
<1>1. test \in {"idle", "submitting", "calling"}
  BY DEF TurnInv
<1>2. ~closedByClient /\ token
  BY <1>1 DEF TurnInv, IInv, StartInv
<1>. QED
  BY <1>2, PhaseValue

\* There are no resources left when the worker has come to its end.
LEMMA LostAtEnd ==
    ASSUME IInv, token, ~closedByClient, worker \in Cleared \/ "loop" \notin res \/ peer = "down" \/ ended
    PROVE  Lost
BY DEF IInv, ResourceInv, Lost

\* A call that is made.
LEMMA MakeRefines ==
    ASSUME IInv, TurnInv, NEW c \in Calls, Submit(c) \/ Schedule(c)
    PROVE  Lifecycle!Make(c) \/ Lifecycle!Fail(c) \/ UNCHANGED <<Phase, Call>>
<1>1. TypeOK /\ UNCHANGED <<closedByClient, token, ended, res, peer>>
  BY DEF IInv, Submit, Schedule, sessionVars, startVars, linkVars
<1>2. test \in {"idle", "submitting"} /\ calls[c] = "new"
  BY DEF Submit, Schedule, TurnInv
<1>3. ~closedByClient /\ token /\ Phase \in {"up", "lost"} /\ UNCHANGED Phase
  BY <1>1, <1>2, InCall, SamePhase
<1>4. CASE UNCHANGED calls
  <2>1. UNCHANGED Call
    BY <1>4 DEF Call
  <2>. QED
    BY <1>3, <2>1
<1>5. CASE calls' = [calls EXCEPT ![c] = "refused"] /\ ("loop" \notin res \/ ended \/ worker \in LoopClosed)
  <2>1. Lost
    BY <1>3, <1>5, LostAtEnd DEF Cleared
  <2>. QED
    BY <1>1, <1>2, <1>3, <1>5, <2>1, FailRefines
<1>6. CASE calls' = [calls EXCEPT ![c] = "queued"]
  <2>1. \A d \in Calls : calls[d] \notin Open
    BY <1>2 DEF TurnInv
  <2>2. \A d \in Calls : ~Lifecycle!UnderWay(d)
    BY <1>1, <2>1, UnderWayIsOpen
  <2>3. Becomes(c, CallState(calls[c]), CallState("queued"))
    BY <1>1, <1>6, CallUpdate
  <2>4. Call' = [Call EXCEPT ![c] = "open"] /\ Call[c] = "new"
    BY <1>2, <2>3, CallStateValues DEF Becomes
  <2>. QED
    BY <1>3, <2>2, <2>4 DEF Lifecycle!Make, Lifecycle!Becomes, Call
<1>. QED
  BY <1>4, <1>5, <1>6 DEF Submit, Schedule, callVars

\* While the peer is up, so is a session with a call.
LEMMA UpWithPeer ==
    ASSUME IInv, TurnInv, NEW c \in Calls, calls[c] \in Open, worker \in LoopRuns, peer = "up"
    PROVE  Phase = "up"
<1>1. ~closedByClient /\ token
  BY InCall
<1>2. "peer" \in res /\ ~ended
  BY <1>1 DEF IInv, ResourceInv, TurnInv, LoopRuns, Released, Cleared, LoopClosed
<1>. QED
  BY <1>1, <1>2, PhaseValue DEF Lost

\* A call that goes on, or ends.
LEMMA CallRefines ==
    ASSUME IInv, TurnInv, NEW c \in Calls,
           \/ RunCall(c) \/ ResponseArrives(c) \/ WriteFails(c) \/ CallReturns(c) \/ CallFails(c)
           \/ Return(c) \/ Cancel(c)
    PROVE  Lifecycle!CallStep(c) \/ UNCHANGED <<Phase, Call>>
<1>1. TypeOK /\ UNCHANGED <<closedByClient, token, ended, res, peer>>
  BY DEF IInv, RunCall, ResponseArrives, WriteFails, CallReturns, CallFails, Return, Cancel,
         sessionVars, testVars, startVars, linkVars
<1>2. UNCHANGED Phase
  BY <1>1, SamePhase
<1>3. CASE RunCall(c)
  <2>1. Becomes(c, CallState(calls[c]), CallState("running")) /\ calls[c] = "queued"
    BY <1>1, <1>3, CallUpdate DEF RunCall
  <2>2. Call' = Call
    BY <2>1, CallStateValues DEF Call, Becomes
  <2>. QED
    BY <1>2, <2>2
<1>4. CASE ResponseArrives(c)
  <2>1. calls[c] = "running" /\ calls' = [calls EXCEPT ![c] = "received"]
    BY <1>4 DEF ResponseArrives
  <2>2. Phase = "up"
    BY <1>4, <2>1, UpWithPeer DEF ResponseArrives, Open
  <2>3. Becomes(c, CallState(calls[c]), CallState("received"))
    BY <1>1, <2>1, CallUpdate
  <2>4. Call' = [Call EXCEPT ![c] = "received"] /\ Call[c] = "open"
    BY <2>1, <2>3, CallStateValues DEF Becomes
  <2>. QED
    BY <1>2, <2>2, <2>4 DEF Lifecycle!CallStep, Lifecycle!Receive, Lifecycle!Becomes, Call
<1>5. CASE WriteFails(c)
  <2>1. calls[c] \in {"running", "received"} /\ calls' = [calls EXCEPT ![c] = "broken"]
    BY <1>5 DEF WriteFails
  <2>2. calls[c] = "running" => Phase = "up"
    BY <1>5, UpWithPeer DEF WriteFails, Open
  <2>3. Phase \in {"up", "lost"}
    BY <2>1, InCall DEF Open
  <2>4. Becomes(c, CallState(calls[c]), CallState("broken"))
    BY <1>1, <2>1, CallUpdate
  <2>5. Call' = [Call EXCEPT ![c] = "broken"]
        /\ ((Call[c] = "open" /\ Phase = "up") \/ Call[c] = "received")
    BY <2>1, <2>2, <2>4, CallStateValues DEF Becomes
  <2>. QED
    BY <1>2, <2>3, <2>5 DEF Lifecycle!CallStep, Lifecycle!Break, Lifecycle!Becomes, Call
<1>6. CASE CallReturns(c)
  <2>1. PICK s \in {"done", "raised"} :
           /\ calls' = [calls EXCEPT ![c] = s]
           /\ calls[c] = IF s = "done" THEN "received" ELSE "broken"
    BY <1>6 DEF CallReturns
  <2>2. Phase \in {"up", "lost"}
    BY <2>1, InCall DEF Open
  <2>3. Becomes(c, CallState(calls[c]), CallState(s))
    BY <1>1, <2>1, CallUpdate
  <2>4. \/ Call[c] = "received" /\ Call' = [Call EXCEPT ![c] = "answered"]
        \/ Call[c] = "broken" /\ Call' = [Call EXCEPT ![c] = "raised"]
    BY <2>1, <2>3, CallStateValues DEF Becomes
  <2>. QED
    BY <1>2, <2>2, <2>4 DEF Lifecycle!CallStep, Lifecycle!End, Lifecycle!Becomes, Call
<1>7. CASE CallFails(c)
  <2>1. calls[c] = "running" /\ calls' = [calls EXCEPT ![c] = "failed"] /\ peer = "down"
    BY <1>7 DEF CallFails
  <2>2. ~closedByClient /\ token
    BY <2>1, InCall DEF Open
  <2>3. Lost
    BY <2>1, <2>2, LostAtEnd
  <2>. QED
    BY <1>1, <2>1, <2>2, <2>3, FailRefines DEF Lifecycle!CallStep, Open
<1>8. CASE Return(c)
  BY <1>2, <1>8 DEF Return, callVars, Call
<1>9. CASE Cancel(c)
  <2>1. calls[c] \in Open /\ calls' = [calls EXCEPT ![c] = "cancelled"]
    BY <1>9 DEF Cancel
  <2>2. Phase \in {"up", "lost"} /\ Lifecycle!UnderWay(c)
    BY <1>1, <2>1, InCall, UnderWayIsOpen
  <2>3. Becomes(c, CallState(calls[c]), CallState("cancelled"))
    BY <1>1, <2>1, CallUpdate
  <2>4. Call' = [Call EXCEPT ![c] = "cancelled"]
    BY <2>3, CallStateValues DEF Becomes
  <2>. QED
    BY <1>2, <2>2, <2>4 DEF Lifecycle!CallStep, Lifecycle!Cancel, Lifecycle!Becomes, Call
<1>. QED
  BY <1>3, <1>4, <1>5, <1>6, <1>7, <1>8, <1>9

\* The calls that the end of the loop leaves: asyncio.run() cancels those that
\* run, of which there is one at most, and _end() fails the others.
LEMMA EndRefines ==
    ASSUME IInv, TurnInv, CancelTasks \/ FailStranded
    PROVE  (\E c \in Calls : Lifecycle!Fail(c)) \/ Lifecycle!Lose \/ UNCHANGED <<Phase, Call>>
<1>1. TypeOK /\ calls \in [Calls -> CallStates] /\ worker \in Cleared
  BY DEF IInv, TypeOK, CallStates, CancelTasks, FailStranded, Cleared, LoopClosed
<1>2. CASE UNCHANGED calls
  <2>1. UNCHANGED <<closedByClient, token>> /\ (closedByClient \/ ~token \/ (Lost => Lost'))
    BY <1>2 DEF CancelTasks, FailStranded, Lost, testVars, startVars, linkVars
  <2>. QED
    BY <1>1, <1>2, <2>1, PhaseStep
<1>3. ASSUME NEW c \in Calls, calls[c] \in Open, calls' = [calls EXCEPT ![c] = "failed"]
      PROVE  Lifecycle!Fail(c)
  <2>1. ~closedByClient /\ token /\ UNCHANGED <<closedByClient, token>>
    BY <1>3, InCall DEF CancelTasks, FailStranded, testVars, startVars
  <2>2. Lost /\ Lost'
    <3>1. "peer" \notin res /\ UNCHANGED res
      BY <1>1 DEF IInv, ResourceInv, CancelTasks, FailStranded
    <3>. QED
      BY <2>1, <3>1 DEF Lost
  <2>3. Phase = "lost" /\ UNCHANGED Phase
    BY <2>1, <2>2 DEF Phase
  <2>4. Becomes(c, CallState(calls[c]), CallState("failed"))
    BY <1>1, <1>3, CallUpdate
  <2>5. Call' = [Call EXCEPT ![c] = "failed"] /\ Lifecycle!UnderWay(c)
    BY <1>1, <1>3, <2>4, CallStateValues, UnderWayIsOpen DEF Becomes
  <2>. QED
    BY <2>3, <2>5 DEF Lifecycle!Fail, Lifecycle!Becomes, Call
<1>4. CASE CancelTasks
  <2>. DEFINE Runs == Open \ {"queued"}
  <2>1. calls' = [c \in Calls |-> IF calls[c] \in Runs THEN "failed" ELSE calls[c]]
    BY <1>4 DEF CancelTasks
  <2>2. CASE \A c \in Calls : calls[c] \notin Runs
    <3>1. UNCHANGED calls
      BY <1>1, <2>1, <2>2
    <3>. QED
      BY <1>2, <3>1
  <2>3. ASSUME NEW c \in Calls, calls[c] \in Runs
        PROVE  \E d \in Calls : Lifecycle!Fail(d)
    <3>1. \A d \in Calls : calls[d] \in Runs => d = c
      BY <2>3 DEF TurnInv
    <3>2. calls' = [calls EXCEPT ![c] = "failed"]
      BY <1>1, <2>1, <2>3, <3>1
    <3>. QED
      BY <1>3, <2>3, <3>2
  <2>. QED
    BY <2>2, <2>3
<1>5. CASE FailStranded /\ ~UNCHANGED calls
  <2>1. PICK c \in stranded : calls' = [calls EXCEPT ![c] = IF @ \in {"done", "raised", "cancelled"} THEN @ ELSE "failed"]
    BY <1>5 DEF FailStranded, callVars
  <2>2. c \in Calls /\ calls[c] \in Open \cup {"failed", "cancelled"}
    BY <1>1 DEF TypeOK, TurnInv
  <2>3. calls[c] \in Open /\ calls' = [calls EXCEPT ![c] = "failed"]
    BY <1>1, <1>5, <2>1, <2>2 DEF Open
  <2>. QED
    BY <1>3, <2>2, <2>3
<1>. QED
  BY <1>2, <1>4, <1>5

\* Every step of the session is one of SessionLifecycle, or leaves it alone.
LEMMA StepRefines ==
    ASSUME IInv, TurnInv, [Next]_vars
    PROVE  [Lifecycle!Next]_<<Phase, Call>>
<1>1. CASE LinkStep
  BY <1>1, LinkRefines DEF Lifecycle!Next
<1>2. CASE HandshakeSucceeds
  BY <1>2, HandshakeRefines DEF Lifecycle!Next
<1>3. CASE Stop
  BY <1>3, StopRefines DEF Lifecycle!Next
<1>4. CASE \E c \in Calls : Submit(c) \/ Schedule(c)
  BY <1>4, MakeRefines DEF Lifecycle!Next, Lifecycle!CallStep
<1>5. CASE \E c \in Calls : \/ RunCall(c) \/ ResponseArrives(c) \/ WriteFails(c) \/ CallReturns(c)
                          \/ CallFails(c) \/ Return(c) \/ Cancel(c)
  BY <1>5, CallRefines DEF Lifecycle!Next
<1>6. CASE CancelTasks \/ FailStranded
  BY <1>6, EndRefines DEF Lifecycle!Next, Lifecycle!CallStep
<1>7. CASE UNCHANGED vars
  BY <1>7 DEF vars, sessionVars, startVars, linkVars, callVars, testVars, Phase, Lost, Call
<1>. QED
  BY <1>1, <1>2, <1>3, <1>4, <1>5, <1>6, <1>7
     DEF Next, SessionStep, KeywordStep, WorkerStep, TaskStep, TestStep, LinkStep

\* Whatever the worker, the tasks on its loop, the thread of the test and the
\* server do in between, a session comes up once and is lost for good; a call ends
\* once, with a response that came before the loss, with the loss, or with a request
\* that could not be written; and stop() meets no call.
THEOREM SessionImplementsLifecycle == Spec => SessionLifecycleSpec
<1>1. Init => Lifecycle!Init
  BY CallStateValues DEF Init, Lifecycle!Init, Phase
<1>2. IInv /\ TurnInv /\ [Next]_vars => [Lifecycle!Next]_<<Phase, Call>>
  BY StepRefines
<1>. QED
  BY <1>1, <1>2, TurnHolds, PTL DEF Spec, SessionLifecycleSpec, Lifecycle!Spec, Lifecycle!vars, Call

-----------------------------------------------------------------------------
(* The log messages of a session *)

Final == {"done", "raised", "failed", "cancelled"}

\* The keyword, the sink and the thread of the test.
PlaceInv ==
    /\ attached <=> keyword \in {"begun", "awaiting"}
    /\ keyword = "begun" => test \in {"idle", "submitting"}
    /\ keyword = "awaiting" <=> test = "calling"
    /\ test = "submitting" => keyword = "begun"
    /\ test \notin {"submitting", "calling"} => current = {}
    /\ \A c, d \in current : c = d
    /\ test = "submitting" => \A c \in current : calls[c] = "new"

\* The loop stops behind everything else, and it is told of one outcome.
ReadyInv ==
    /\ keyword = "none" => ready = <<>>
    /\ keyword = "ended" => ready # <<>> /\ ready[Len(ready)] = Over
    /\ \A i \in DOMAIN ready : ready[i].run = "over" => keyword = "ended" /\ i = Len(ready)
    /\ \A i \in DOMAIN ready : ready[i].run \in {"settle", "wake"} =>
          /\ keyword = "awaiting"
          /\ \A c \in current : calls[c] \in Final
          /\ \A j \in DOMAIN ready : ready[j].run \in {"settle", "wake"} => j = i

\* What has arrived before the outcome is not with the sink.
DueInv ==
    /\ attached => pending = <<>>
    /\ due <= sent - Len(pending)

\* Every message is in one place only.
OrderInv == LogKeepsOrder /\ Len(written) + Len(pending) <= sent

LogInv == LogTypeOK /\ IInv /\ PlaceInv /\ ReadyInv /\ DueInv /\ OrderInv

-----------------------------------------------------------------------------
(* The session *)

\* Every step of the composition is a step of the session, or none.
LEMMA StepOfSession ==
    ASSUME [LogNext]_allVars
    PROVE  [Next]_vars
<1>1. CASE SessionGoesOn
  BY <1>1 DEF SessionGoesOn, Next
<1>2. CASE StopSession
  BY <1>2 DEF StopSession, Next
<1>3. ASSUME NEW c \in Calls, SubmitCall(c) \/ CancelKeyword(c)
      PROVE  Next
  BY <1>3 DEF SubmitCall, CancelKeyword, Next, KeywordStep
<1>4. CASE RunCallback
  <2>1. CASE LeaveKeyword
    BY <2>1 DEF LeaveKeyword, Next, KeywordStep
  <2>2. CASE WriteLog \/ TakeOutcome \/ StopLoop
    BY <2>2 DEF WriteLog, TakeOutcome, StopLoop
  <2>. QED
    BY <1>4, <2>1, <2>2 DEF RunCallback
<1>5. CASE LogArrives \/ Drain \/ Attach \/ UNCHANGED allVars
  BY <1>5 DEF LogArrives, Drain, Attach, allVars
<1>. QED
  BY <1>1, <1>2, <1>3, <1>4, <1>5 DEF LogNext

\* What the rest of the session does to the thread of the test while a keyword
\* runs, and to its call: nothing, and nothing to a call that is over.
LEMMA SessionKeeps ==
    ASSUME IInv, SessionStep
    PROVE  /\ current' = current
           /\ test \in {"idle", "submitting", "calling"} => test' = test
           /\ test' \in {"submitting", "calling"} => test' = test
           /\ \A c \in Calls : /\ calls[c] \in Final => calls'[c] \in Final
                               /\ calls[c] = "new" => calls'[c] = "new"
<1>. USE DEF IInv, TypeOK, CallInv, Final, sessionVars, startVars, linkVars, callVars,
             testVars, Jobs, Open, CallStates
<1>1. CASE WorkerStep
  BY <1>1 DEF WorkerStep, Boot, Connect, ConnectFails, PeerCompletes, CloseConnection, CloseWriter,
              ReadProcess, ReapProcess, Clear, CancelTasks, CloseLoop, End, FailStranded, HandshakeFails, Unanswered
<1>2. CASE TaskStep
  BY <1>2 DEF TaskStep, StopPeer, RunCall, CallReturns, CallFails, StartJob
<1>3. CASE TestStep
  BY <1>3 DEF TestStep, Started, ReadResources, Join, Release, JobIsOver
<1>4. CASE Start \/ HandshakeSucceeds \/ HandshakeFails \/ GracefulEnds \/ ConnectionEnds
           \/ ProcessExits
  BY <1>4 DEF Start, HandshakeSucceeds, HandshakeFails, GracefulEnds, ConnectionEnds,
              ProcessExits
<1>5. ASSUME NEW c \in Calls, ResponseArrives(c) \/ WriteFails(c)
      PROVE  /\ current' = current /\ test' = test
             /\ \A d \in Calls : /\ calls[d] \in Final => calls'[d] \in Final
                                 /\ calls[d] = "new" => calls'[d] = "new"
  BY <1>5 DEF ResponseArrives, WriteFails
<1>6. ASSUME NEW j \in Jobs, JobTimesOut(j)
      PROVE  /\ current' = current /\ calls' = calls
             /\ test \in Jobs /\ test' \in {"stop", "joining"}
  BY <1>6 DEF JobTimesOut
<1>. QED
  BY <1>1, <1>2, <1>3, <1>4, <1>5, <1>6 DEF SessionStep

-----------------------------------------------------------------------------
(* Types *)

Callbacks(n) == {Log(m) : m \in 1..n} \cup {Settle, Wake, Over}

LEMMA CallbacksGrow ==
    ASSUME NEW n \in Nat, NEW s \in Seq(Callbacks(n))
    PROVE  s \in Seq(Callbacks(n + 1))
<1>1. Callbacks(n) \subseteq Callbacks(n + 1)
  BY DEF Callbacks
<1>. QED
  BY <1>1

LEMMA NumbersGrow ==
    ASSUME NEW n \in Nat, NEW s \in Seq(1..n)
    PROVE  s \in Seq(1..(n + 1))
<1>1. 1..n \subseteq 1..(n + 1)
  OBVIOUS
<1>. QED
  BY <1>1

LEMMA AppendKeepsType ==
    ASSUME NEW S, NEW s \in Seq(S), NEW x \in S
    PROVE  Append(s, x) \in Seq(S)
OBVIOUS

LEMMA DetachTypes ==
    ASSUME LogTypeOK, NEW s \in Seq(Callbacks(sent)), Detach(s)
    PROVE  /\ ready' \in Seq(Callbacks(sent))
           /\ keyword' = "ended" /\ attached' = FALSE
           /\ UNCHANGED <<pending, written, sent, due>>
BY DEF Detach, Callbacks

\* Every step keeps the types.
LEMMA LogTypeStep ==
    ASSUME LogTypeOK, [LogNext]_allVars
    PROVE  LogTypeOK'
<1>1. TypeOK'
  BY StepOfSession, TypeStep DEF LogTypeOK
<1>2. ready \in Seq(Callbacks(sent)) /\ sent \in Nat
  BY MaxMessagesIsNumber DEF LogTypeOK, Callbacks
<1>. SUFFICES /\ keyword' \in {"none", "begun", "awaiting", "ended"}
              /\ attached' \in BOOLEAN
              /\ sent' \in 0..MaxMessages /\ due' \in 0..MaxMessages
              /\ pending' \in Seq(1..sent') /\ written' \in Seq(1..sent')
              /\ ready' \in Seq(Callbacks(sent'))
  BY <1>1 DEF LogTypeOK, Callbacks
<1>3. CASE LogArrives
  <2>1. ready \in Seq(Callbacks(sent + 1)) /\ pending \in Seq(1..(sent + 1)) /\ written \in Seq(1..(sent + 1))
    BY <1>2, CallbacksGrow, NumbersGrow DEF LogTypeOK
  <2>2. Log(sent + 1) \in Callbacks(sent + 1) /\ sent + 1 \in 1..(sent + 1)
    BY <1>2 DEF Callbacks
  <2>3. ready' \in Seq(Callbacks(sent + 1)) /\ pending' \in Seq(1..(sent + 1))
    <3>1. CASE ready' = Append(ready, Log(sent + 1)) /\ UNCHANGED pending
      BY <2>1, <2>2, <3>1, AppendKeepsType
    <3>2. CASE pending' = Append(pending, sent + 1) /\ UNCHANGED ready
      BY <2>1, <2>2, <3>2, AppendKeepsType
    <3>. QED
      BY <1>3, <3>1, <3>2 DEF LogArrives, SubmitMessage
  <2>. QED
    BY <1>3, <2>1, <2>3, MaxMessagesIsNumber DEF LogArrives, LogTypeOK
<1>4. CASE SessionGoesOn
  <2>1. Settle \in Callbacks(sent)
    BY DEF Callbacks
  <2>2. UNCHANGED <<keyword, attached, pending, written, sent>>
    BY <1>4 DEF SessionGoesOn, PostOutcome
  <2>3. \/ UNCHANGED <<ready, due>>
        \/ ready' = Append(ready, Settle) /\ due' = sent
    BY <1>4 DEF SessionGoesOn, PostOutcome
  <2>4. CASE UNCHANGED <<ready, due>>
    BY <1>2, <2>2, <2>4 DEF LogTypeOK
  <2>5. CASE ready' = Append(ready, Settle) /\ due' = sent
    <3>1. Append(ready, Settle) \in Seq(Callbacks(sent))
      BY <1>2, <2>1, AppendKeepsType
    <3>. QED
      BY <2>2, <2>5, <3>1 DEF LogTypeOK
  <2>. QED
    BY <2>3, <2>4, <2>5
<1>5. CASE Drain
  BY <1>2, <1>5 DEF Drain, DrainLocked, LogTypeOK
<1>6. CASE Attach
  BY <1>2, <1>6, MaxMessagesIsNumber DEF Attach, DrainLocked, LogTypeOK
<1>7. ASSUME NEW c \in Calls, SubmitCall(c)
      PROVE  /\ keyword' \in {"none", "begun", "awaiting", "ended"} /\ attached' \in BOOLEAN
             /\ ready' \in Seq(Callbacks(sent))
             /\ UNCHANGED <<pending, written, sent, due>>
  <2>1. CASE Detach(ready)
    BY <1>2, <2>1, DetachTypes
  <2>2. CASE ~Detach(ready)
    BY <1>2, <1>7, <2>2 DEF SubmitCall, sinkVars, LogTypeOK
  <2>. QED
    BY <2>1, <2>2
<1>8. ASSUME NEW c \in Calls, CancelKeyword(c)
      PROVE  /\ keyword' = keyword /\ attached' = attached
             /\ ready' \in Seq(Callbacks(sent)) /\ due' = sent
             /\ UNCHANGED <<pending, written, sent>>
  <2>1. Wake \in Callbacks(sent)
    BY DEF Callbacks
  <2>. QED
    BY <1>2, <1>8, <2>1 DEF CancelKeyword
<1>9. CASE RunCallback
  <2>1. ready # <<>> /\ Tail(ready) \in Seq(Callbacks(sent)) /\ Head(ready) \in Callbacks(sent)
    BY <1>2, <1>9 DEF RunCallback
  <2>2. CASE WriteLog
    <3>1. Head(ready).of \in 1..sent
      BY <2>1, <2>2 DEF WriteLog, Callbacks, Log, Settle, Wake, Over
    <3>. QED
      BY <2>1, <2>2, <3>1 DEF WriteLog, LogTypeOK
  <2>3. CASE TakeOutcome
    <3>1. Wake \in Callbacks(sent)
      BY DEF Callbacks
    <3>. QED
      BY <2>1, <2>3, <3>1 DEF TakeOutcome, LogTypeOK
  <2>4. CASE LeaveKeyword
    BY <2>1, <2>4, DetachTypes DEF LeaveKeyword, LogTypeOK
  <2>5. CASE StopLoop
    BY <2>1, <2>5 DEF StopLoop, LogTypeOK
  <2>. QED
    BY <1>9, <2>2, <2>3, <2>4, <2>5 DEF RunCallback
<1>10. CASE StopSession \/ UNCHANGED allVars
  BY <1>2, <1>10 DEF StopSession, allVars, logVars, sinkVars, LogTypeOK
<1>. QED
  BY <1>2, <1>3, <1>4, <1>5, <1>6, <1>7, <1>8, <1>9, <1>10, MaxMessagesIsNumber DEF LogNext, LogTypeOK

-----------------------------------------------------------------------------
(* The messages in the queue of the loop *)

LogsIn(s) == {i \in DOMAIN s : s[i].run = "log"}

\* Those from a to b are in the queue, in that order.
InOrder(s, a, b) ==
    /\ {s[i].of : i \in LogsIn(s)} = a..b
    /\ \A i, j \in LogsIn(s) : i < j => s[i].of < s[j].of

LEMMA CallbackFields ==
    ASSUME NEW n \in Nat, NEW x \in Callbacks(n)
    PROVE  /\ x.of \in Nat
           /\ x.run = "log" <=> x \in {Log(m) : m \in 1..n}
           /\ x.run = "settle" <=> x = Settle
           /\ x.run = "wake" <=> x = Wake
           /\ x.run = "over" <=> x = Over
BY DEF Callbacks, Log, Settle, Wake, Over

\* Something else comes behind them.
LEMMA OtherComes ==
    ASSUME NEW n \in Nat, NEW s \in Seq(Callbacks(n)), NEW x \in Callbacks(n), x.run # "log",
           NEW a \in Nat, NEW b \in Nat, InOrder(s, a, b)
    PROVE  InOrder(Append(s, x), a, b)
<1>1. DOMAIN Append(s, x) = 1..(Len(s) + 1) /\ DOMAIN s = 1..Len(s) /\ Len(s) \in Nat
  OBVIOUS
<1>2. \A i \in DOMAIN s : Append(s, x)[i] = s[i]
  OBVIOUS
<1>3. Append(s, x)[Len(s) + 1] = x
  OBVIOUS
<1>4. LogsIn(Append(s, x)) = LogsIn(s)
  BY <1>1, <1>2, <1>3 DEF LogsIn
<1>5. \A i \in LogsIn(s) : Append(s, x)[i] = s[i]
  BY <1>2 DEF LogsIn
<1>6. {Append(s, x)[i].of : i \in LogsIn(Append(s, x))} = {s[i].of : i \in LogsIn(s)}
  BY <1>4, <1>5
<1>7. ASSUME NEW i \in LogsIn(Append(s, x)), NEW j \in LogsIn(Append(s, x)), i < j
      PROVE  Append(s, x)[i].of < Append(s, x)[j].of
  <2>1. i \in LogsIn(s) /\ j \in LogsIn(s)
    BY <1>4
  <2>2. s[i].of < s[j].of
    BY <1>7, <2>1 DEF InOrder
  <2>. QED
    BY <1>5, <2>1, <2>2
<1>. QED
  BY <1>6, <1>7 DEF InOrder

\* The next message comes behind them.
LEMMA NextComes ==
    ASSUME NEW n \in Nat, NEW s \in Seq(Callbacks(n)), NEW b \in Nat,
           NEW a \in Nat, a <= b + 1, InOrder(s, a, b)
    PROVE  InOrder(Append(s, Log(b + 1)), a, b + 1)
<1>. DEFINE x == Log(b + 1)
<1>1. DOMAIN Append(s, x) = 1..(Len(s) + 1) /\ DOMAIN s = 1..Len(s) /\ Len(s) \in Nat
  OBVIOUS
<1>2. \A i \in DOMAIN s : Append(s, x)[i] = s[i]
  OBVIOUS
<1>3. Append(s, x)[Len(s) + 1] = x /\ x.run = "log" /\ x.of = b + 1
  BY DEF Log
<1>. HIDE DEF x
<1>4. LogsIn(Append(s, x)) = LogsIn(s) \cup {Len(s) + 1}
  BY <1>1, <1>2, <1>3 DEF LogsIn
<1>5. \A i \in LogsIn(s) : Append(s, x)[i] = s[i] /\ s[i].of \in a..b /\ i \in 1..Len(s)
  BY <1>1, <1>2 DEF LogsIn, InOrder
<1>6. {Append(s, x)[i].of : i \in LogsIn(Append(s, x))} = {s[i].of : i \in LogsIn(s)} \cup {b + 1}
  BY <1>3, <1>4, <1>5
<1>7. (a..b) \cup {b + 1} = a..(b + 1)
  OBVIOUS
<1>8. ASSUME NEW i \in LogsIn(Append(s, x)), NEW j \in LogsIn(Append(s, x)), i < j
      PROVE  Append(s, x)[i].of < Append(s, x)[j].of
  <2>1. i \in LogsIn(s) /\ i \in 1..Len(s)
    BY <1>1, <1>4, <1>5, <1>8
  <2>2. CASE j \in LogsIn(s)
    BY <1>5, <1>8, <2>1, <2>2 DEF InOrder
  <2>3. CASE j = Len(s) + 1
    BY <1>3, <1>5, <2>1, <2>3
  <2>. QED
    BY <1>4, <2>2, <2>3
<1>9. InOrder(Append(s, x), a, b + 1)
  BY <1>6, <1>7, <1>8 DEF InOrder
<1>. QED
  BY <1>9 DEF x

LEMMA TailIs ==
    ASSUME NEW S, NEW s \in Seq(S), s # <<>>
    PROVE  /\ Len(s) \in Nat /\ Len(s) > 0 /\ DOMAIN s = 1..Len(s)
           /\ Head(s) = s[1]
           /\ Tail(s) \in Seq(S)
           /\ Len(Tail(s)) = Len(s) - 1 /\ DOMAIN Tail(s) = 1..(Len(s) - 1)
           /\ \A i \in 1..(Len(s) - 1) : Tail(s)[i] = s[i + 1]
OBVIOUS

\* Something else is at the head.
LEMMA OtherGoes ==
    ASSUME NEW n \in Nat, NEW s \in Seq(Callbacks(n)), s # <<>>, Head(s).run # "log",
           NEW a \in Nat, NEW b \in Nat, InOrder(s, a, b)
    PROVE  InOrder(Tail(s), a, b)
<1>1. /\ Len(s) \in Nat /\ Len(s) > 0 /\ DOMAIN s = 1..Len(s) /\ Head(s) = s[1]
      /\ DOMAIN Tail(s) = 1..(Len(s) - 1)
      /\ \A i \in 1..(Len(s) - 1) : Tail(s)[i] = s[i + 1]
  BY TailIs
<1>2. \A i \in LogsIn(s) : i \in 2..Len(s) /\ i - 1 \in LogsIn(Tail(s)) /\ Tail(s)[i - 1] = s[i]
  <2>. TAKE i \in LogsIn(s)
  <2>1. i \in 1..Len(s) /\ i # 1
    BY <1>1 DEF LogsIn
  <2>2. i - 1 \in 1..(Len(s) - 1) /\ (i - 1) + 1 = i
    BY <1>1, <2>1
  <2>3. Tail(s)[i - 1] = s[i]
    BY <1>1, <2>2
  <2>. QED
    BY <1>1, <2>1, <2>2, <2>3 DEF LogsIn
<1>3. \A i \in LogsIn(Tail(s)) : i \in 1..(Len(s) - 1) /\ i + 1 \in LogsIn(s) /\ Tail(s)[i] = s[i + 1]
  BY <1>1 DEF LogsIn
<1>4. {Tail(s)[i].of : i \in LogsIn(Tail(s))} = {s[i].of : i \in LogsIn(s)}
  BY <1>2, <1>3
<1>5. \A i, j \in LogsIn(Tail(s)) : i < j => Tail(s)[i].of < Tail(s)[j].of
  BY <1>1, <1>3 DEF InOrder
<1>. QED
  BY <1>4, <1>5 DEF InOrder

\* A message is at the head: it is the first one.
LEMMA FirstGoes ==
    ASSUME NEW n \in Nat, NEW s \in Seq(Callbacks(n)), s # <<>>, Head(s).run = "log",
           NEW a \in Nat, NEW b \in Nat, InOrder(s, a, b)
    PROVE  Head(s).of = a /\ a <= b /\ InOrder(Tail(s), a + 1, b)
<1>1. /\ Len(s) \in Nat /\ Len(s) > 0 /\ DOMAIN s = 1..Len(s) /\ Head(s) = s[1]
      /\ DOMAIN Tail(s) = 1..(Len(s) - 1)
      /\ \A i \in 1..(Len(s) - 1) : Tail(s)[i] = s[i + 1]
  BY TailIs
<1>2. 1 \in LogsIn(s)
  BY <1>1 DEF LogsIn
<1>3. \A i \in LogsIn(s) : i \in 1..Len(s) /\ s[i].of \in a..b
  BY <1>1 DEF LogsIn, InOrder
<1>4. s[1].of \in a..b /\ a <= b /\ a \in a..b
  BY <1>2, <1>3
<1>5. PICK k \in LogsIn(s) : s[k].of = a
  BY <1>4 DEF InOrder
<1>6. k = 1
  BY <1>1, <1>2, <1>3, <1>4, <1>5 DEF InOrder
<1>7. \A i \in LogsIn(s) : i # 1 => /\ i - 1 \in LogsIn(Tail(s)) /\ Tail(s)[i - 1] = s[i]
                                    /\ s[i].of \in (a + 1)..b
  <2>. SUFFICES ASSUME NEW i \in LogsIn(s), i # 1
                PROVE  /\ i - 1 \in LogsIn(Tail(s)) /\ Tail(s)[i - 1] = s[i]
                       /\ s[i].of \in (a + 1)..b
    OBVIOUS
  <2>1. i \in 1..Len(s) /\ 1 < i
    BY <1>3
  <2>2. i - 1 \in 1..(Len(s) - 1) /\ (i - 1) + 1 = i
    BY <1>1, <2>1
  <2>3. Tail(s)[i - 1] = s[i]
    BY <1>1, <2>2
  <2>4. s[1].of < s[i].of
    BY <1>2, <2>1 DEF InOrder
  <2>5. s[i].of \in (a + 1)..b
    BY <1>3, <1>5, <1>6, <2>4
  <2>. QED
    BY <1>1, <2>2, <2>3, <2>5 DEF LogsIn
<1>8. \A i \in LogsIn(Tail(s)) : /\ i \in 1..(Len(s) - 1) /\ i + 1 \in LogsIn(s) /\ i + 1 # 1
                                 /\ Tail(s)[i] = s[i + 1]
  BY <1>1 DEF LogsIn
<1>9. {Tail(s)[i].of : i \in LogsIn(Tail(s))} = (a + 1)..b
  <2>1. ASSUME NEW i \in LogsIn(Tail(s))
        PROVE  Tail(s)[i].of \in (a + 1)..b
    BY <1>7, <1>8
  <2>2. ASSUME NEW m \in (a + 1)..b
        PROVE  \E i \in LogsIn(Tail(s)) : Tail(s)[i].of = m
    <3>1. PICK i \in LogsIn(s) : s[i].of = m
      <4>1. m \in a..b
        OBVIOUS
      <4>. QED
        BY <4>1 DEF InOrder
    <3>2. i # 1
      BY <1>5, <1>6, <3>1
    <3>. QED
      BY <1>7, <3>1, <3>2
  <2>. QED
    BY <2>1, <2>2
<1>10. \A i, j \in LogsIn(Tail(s)) : i < j => Tail(s)[i].of < Tail(s)[j].of
  BY <1>1, <1>8 DEF InOrder
<1>. QED
  BY <1>4, <1>5, <1>6, <1>9, <1>10, <1>1 DEF InOrder

-----------------------------------------------------------------------------
(* The steps *)

LEMMA InitHolds ==
    ASSUME LogInit
    PROVE  LogInv
<1>1. IInv
  BY DEF LogInit, Init, IInv, TypeOK, ResourceInv, StartInv, JobInv, CallInv, FailedCallFindsLoss,
         Cleared, Released, Starting, Closing, LoopClosed, LoopRuns, Fields, Jobs, CallStates
<1>2. written = <<>> /\ pending = <<>> /\ ready = <<>> /\ sent = 0 /\ due = 0
  BY DEF LogInit
<1>3. OrderInv
  <2>1. OnLoop = {} /\ DOMAIN written = {} /\ DOMAIN pending = {} /\ Len(written) = 0
        /\ Len(pending) = 0
    BY <1>2 DEF OnLoop
  <2>. QED
    BY <1>2, <2>1 DEF OrderInv, LogKeepsOrder
<1>4. LogTypeOK
  <2>1. TypeOK /\ keyword = "none" /\ attached = FALSE
    BY <1>1 DEF IInv, LogInit
  <2>2. \A S : <<>> \in Seq(S)
    OBVIOUS
  <2>3. sent \in 0..MaxMessages /\ due \in 0..MaxMessages
    BY <1>2, MaxMessagesIsNumber
  <2>4. pending \in Seq(1..sent) /\ written \in Seq(1..sent)
        /\ ready \in Seq({Log(n) : n \in 1..sent} \cup {Settle, Wake, Over})
    BY <1>2, <2>2
  <2>. QED
    BY <2>1, <2>3, <2>4 DEF LogTypeOK
<1>5. PlaceInv
  BY DEF LogInit, Init, PlaceInv
<1>6. ReadyInv /\ DueInv
  <2>1. DOMAIN ready = {} /\ Len(pending) = 0 /\ keyword = "none" /\ attached = FALSE
    BY <1>2 DEF LogInit
  <2>. QED
    BY <1>2, <2>1 DEF ReadyInv, DueInv
<1>. QED
  BY <1>1, <1>3, <1>4, <1>5, <1>6 DEF LogInv

LEMMA PlaceStep ==
    ASSUME LogInv, [LogNext]_allVars
    PROVE  PlaceInv'
<1>. USE DEF LogInv, PlaceInv
<1>1. CASE LogArrives
  BY <1>1 DEF LogArrives, vars, callVars, testVars
<1>2. CASE SessionGoesOn
  <2>1. SessionStep /\ keyword' = keyword /\ attached' = attached
    BY <1>2 DEF SessionGoesOn, PostOutcome
  <2>2. current \subseteq Calls
    BY DEF LogTypeOK, TypeOK
  <2>. QED
    BY <2>1, <2>2, SessionKeeps
<1>3. CASE Drain
  BY <1>3 DEF Drain, vars, callVars, testVars
<1>4. CASE Attach
  BY <1>4 DEF Attach, vars, callVars, testVars
<1>5. ASSUME NEW c \in Calls, SubmitCall(c)
      PROVE  PlaceInv'
  <2>1. keyword = "begun" /\ attached = TRUE /\ test # "calling"
    BY <1>5 DEF SubmitCall
  <2>2. \/ test' = "idle" /\ keyword' = "ended" /\ attached' = FALSE
        \/ test' = "calling" /\ keyword' = "awaiting" /\ attached' = TRUE
        \/ test' \notin {"idle", "calling"} /\ keyword' = "begun" /\ attached' = TRUE
    BY <1>5, <2>1 DEF SubmitCall, Detach, sinkVars
  <2>3. CASE Submit(c)
    <3>1. \/ test' = "submitting" /\ current' = {c} /\ calls' = calls /\ calls[c] = "new"
          \/ test' = "idle" /\ current' = {}
      BY <2>3 DEF Submit
    <3>. QED
      BY <2>2, <3>1
  <2>4. CASE Schedule(c)
    <3>1. \/ test' = "idle" /\ current' = {}
          \/ test' = "calling" /\ current' = current
      BY <2>4 DEF Schedule
    <3>. QED
      BY <2>2, <3>1
  <2>. QED
    BY <1>5, <2>3, <2>4 DEF SubmitCall
<1>6. ASSUME NEW c \in Calls, CancelKeyword(c)
      PROVE  PlaceInv'
  BY <1>6 DEF CancelKeyword, Cancel, testVars
<1>7. CASE RunCallback
  <2>1. CASE WriteLog \/ TakeOutcome
    BY <2>1 DEF WriteLog, TakeOutcome, vars, callVars, testVars
  <2>2. CASE LeaveKeyword
    BY <2>2 DEF LeaveKeyword, Return, Detach, callVars
  <2>3. CASE StopLoop
    <3>1. keyword = "ended"
      <4>1. ready[1].run = "over" /\ 1 \in DOMAIN ready
        BY <1>7, <2>3, TailIs DEF RunCallback, StopLoop, Over, LogTypeOK
      <4>. QED
        BY <4>1 DEF ReadyInv
    <3>. QED
      BY <2>3, <3>1 DEF StopLoop, vars, callVars, testVars
  <2>. QED
    BY <1>7, <2>1, <2>2, <2>3 DEF RunCallback
<1>8. CASE StopSession
  BY <1>8 DEF StopSession, Stop, callVars, logVars, sinkVars
<1>9. CASE UNCHANGED allVars
  BY <1>9 DEF allVars, vars, callVars, testVars, logVars, sinkVars
<1>. QED
  BY <1>1, <1>2, <1>3, <1>4, <1>5, <1>6, <1>7, <1>8, <1>9 DEF LogNext

\* Neither an outcome nor the end of the keyword is in the queue.
Quiet(s) == \A i \in DOMAIN s : s[i].run \notin {"settle", "wake", "over"}

\* The queue after one more callback.
LEMMA LastOf ==
    ASSUME NEW S, NEW s \in Seq(S), NEW x \in S
    PROVE  /\ Len(s) \in Nat /\ DOMAIN s = 1..Len(s)
           /\ Len(Append(s, x)) = Len(s) + 1 /\ DOMAIN Append(s, x) = 1..(Len(s) + 1)
           /\ Append(s, x)[Len(s) + 1] = x
           /\ \A i \in 1..Len(s) : Append(s, x)[i] = s[i]
           /\ Append(s, x) # <<>>
OBVIOUS

LEMMA OutcomeComes ==
    ASSUME NEW n \in Nat, NEW s \in Seq(Callbacks(n)), Quiet(s),
           NEW x \in Callbacks(n), x.run \in {"settle", "wake"}, ready' = Append(s, x),
           keyword' = "awaiting", \A c \in current' : calls'[c] \in Final
    PROVE  ReadyInv'
<1>1. /\ Len(s) \in Nat /\ DOMAIN s = 1..Len(s) /\ DOMAIN ready' = 1..(Len(s) + 1)
      /\ ready'[Len(s) + 1] = x
      /\ \A i \in 1..Len(s) : ready'[i] = s[i]
  BY LastOf
<1>. QED
  BY <1>1 DEF ReadyInv, Quiet

LEMMA OverComes ==
    ASSUME NEW n \in Nat, NEW s \in Seq(Callbacks(n)), Quiet(s), Detach(s)
    PROVE  ReadyInv'
<1>1. keyword' = "ended" /\ ready' = Append(s, Over) /\ Over \in Callbacks(n) /\ Over.run = "over"
  BY DEF Detach, Callbacks, Over
<1>2. /\ Len(s) \in Nat /\ DOMAIN s = 1..Len(s) /\ DOMAIN ready' = 1..(Len(s) + 1)
      /\ Len(ready') = Len(s) + 1 /\ ready'[Len(s) + 1] = Over /\ ready' # <<>>
      /\ \A i \in 1..Len(s) : ready'[i] = s[i]
  BY <1>1, LastOf
<1>. QED
  BY <1>1, <1>2 DEF ReadyInv, Quiet

LEMMA ReadyStep ==
    ASSUME LogInv, [LogNext]_allVars
    PROVE  ReadyInv'
<1>. USE DEF LogInv, ReadyInv
<1>0. ready \in Seq(Callbacks(sent)) /\ sent \in Nat /\ current \subseteq Calls
  BY MaxMessagesIsNumber DEF LogTypeOK, TypeOK, Callbacks
<1>1. CASE LogArrives
  <2>1. keyword' = keyword /\ current' = current /\ calls' = calls /\ ready' \in {ready, Append(ready, Log(sent + 1))}
    BY <1>1 DEF LogArrives, SubmitMessage, vars, callVars, testVars
  <2>2. CASE ready' = ready
    BY <2>1, <2>2
  <2>3. CASE ready' = Append(ready, Log(sent + 1)) /\ ready' # ready
    <3>1. keyword \in {"begun", "awaiting"}
      BY <1>1, <2>3 DEF LogArrives, SubmitMessage, PlaceInv
    <3>2. Log(sent + 1).run = "log"
      BY DEF Log
    <3>3. Len(ready) \in Nat /\ DOMAIN ready = 1..Len(ready)
          /\ DOMAIN ready' = 1..(Len(ready) + 1) /\ ready'[Len(ready) + 1] = Log(sent + 1)
          /\ \A i \in 1..Len(ready) : ready'[i] = ready[i]
      BY <1>0, <2>3
    <3>. QED
      BY <2>1, <3>1, <3>2, <3>3
  <2>. QED
    BY <2>1, <2>2, <2>3
<1>2. CASE SessionGoesOn
  <2>1. SessionStep /\ keyword' = keyword /\ current' = current
    BY <1>2, SessionKeeps DEF SessionGoesOn, PostOutcome
  <2>2. \A c \in current : calls[c] \in Final => calls'[c] \in Final
    BY <1>0, <2>1, SessionKeeps
  <2>3. CASE Outcomes = {}
    BY <1>2, <2>1, <2>2, <2>3 DEF SessionGoesOn, PostOutcome
  <2>4. CASE Outcomes # {}
    <3>1. PICK c \in current : calls[c] \in Open /\ calls'[c] \in {"done", "raised", "failed"}
      BY <2>4 DEF Outcomes
    <3>2. keyword = "awaiting" /\ current = {c}
      BY <3>1 DEF PlaceInv, Open
    <3>3. Quiet(ready)
      BY <3>1, <3>2 DEF Final, Quiet, Open
    <3>4. ready' = Append(ready, Settle)
      BY <1>2, <2>4 DEF SessionGoesOn, PostOutcome
    <3>. QED
      BY <1>0, <2>1, <3>1, <3>2, <3>3, <3>4, OutcomeComes DEF Settle, Callbacks, Final
  <2>. QED
    BY <2>3, <2>4
<1>3. CASE Drain
  BY <1>3 DEF Drain, vars, callVars, testVars
<1>4. CASE Attach
  BY <1>4 DEF Attach, vars, callVars, testVars
<1>5. ASSUME NEW c \in Calls, SubmitCall(c)
      PROVE  ReadyInv'
  <2>1. keyword = "begun" /\ Quiet(ready)
    BY <1>5 DEF SubmitCall, Quiet
  <2>2. CASE Detach(ready)
    BY <1>0, <2>1, <2>2, OverComes
  <2>3. CASE ~Detach(ready)
    BY <1>5, <2>1, <2>3 DEF SubmitCall, sinkVars, Quiet
  <2>. QED
    BY <2>2, <2>3
<1>6. ASSUME NEW c \in Calls, CancelKeyword(c)
      PROVE  ReadyInv'
  <2>1. keyword = "awaiting" /\ keyword' = keyword /\ c \in current /\ current' = current
        /\ calls[c] \in Open /\ calls' = [calls EXCEPT ![c] = "cancelled"]
        /\ ready' = Append(ready, Wake)
    BY <1>6 DEF CancelKeyword, Cancel, testVars
  <2>2. current = {c} /\ calls'[c] = "cancelled"
    BY <1>0, <2>1 DEF PlaceInv, LogTypeOK, TypeOK
  <2>3. Quiet(ready)
    BY <2>1 DEF Final, Quiet, Open
  <2>. QED
    BY <1>0, <2>1, <2>2, <2>3, OutcomeComes DEF Wake, Callbacks, Final
<1>7. CASE RunCallback
  <2>1. /\ Len(ready) \in Nat /\ Len(ready) > 0 /\ DOMAIN ready = 1..Len(ready)
        /\ Head(ready) = ready[1]
        /\ Tail(ready) \in Seq(Callbacks(sent))
        /\ Len(Tail(ready)) = Len(ready) - 1 /\ DOMAIN Tail(ready) = 1..(Len(ready) - 1)
        /\ \A i \in 1..(Len(ready) - 1) : Tail(ready)[i] = ready[i + 1] /\ i + 1 \in 1..Len(ready)
    BY <1>0, <1>7, TailIs DEF RunCallback
  <2>2. CASE WriteLog
    <3>1. /\ keyword' = keyword /\ keyword \in {"awaiting", "ended"}
          /\ calls' = calls /\ current' = current
          /\ ready' = Tail(ready) /\ ready[1].run = "log"
      BY <1>7, <2>1, <2>2 DEF WriteLog, RunCallback, vars, callVars, testVars
    <3>2. keyword = "ended" => Len(ready) > 1 /\ Tail(ready)[Len(ready) - 1] = Over
      BY <2>1, <3>1 DEF Over
    <3>3. keyword = "ended" => ready' # <<>> /\ ready'[Len(ready')] = Over
      BY <2>1, <3>1, <3>2
    <3>. QED
      BY <2>1, <3>1, <3>3
  <2>3. ASSUME TakeOutcome \/ LeaveKeyword
        PROVE  keyword = "awaiting" /\ Quiet(Tail(ready)) /\ \A c \in current : calls[c] \in Final
    <3>1. ready[1].run \in {"settle", "wake"}
      BY <2>1, <2>3 DEF TakeOutcome, LeaveKeyword, Settle, Wake
    <3>. QED
      BY <2>1, <3>1 DEF Quiet
  <2>4. CASE TakeOutcome
    <3>1. ready' = Append(Tail(ready), Wake) /\ keyword' = keyword
          /\ calls' = calls /\ current' = current
      BY <2>4 DEF TakeOutcome, vars, callVars, testVars
    <3>. QED
      BY <1>0, <2>1, <2>3, <2>4, <3>1, OutcomeComes DEF Wake, Callbacks
  <2>5. CASE LeaveKeyword
    BY <1>0, <2>1, <2>3, <2>5, OverComes DEF LeaveKeyword
  <2>6. CASE StopLoop
    <3>1. ready[1].run = "over" /\ keyword' = "none" /\ ready' = Tail(ready)
      BY <2>1, <2>6 DEF StopLoop, Over
    <3>2. Len(ready) = 1
      BY <2>1, <3>1
    <3>3. ready' = <<>>
      BY <2>1, <3>1, <3>2
    <3>. QED
      BY <3>1, <3>3
  <2>. QED
    BY <1>7, <2>2, <2>4, <2>5, <2>6 DEF RunCallback
<1>8. CASE StopSession
  BY <1>8 DEF StopSession, logVars, sinkVars
<1>9. CASE UNCHANGED allVars
  BY <1>9 DEF allVars, vars, callVars, testVars, logVars, sinkVars
<1>. QED
  BY <1>1, <1>2, <1>3, <1>4, <1>5, <1>6, <1>7, <1>8, <1>9 DEF LogNext

LEMMA DueStep ==
    ASSUME LogInv, [LogNext]_allVars
    PROVE  DueInv'
<1>. USE DEF LogInv, DueInv
<1>0. /\ sent \in Nat /\ due \in Nat
      /\ pending \in Seq(1..sent) /\ Len(pending) \in Nat /\ Len(pending) <= sent
      /\ Len(<<>>) = 0
  <2>1. sent \in Nat /\ due \in Nat /\ pending \in Seq(1..sent) /\ written \in Seq(1..sent)
    BY MaxMessagesIsNumber DEF LogTypeOK
  <2>. QED
    BY <2>1 DEF OrderInv
<1>1. CASE LogArrives
  <2>1. sent' = sent + 1 /\ due' = due /\ attached' = attached
    BY <1>1 DEF LogArrives
  <2>2. CASE attached
    BY <1>0, <1>1, <2>1, <2>2 DEF LogArrives, SubmitMessage
  <2>3. CASE ~attached
    <3>1. pending' = Append(pending, sent + 1)
      BY <1>1, <2>3 DEF LogArrives, SubmitMessage
    <3>2. Len(pending') = Len(pending) + 1
      BY <1>0, <3>1
    <3>. QED
      BY <1>0, <2>1, <2>3, <3>2
  <2>. QED
    BY <2>2, <2>3
<1>2. CASE SessionGoesOn
  <2>1. UNCHANGED <<attached, pending, sent>> /\ (Outcomes = {} => due' = due)
        /\ (Outcomes # {} => due' = sent)
    BY <1>2 DEF SessionGoesOn, PostOutcome
  <2>2. CASE Outcomes # {}
    <3>1. attached
      <4>1. PICK c \in current : calls[c] \in Open
        BY <2>2 DEF Outcomes
      <4>. QED
        BY <4>1 DEF PlaceInv
    <3>. QED
      BY <1>0, <2>1, <2>2, <3>1
  <2>. QED
    BY <2>1, <2>2
<1>3. CASE Drain
  BY <1>0, <1>3 DEF Drain, DrainLocked
<1>4. CASE Attach
  BY <1>0, <1>4 DEF Attach, DrainLocked
<1>5. ASSUME NEW c \in Calls, SubmitCall(c)
      PROVE  DueInv'
  BY <1>5 DEF SubmitCall, Detach, sinkVars
<1>6. ASSUME NEW c \in Calls, CancelKeyword(c)
      PROVE  DueInv'
  BY <1>0, <1>6 DEF CancelKeyword, PlaceInv
<1>7. CASE RunCallback
  BY <1>7 DEF RunCallback, WriteLog, TakeOutcome, LeaveKeyword, StopLoop, Detach
<1>8. CASE StopSession \/ UNCHANGED allVars
  BY <1>8 DEF StopSession, allVars, logVars, sinkVars
<1>. QED
  BY <1>1, <1>2, <1>3, <1>4, <1>5, <1>6, <1>7, <1>8 DEF LogNext

\* The three places hold all the messages, one after the other.
LEMMA OrderIs ==
    ASSUME LogTypeOK
    PROVE  OrderInv <=>
             /\ Len(written) + Len(pending) <= sent
             /\ \A i \in DOMAIN written : written[i] = i
             /\ InOrder(ready, Len(written) + 1, sent - Len(pending))
             /\ \A i \in DOMAIN pending : pending[i] = sent - Len(pending) + i
BY DEF OrderInv, LogKeepsOrder, InOrder, OnLoop, LogsIn

LEMMA OrderHolds ==
    ASSUME LogTypeOK',
           Len(written') + Len(pending') <= sent',
           \A i \in DOMAIN written' : written'[i] = i,
           InOrder(ready', Len(written') + 1, sent' - Len(pending')),
           \A i \in DOMAIN pending' : pending'[i] = sent' - Len(pending') + i
    PROVE  OrderInv'
BY DEF OrderInv, LogKeepsOrder, InOrder, OnLoop, LogsIn

LEMMA OrderStep ==
    ASSUME LogInv, LogTypeOK', [LogNext]_allVars
    PROVE  OrderInv'
<1>0. PICK W \in Nat, P \in Nat, Q \in Nat :
      /\ W = Len(written) /\ P = Len(pending) /\ Q = Q /\ sent = Q + P /\ W <= Q
      /\ \A i \in 1..W : written[i] = i
      /\ \A i \in 1..P : pending[i] = Q + i
      /\ InOrder(ready, W + 1, Q)
  <2>1. sent \in Nat /\ Len(written) \in Nat /\ Len(pending) \in Nat
        /\ DOMAIN written = 1..Len(written) /\ DOMAIN pending = 1..Len(pending)
    BY MaxMessagesIsNumber DEF LogInv, LogTypeOK
  <2>2. OrderInv
    BY DEF LogInv
  <2>3. /\ Len(written) + Len(pending) <= sent
        /\ \A i \in DOMAIN written : written[i] = i
        /\ \A i \in DOMAIN pending : pending[i] = sent - Len(pending) + i
        /\ InOrder(ready, Len(written) + 1, sent - Len(pending))
    BY <2>2, OrderIs DEF LogInv
  <2>4. sent - Len(pending) \in Nat /\ sent = (sent - Len(pending)) + Len(pending)
        /\ Len(written) <= sent - Len(pending)
    BY <2>1, <2>3
  <2>. QED
    BY <2>1, <2>3, <2>4
<1>a. written \in Seq(1..sent) /\ pending \in Seq(1..sent) /\ sent \in Nat
  BY MaxMessagesIsNumber DEF LogInv, LogTypeOK
<1>b. ready \in Seq(Callbacks(sent)) /\ W + 1 \in Nat
  BY <1>a, <1>0 DEF LogInv, LogTypeOK, Callbacks
<1>c. /\ DOMAIN written = 1..W /\ DOMAIN pending = 1..P
  BY <1>a, <1>0
<1>d. /\ Settle \in Callbacks(sent) /\ Settle.run # "log"
      /\ Wake \in Callbacks(sent) /\ Wake.run # "log"
      /\ Over \in Callbacks(sent) /\ Over.run # "log"
  BY DEF Callbacks, Settle, Wake, Over
<1>1. CASE LogArrives
  <2>1. sent' = sent + 1 /\ written' = written
    BY <1>1 DEF LogArrives
  <2>2. CASE attached
    <3>1. P = 0 /\ sent = Q
      BY <1>0, <2>2 DEF LogInv, DueInv
    <3>2. pending' = pending /\ ready' = Append(ready, Log(Q + 1))
      BY <1>1, <2>2, <3>1 DEF LogArrives, SubmitMessage
    <3>3. InOrder(ready', W + 1, Q + 1)
      BY <1>0, <1>b, <3>2, NextComes
    <3>4. Len(written') = W /\ Len(pending') = 0 /\ sent' = Q + 1 /\ sent' - Len(pending') = Q + 1
      <4>1. Len(written') = W /\ Len(pending') = 0 /\ sent' = Q + 1
        BY <1>0, <2>1, <3>1, <3>2
      <4>. QED
        BY <4>1
    <3>5. \A i \in DOMAIN pending' : pending'[i] = sent' - Len(pending') + i
      BY <1>c, <3>1, <3>2
    <3>6. Len(written') + Len(pending') <= sent'
      BY <1>0, <3>4
    <3>7. \A i \in DOMAIN written' : written'[i] = i
      BY <1>0, <1>c, <2>1
    <3>8. InOrder(ready', Len(written') + 1, sent' - Len(pending'))
      BY <3>3, <3>4
    <3>. QED
      BY <3>5, <3>6, <3>7, <3>8, OrderHolds
  <2>3. CASE ~attached
    <3>1. pending' = Append(pending, sent + 1) /\ ready' = ready
      BY <1>1, <2>3 DEF LogArrives, SubmitMessage
    <3>2. Len(pending') = P + 1 /\ DOMAIN pending' = 1..(P + 1)
          /\ pending'[P + 1] = sent + 1 /\ \A i \in 1..P : pending'[i] = pending[i]
      <4>1. pending \in Seq(Nat) /\ sent + 1 \in Nat
        BY <1>a, 1..sent \subseteq Nat
      <4>. QED
        BY <1>0, <3>1, <4>1, LastOf
    <3>3. sent' - Len(pending') = Q /\ Len(written') = W /\ Len(written') + Len(pending') <= sent'
      BY <1>0, <2>1, <3>2
    <3>4. \A i \in DOMAIN pending' : pending'[i] = Q + i
      <4>1. \A i \in 1..(P + 1) : i \in 1..P \/ i = P + 1
        OBVIOUS
      <4>2. sent + 1 = Q + (P + 1) /\ \A i \in 1..P : pending[i] = Q + i
        BY <1>0
      <4>. QED
        BY <3>2, <4>1, <4>2
    <3>5. \A i \in DOMAIN pending' : pending'[i] = sent' - Len(pending') + i
      BY <3>3, <3>4
    <3>6. InOrder(ready', Len(written') + 1, sent' - Len(pending'))
      BY <1>0, <3>1, <3>3
    <3>7. \A i \in DOMAIN written' : written'[i] = i
      BY <1>0, <1>c, <2>1
    <3>. QED
      BY <3>3, <3>5, <3>6, <3>7, OrderHolds
  <2>. QED
    BY <2>2, <2>3
<1>2. CASE UNCHANGED <<written, pending, sent>> /\ InOrder(ready', W + 1, Q)
  <2>1. Len(written') = W /\ Len(pending') = P /\ sent' - Len(pending') = Q
        /\ Len(written') + Len(pending') <= sent'
    BY <1>0, <1>2
  <2>2. \A i \in DOMAIN written' : written'[i] = i
    BY <1>0, <1>c, <1>2
  <2>3. \A i \in DOMAIN pending' : pending'[i] = sent' - Len(pending') + i
    BY <1>0, <1>c, <1>2, <2>1
  <2>4. InOrder(ready', Len(written') + 1, sent' - Len(pending'))
    BY <1>2, <2>1
  <2>. QED
    BY <2>1, <2>2, <2>3, <2>4, OrderHolds
<1>3. CASE SessionGoesOn
  <2>1. ready' \in {ready, Append(ready, Settle)} /\ UNCHANGED <<written, pending, sent>>
    BY <1>3 DEF SessionGoesOn, PostOutcome
  <2>2. InOrder(Append(ready, Settle), W + 1, Q)
    BY <1>0, <1>a, <1>b, <1>d, OtherComes
  <2>. QED
    BY <1>0, <1>2, <2>1, <2>2
<1>4. CASE Drain \/ Attach
  <2>1. written' = written \o pending /\ pending' = <<>> /\ ready' = ready /\ sent' = sent
        /\ ready = <<>>
    BY <1>4 DEF Drain, Attach, DrainLocked, LogInv, ReadyInv
  <2>2. W = Q
    <3>1. {ready[i].of : i \in LogsIn(ready)} = {}
      BY <2>1 DEF LogsIn
    <3>2. (W + 1)..Q = {}
      BY <1>0, <3>1 DEF InOrder
    <3>3. W # Q => W + 1 \in (W + 1)..Q
      BY <1>0
    <3>. QED
      BY <3>2, <3>3
  <2>3. Len(written') = W + P /\ DOMAIN written' = 1..(W + P)
        /\ \A i \in 1..(W + P) : written'[i] = IF i <= W THEN written[i] ELSE pending[i - W]
    BY <1>0, <1>a, <2>1
  <2>4. \A i \in DOMAIN written' : written'[i] = i
    <3>1. ASSUME NEW i \in 1..(W + P), i <= W
          PROVE  written'[i] = i
      BY <1>0, <2>3, <3>1
    <3>2. ASSUME NEW i \in 1..(W + P), ~(i <= W)
          PROVE  written'[i] = i
      <4>1. i - W \in 1..P /\ Q + (i - W) = i
        BY <2>2, <3>2
      <4>. QED
        BY <1>0, <2>3, <3>2, <4>1
    <3>. QED
      BY <2>3, <3>1, <3>2
  <2>5. Len(pending') = 0 /\ DOMAIN pending' = {}
    BY <2>1
  <2>6. InOrder(ready', W + P + 1, Q + P)
    <3>1. LogsIn(ready') = {}
      BY <2>1 DEF LogsIn
    <3>2. {ready'[i].of : i \in LogsIn(ready')} = {} /\ (W + P + 1)..(Q + P) = {}
      BY <2>2, <3>1
    <3>. QED
      BY <3>1, <3>2 DEF InOrder
  <2>7. sent' - Len(pending') = Q + P /\ Len(written') + Len(pending') <= sent'
    BY <1>0, <2>1, <2>2, <2>3, <2>5
  <2>. QED
    BY <2>3, <2>4, <2>5, <2>6, <2>7, OrderHolds
<1>5. ASSUME NEW c \in Calls, SubmitCall(c)
      PROVE  OrderInv'
  <2>1. ready' \in {ready, Append(ready, Over)} /\ UNCHANGED <<written, pending, sent>>
    BY <1>5 DEF SubmitCall, Detach, sinkVars
  <2>2. InOrder(Append(ready, Over), W + 1, Q)
    BY <1>0, <1>a, <1>b, <1>d, OtherComes
  <2>. QED
    BY <1>0, <1>2, <2>1, <2>2
<1>6. ASSUME NEW c \in Calls, CancelKeyword(c)
      PROVE  OrderInv'
  <2>1. InOrder(Append(ready, Wake), W + 1, Q)
    BY <1>0, <1>a, <1>b, <1>d, OtherComes
  <2>. QED
    BY <1>2, <1>6, <2>1 DEF CancelKeyword
<1>7. CASE RunCallback
  <2>1. ready # <<>> /\ Tail(ready) \in Seq(Callbacks(sent))
    BY <1>b, <1>7, TailIs DEF RunCallback
  <2>2. CASE WriteLog
    <3>1. Head(ready).of = W + 1 /\ W + 1 <= Q /\ InOrder(Tail(ready), (W + 1) + 1, Q)
      BY <1>0, <1>a, <1>b, <2>1, <2>2, FirstGoes DEF WriteLog
    <3>2. written' = Append(written, W + 1) /\ ready' = Tail(ready) /\ UNCHANGED <<pending, sent>>
      BY <2>2, <3>1 DEF WriteLog
    <3>3. Len(written') = W + 1 /\ DOMAIN written' = 1..(W + 1)
          /\ written'[W + 1] = W + 1 /\ \A i \in 1..W : written'[i] = written[i]
      BY <1>0, <1>a, <3>2
    <3>4. \A i \in DOMAIN written' : written'[i] = i
      BY <1>0, <3>3
    <3>5. sent' - Len(pending') = Q /\ Len(written') + Len(pending') <= sent'
      BY <1>0, <3>1, <3>2, <3>3
    <3>6. InOrder(ready', Len(written') + 1, sent' - Len(pending'))
      BY <3>1, <3>2, <3>3, <3>5
    <3>7. \A i \in DOMAIN pending' : pending'[i] = sent' - Len(pending') + i
      BY <1>0, <1>c, <3>2, <3>5
    <3>. QED
      BY <3>4, <3>5, <3>6, <3>7, OrderHolds
  <2>3. ASSUME Head(ready).run # "log"
        PROVE  InOrder(Tail(ready), W + 1, Q)
    BY <1>0, <1>a, <1>b, <2>1, <2>3, OtherGoes
  <2>4. CASE TakeOutcome
    <3>1. InOrder(Tail(ready), W + 1, Q)
      BY <1>d, <2>3, <2>4 DEF TakeOutcome
    <3>2. InOrder(Append(Tail(ready), Wake), W + 1, Q)
      BY <1>a, <1>b, <1>d, <2>1, <3>1, OtherComes
    <3>. QED
      BY <1>2, <2>4, <3>2 DEF TakeOutcome
  <2>5. CASE LeaveKeyword
    <3>1. InOrder(Tail(ready), W + 1, Q)
      BY <1>d, <2>3, <2>5 DEF LeaveKeyword
    <3>2. InOrder(Append(Tail(ready), Over), W + 1, Q)
      BY <1>a, <1>b, <1>d, <2>1, <3>1, OtherComes
    <3>. QED
      BY <1>2, <2>5, <3>2 DEF LeaveKeyword, Detach
  <2>6. CASE StopLoop
    BY <1>2, <1>d, <2>3, <2>6 DEF StopLoop
  <2>. QED
    BY <1>7, <2>2, <2>4, <2>5, <2>6 DEF RunCallback
<1>8. CASE StopSession \/ UNCHANGED allVars
  BY <1>0, <1>2, <1>8 DEF StopSession, allVars, logVars, sinkVars
<1>. QED
  BY <1>1, <1>3, <1>4, <1>5, <1>6, <1>7, <1>8 DEF LogNext

\* LogInv is inductive.
LEMMA LogInvariance == LogSpec => []LogInv
<1>1. LogInit => LogInv
  BY InitHolds
<1>2. ASSUME LogInv, [LogNext]_allVars
      PROVE  LogInv'
  <2>1. [Next]_vars
    BY <1>2, StepOfSession
  <2>2. IInv'
    BY <1>2, <2>1, TypeStep, ResourceStep, StartStep, JobStep, CallStep, LossStep DEF LogInv, IInv
  <2>3. LogTypeOK'
    BY <1>2, LogTypeStep DEF LogInv
  <2>. QED
    BY <1>2, <2>2, <2>3, PlaceStep, ReadyStep, DueStep, OrderStep DEF LogInv
<1>. QED
  BY <1>1, <1>2, PTL DEF LogSpec

-----------------------------------------------------------------------------
(* Theorems *)

\* The session within the composition is the one that ClientSession specifies, so
\* all that is proved of it holds beside a keyword and its log.
THEOREM LogImplementsSession == LogSpec => Spec
<1>1. LogInit => Init
  BY DEF LogInit
<1>2. [LogNext]_allVars => [Next]_vars
  BY StepOfSession
<1>. QED
  BY <1>1, <1>2, PTL DEF LogSpec, Spec

\* The types of the session, the keyword and the sink.
THEOREM LogTypeCorrect == LogSpec => []LogTypeOK
<1>1. LogInv => LogTypeOK
  BY DEF LogInv
<1>. QED
  BY <1>1, LogInvariance, PTL

\* No log message is lost, written twice or overtaken by another one, however
\* many arrive and whenever keywords begin, end and are cancelled.
THEOREM LogOrderKept == LogSpec => []LogKeepsOrder
<1>1. LogInv => LogKeepsOrder
  BY DEF LogInv, OrderInv
<1>. QED
  BY <1>1, LogInvariance, PTL

\* When a keyword has returned, what had arrived before its outcome is written.
THEOREM LogBeforeReturn == LogSpec => []LogPrecedesReturn
<1>1. ASSUME LogInv, keyword = "none"
      PROVE  Len(written) >= due /\ ready = <<>>
  <2>1. ready = <<>> /\ due <= sent - Len(pending)
    BY <1>1 DEF LogInv, ReadyInv, DueInv
  <2>2. /\ sent \in Nat /\ due \in Nat /\ Len(written) \in Nat /\ Len(pending) \in Nat
        /\ Len(written) + Len(pending) <= sent
    BY <1>1, MaxMessagesIsNumber DEF LogInv, LogTypeOK, OrderInv
  <2>3. (Len(written) + 1)..(sent - Len(pending)) = {}
    <3>1. {ready[i].of : i \in OnLoop} = {}
      BY <2>1 DEF OnLoop
    <3>. QED
      BY <1>1, <3>1 DEF LogInv, OrderInv, LogKeepsOrder
  <2>4. PICK W \in Nat, Q \in Nat : W = Len(written) /\ Q = sent - Len(pending)
    BY <2>2
  <2>5. ~(W < Q)
    <3>1. W < Q => W + 1 \in (W + 1)..Q
      OBVIOUS
    <3>2. (W + 1)..Q = {}
      BY <2>3, <2>4
    <3>. QED
      BY <3>1, <3>2
  <2>6. due <= Q
    BY <2>1, <2>4
  <2>. QED
    BY <2>1, <2>2, <2>4, <2>5, <2>6
<1>2. LogInv => LogPrecedesReturn
  BY <1>1 DEF LogPrecedesReturn
<1>. QED
  BY <1>2, LogInvariance, PTL
==============================================================================
