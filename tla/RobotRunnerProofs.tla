------------------------- MODULE RobotRunnerProofs -------------------------
(***************************************************************************)
(* Proofs about RobotRunner, for any number of commands and messages.      *)
(***************************************************************************)
EXTENDS RobotRunner, TLAPS

USE NoCallIsNoCall, ExitingAreCalls, MessagesAreBounded

-----------------------------------------------------------------------------
(* Sequences *)

\* An element that is added is in the sequence, and those before it stay.
LEMMA InAppended ==
    ASSUME NEW S, NEW s \in Seq(S), NEW e \in S, NEW x
    PROVE  /\ Append(s, e) \in Seq(S)
           /\ InSeq(x, Append(s, e)) <=> InSeq(x, s) \/ x = e
  <1>1. Append(s, e) \in Seq(S) /\ Len(Append(s, e)) = Len(s) + 1
    OBVIOUS
  <1>2. \A i \in 1..Len(s) : Append(s, e)[i] = s[i]
    OBVIOUS
  <1>3. Append(s, e)[Len(s) + 1] = e /\ Len(s) \in Nat
    OBVIOUS
  <1>4. InSeq(x, s) \/ x = e => InSeq(x, Append(s, e))
    BY <1>1, <1>2, <1>3 DEF InSeq
  <1>5. InSeq(x, Append(s, e)) => InSeq(x, s) \/ x = e
    BY <1>1, <1>2, <1>3 DEF InSeq
  <1> QED BY <1>1, <1>4, <1>5

\* Without its head, a sequence has lost at most that element.
LEMMA InTail ==
    ASSUME NEW S, NEW s \in Seq(S), s # <<>>, NEW x
    PROVE  /\ Head(s) \in S /\ Tail(s) \in Seq(S) /\ InSeq(Head(s), s)
           /\ InSeq(x, s) <=> x = Head(s) \/ InSeq(x, Tail(s))
  <1>1. Head(s) \in S /\ Tail(s) \in Seq(S) /\ Len(s) \in Nat /\ Len(s) >= 1
        /\ Len(Tail(s)) = Len(s) - 1 /\ Head(s) = s[1]
    OBVIOUS
  <1>2. \A i \in 1..Len(Tail(s)) : Tail(s)[i] = s[i + 1]
    OBVIOUS
  <1>3. InSeq(x, s) => x = Head(s) \/ InSeq(x, Tail(s))
    <2> SUFFICES ASSUME NEW i \in 1..Len(s), s[i] = x, i # 1 PROVE InSeq(x, Tail(s))
      BY <1>1 DEF InSeq
    <2>1. i - 1 \in 1..Len(Tail(s)) /\ (i - 1) + 1 = i
      BY <1>1
    <2>2. Tail(s)[i - 1] = x
      BY <1>2, <2>1
    <2> QED BY <2>1, <2>2 DEF InSeq
  <1>4. x = Head(s) \/ InSeq(x, Tail(s)) => InSeq(x, s)
    <2>1. \A i \in 1..Len(Tail(s)) : i + 1 \in 1..Len(s)
      BY <1>1
    <2> QED BY <1>1, <1>2, <2>1 DEF InSeq
  <1> QED BY <1>1, <1>3, <1>4 DEF InSeq

\* Nothing is in the empty sequence.
LEMMA InEmpty == ASSUME NEW S, NEW x PROVE <<>> \in Seq(S) /\ ~InSeq(x, <<>>)
  BY DEF InSeq

Distinct(s) == \A i, j \in 1..Len(s) : i # j => s[i] # s[j]

\* Distinct elements stay distinct when one is taken away or a new one added.
LEMMA DistinctSteps ==
    ASSUME NEW S, NEW s \in Seq(S), Distinct(s)
    PROVE  /\ s # <<>> => Distinct(Tail(s)) /\ ~InSeq(Head(s), Tail(s))
           /\ \A e \in S : ~InSeq(e, s) => Distinct(Append(s, e))
  <1>1. ASSUME s # <<>> PROVE Distinct(Tail(s)) /\ ~InSeq(Head(s), Tail(s))
    <2>1. \A i \in 1..Len(Tail(s)) : Tail(s)[i] = s[i + 1] /\ i + 1 \in 1..Len(s)
      BY <1>1
    <2>2. Head(s) = s[1] /\ 1 \in 1..Len(s)
      BY <1>1
    <2> QED BY <2>1, <2>2 DEF Distinct, InSeq
  <1>2. ASSUME NEW e \in S, ~InSeq(e, s) PROVE Distinct(Append(s, e))
    <2>1. Len(Append(s, e)) = Len(s) + 1 /\ Len(s) \in Nat
      OBVIOUS
    <2>2. \A i \in 1..Len(s) : Append(s, e)[i] = s[i] /\ s[i] # e
      BY <1>2 DEF InSeq
    <2>3. Append(s, e)[Len(s) + 1] = e
      OBVIOUS
    <2> QED BY <2>1, <2>2, <2>3 DEF Distinct
  <1> QED BY <1>1, <1>2

-----------------------------------------------------------------------------
(* The inductive invariants. What a command is in follows from its future. *)

ThreadInv ==
    /\ runner = "running" => current \in ran /\ active = current
    /\ runner # "running" => active = NoCall
    /\ closed <=> runner \in {"failing", "ended"}
    /\ closed => lock = NoCall /\ queue = <<>>
    /\ runner # "failing" => failing = <<>>
    /\ Distinct(queue) /\ Distinct(failing)

CommandInv(c) ==
    /\ fut[c] = "none" <=> handler[c] \in {"new", "refused", "submitting"}
    /\ handler[c] = "submitting" <=> lock = c
    /\ c \in ran => fut[c] # "none" /\ ~InSeq(c, queue) /\ ~InSeq(c, failing)
    /\ InSeq(c, queue) \/ InSeq(c, failing) => fut[c] \in {"pending", "cancelled"}
    /\ c \notin ran /\ fut[c] # "none" => InSeq(c, queue) \/ closed
    /\ c \notin ran /\ fut[c] = "pending" => InSeq(c, queue) \/ InSeq(c, failing)
    /\ c \in ran /\ fut[c] = "pending" => c = current /\ runner \notin {"check", "take"}
    /\ runner = "running" /\ c = current => fut[c] \in {"pending", "cancelled"}
    /\ fut[c] = "outcome" => c \in ran
    /\ fut[c] = "shutdown" => c \notin ran

RunnerInv == ThreadInv /\ \A c \in Calls : CommandInv(c)

IInv == TypeOK /\ RunnerInv

\* The completion of a command is the last callback of it: the others are
\* before it, or a turn ahead.
IsLast(j, r) ==
    \A i \in 1..Len(r) : (i # j /\ r[i].call = r[j].call) =>
        r[i].kind = "log" /\ (i < j \/ r[i].turn > r[j].turn) /\ r[i].turn >= r[j].turn

LogInv ==
    /\ \A j \in 1..Len(ready) : ready[j].kind = "done" =>
         /\ fut[ready[j].call] \in {"outcome", "shutdown"}
         /\ handler[ready[j].call] # "returned"
         /\ IsLast(j, ready)
    /\ \A c \in Calls : handler[c] = "returned" =>
         /\ fut[c] \in {"outcome", "shutdown"}
         /\ \A i \in 1..Len(ready) : ready[i].call # c

-----------------------------------------------------------------------------
(* Type correctness *)

\* What Post() adds is a callback.
LEMMA PostType ==
    ASSUME TypeOK, NEW k \in {"log", "done"}, NEW c \in Calls, Post(k, c)
    PROVE  ready' \in Seq(Callbacks)
  <1>1. [kind |-> k, call |-> c, turn |-> 1] \in Callbacks
    BY DEF Callbacks
  <1> QED BY <1>1 DEF Post, TypeOK

\* The steps of the event loop keep the types.
LEMMA LoopType ==
    ASSUME TypeOK, NEW c \in Calls,
           SubmitCheck(c) \/ SubmitPut(c) \/ CancelHandler(c) \/ CancelFuture(c)
    PROVE  TypeOK'
  <1>1. CASE SubmitCheck(c)
    BY <1>1 DEF SubmitCheck, TypeOK
  <1>2. CASE SubmitPut(c)
    BY <1>2 DEF SubmitPut, TypeOK
  <1>3. CASE CancelHandler(c)
    BY <1>3 DEF CancelHandler, TypeOK, threadVars
  <1>4. CASE CancelFuture(c)
    BY <1>4 DEF CancelFuture, TypeOK, threadVars
  <1> QED BY <1>1, <1>2, <1>3, <1>4

\* A callback that runs keeps the types.
LEMMA CallbackType == TypeOK /\ RunCallback => TypeOK'
  <1> SUFFICES ASSUME TypeOK, RunCallback PROVE TypeOK'
    OBVIOUS
  <1> DEFINE cb == Head(ready)
  <1>1. cb \in Callbacks /\ Tail(ready) \in Seq(Callbacks)
    BY DEF RunCallback, TypeOK
  <1>2. [cb EXCEPT !.turn = 2] \in Callbacks
    BY <1>1 DEF Callbacks
  <1>3. ready' \in Seq(Callbacks)
    <2>1. Append(Tail(ready), [cb EXCEPT !.turn = 2]) \in Seq(Callbacks)
      BY <1>1, <1>2
    <2> QED BY <1>1, <2>1 DEF RunCallback, FirstTurn, SecondTurn
  <1>4. handler' \in [Calls -> {"new", "submitting", "waiting", "cancelling",
                                "returned", "refused", "cancelled"}]
    BY DEF RunCallback, FirstTurn, SecondTurn, TypeOK
  <1> QED
    BY <1>3, <1>4 DEF RunCallback, TypeOK, threadVars

\* The steps of the runner thread keep the types.
LEMMA RunnerType ==
    ASSUME TypeOK, runner = "running" => current \in ran, RunnerStep \/ LogMessage \/ Stop
    PROVE  TypeOK'
  <1>1. CASE CheckStopped
    BY <1>1 DEF CheckStopped, TypeOK, loopVars
  <1>2. CASE TakeNothing
    BY <1>2 DEF TakeNothing, TypeOK, loopVars
  <1>3. CASE TakeCommand
    <2>1. Head(queue) \in Calls /\ Tail(queue) \in Seq(Calls)
      BY <1>3 DEF TakeCommand, TypeOK
    <2> QED BY <1>3, <2>1 DEF TakeCommand, TypeOK, loopVars
  <1>4. CASE CommandReturns
    <2>1. current \in Calls
      BY <1>4 DEF CommandReturns, TypeOK
    <2> QED BY <1>4, <2>1, PostType DEF CommandReturns, TypeOK
  <1>5. CASE CommandEndsLoop
    BY <1>5 DEF CommandEndsLoop, TypeOK, loopVars
  <1>6. CASE Close
    BY <1>6, InEmpty DEF Close, TypeOK, loopVars
  <1>7. CASE FailQueued
    <2>1. Head(failing) \in Calls /\ Tail(failing) \in Seq(Calls)
      BY <1>7 DEF FailQueued, TypeOK
    <2>2. fut' \in [Calls -> {"none", "pending", "outcome", "shutdown", "cancelled"}]
      BY <1>7, <2>1 DEF FailQueued, TypeOK
    <2>3. ready' \in Seq(Callbacks)
      BY <1>7, <2>1, PostType DEF FailQueued, TypeOK
    <2> QED BY <1>7, <2>1, <2>2, <2>3 DEF FailQueued, TypeOK
  <1>8. CASE RunnerEnds
    BY <1>8 DEF RunnerEnds, TypeOK, loopVars
  <1>9. CASE LogMessage
    <2>1. active \in Calls
      BY <1>9 DEF LogMessage, TypeOK
    <2>2. ready' \in Seq(Callbacks)
      BY <1>9, <2>1, PostType DEF LogMessage
    <2>3. logged' \in [Calls -> 0..MaxMessages]
      BY <1>9, <2>1 DEF LogMessage, TypeOK
    <2> QED BY <1>9, <2>2, <2>3 DEF LogMessage, TypeOK, threadVars
  <1>10. CASE Stop
    BY <1>10 DEF Stop, TypeOK, threadVars, loopVars
  <1> QED
    BY <1>1, <1>2, <1>3, <1>4, <1>5, <1>6, <1>7, <1>8, <1>9, <1>10 DEF RunnerStep

\* Every step keeps the types.
LEMMA TypeStep == IInv /\ [Next]_vars => TypeOK'
  <1> SUFFICES ASSUME IInv, [Next]_vars PROVE TypeOK'
    OBVIOUS
  <1> USE DEF IInv, RunnerInv, ThreadInv
  <1>1. CASE Stop \/ RunnerStep \/ LogMessage
    BY <1>1, RunnerType
  <1>2. CASE RunCallback
    BY <1>2, CallbackType
  <1>3. ASSUME NEW c \in Calls, SubmitCheck(c) \/ CancelHandler(c) \/ LoopStep(c)
        PROVE  TypeOK'
    BY <1>3, LoopType DEF LoopStep
  <1>4. CASE UNCHANGED vars
    BY <1>4 DEF TypeOK, vars, threadVars, loopVars
  <1> QED BY <1>1, <1>2, <1>3, <1>4 DEF Next

-----------------------------------------------------------------------------
(* The invariant of the runner and its queue *)

\* The invariant holds in the initial states.
LEMMA InvInit == Init => IInv
  <1> SUFFICES ASSUME Init PROVE IInv
    OBVIOUS
  <1>1. <<>> \in Seq(Calls) /\ <<>> \in Seq(Callbacks)
    BY InEmpty
  <1>2. TypeOK
    BY <1>1, 0 \in 0..MaxMessages DEF Init, TypeOK
  <1>3. ThreadInv
    BY DEF Init, ThreadInv, Distinct
  <1>4. ASSUME NEW c \in Calls PROVE CommandInv(c)
    BY InEmpty DEF Init, CommandInv
  <1> QED BY <1>2, <1>3, <1>4 DEF IInv, RunnerInv

\* The event loop submits and cancels.
LEMMA LoopInv ==
    ASSUME IInv, NEW c \in Calls,
           SubmitCheck(c) \/ SubmitPut(c) \/ CancelHandler(c) \/ CancelFuture(c)
    PROVE  RunnerInv'
  <1> USE DEF IInv, RunnerInv
  <1>1. CASE SubmitCheck(c)
    <2>1. ThreadInv'
      BY <1>1 DEF SubmitCheck, ThreadInv, TypeOK, LoopIsFree
    <2>2. ASSUME NEW d \in Calls PROVE CommandInv(d)'
      BY <1>1 DEF SubmitCheck, CommandInv, TypeOK, LoopIsFree, InSeq
    <2> QED BY <2>1, <2>2
  <1>2. CASE SubmitPut(c)
    <2>1. /\ fut[c] = "none" /\ lock = c /\ ~closed
          /\ c \notin ran /\ ~InSeq(c, queue) /\ ~InSeq(c, failing)
      BY <1>2 DEF SubmitPut, CommandInv, ThreadInv
    <2>2. ThreadInv'
      BY <1>2, <2>1, DistinctSteps DEF SubmitPut, ThreadInv, TypeOK
    <2>3. ASSUME NEW d \in Calls PROVE CommandInv(d)'
      <3>1. InSeq(d, queue)' <=> InSeq(d, queue) \/ d = c
        BY <1>2, InAppended DEF SubmitPut, TypeOK
      <3>2. InSeq(d, failing)' <=> InSeq(d, failing)
        BY <1>2 DEF SubmitPut, InSeq
      <3>3. CommandInv(d) /\ CommandInv(c) /\ ThreadInv
        OBVIOUS
      <3> QED BY <1>2, <2>1, <3>1, <3>2, <3>3 DEF SubmitPut, CommandInv, TypeOK, ThreadInv
    <2> QED BY <2>2, <2>3
  <1>3. CASE CancelHandler(c)
    <2>1. ThreadInv'
      BY <1>3 DEF CancelHandler, ThreadInv, threadVars
    <2>2. ASSUME NEW d \in Calls PROVE CommandInv(d)'
      BY <1>3 DEF CancelHandler, CommandInv, TypeOK, InSeq, threadVars
    <2> QED BY <2>1, <2>2
  <1>4. CASE CancelFuture(c)
    <2>1. ThreadInv'
      BY <1>4 DEF CancelFuture, ThreadInv, threadVars
    <2>2. ASSUME NEW d \in Calls PROVE CommandInv(d)'
      BY <1>4 DEF CancelFuture, CommandInv, TypeOK, InSeq, threadVars
    <2> QED BY <2>1, <2>2
  <1> QED BY <1>1, <1>2, <1>3, <1>4

\* A callback of the event loop, a log message and the stop change nothing that
\* the invariant speaks of, except that a waiting handler returns.
LEMMA QuietStepsInv ==
    ASSUME IInv, RunCallback \/ LogMessage \/ Stop \/ UNCHANGED vars
    PROVE  RunnerInv'
  <1> USE DEF IInv, RunnerInv
  <1>1. /\ UNCHANGED <<threadVars, closed, fut>>
        /\ \A d \in Calls : handler'[d] # handler[d] => handler[d] = "waiting" /\ handler'[d] = "returned"
    <2>1. CASE RunCallback
      BY <2>1 DEF RunCallback, FirstTurn, SecondTurn, TypeOK
    <2>2. CASE LogMessage \/ Stop \/ UNCHANGED vars
      BY <2>2 DEF LogMessage, Stop, vars, loopVars
    <2> QED BY <2>1, <2>2
  <1>2. ThreadInv'
    BY <1>1 DEF ThreadInv, threadVars
  <1>3. ASSUME NEW d \in Calls PROVE CommandInv(d)'
    <2>1. CommandInv(d)
      OBVIOUS
    <2> QED BY <1>1, <2>1 DEF CommandInv, InSeq, threadVars
  <1> QED BY <1>2, <1>3

\* The steps of the runner thread.
LEMMA RunnerStepInv == IInv /\ RunnerStep => RunnerInv'
  <1> SUFFICES ASSUME IInv, RunnerStep PROVE RunnerInv'
    OBVIOUS
  <1> USE DEF IInv, RunnerInv
  <1>1. CASE CheckStopped
    <2>1. ThreadInv'
      BY <1>1 DEF CheckStopped, ThreadInv
    <2>2. ASSUME NEW d \in Calls PROVE CommandInv(d)'
      BY <1>1 DEF CheckStopped, CommandInv, InSeq, loopVars
    <2> QED BY <2>1, <2>2
  <1>2. CASE TakeNothing
    <2>1. ThreadInv'
      BY <1>2 DEF TakeNothing, ThreadInv
    <2>2. ASSUME NEW d \in Calls PROVE CommandInv(d)'
      BY <1>2 DEF TakeNothing, CommandInv, InSeq, loopVars
    <2> QED BY <2>1, <2>2
  <1>3. CASE TakeCommand
    <2>0. PICK c \in Calls : c = Head(queue)
      BY <1>3, InTail DEF TakeCommand, TypeOK
    <2>1. c \in Calls /\ Tail(queue) \in Seq(Calls) /\ InSeq(c, queue)
      BY <1>3, <2>0, InTail DEF TakeCommand, TypeOK
    <2>2. Distinct(Tail(queue)) /\ ~InSeq(c, Tail(queue))
      BY <1>3, <2>0, DistinctSteps DEF TakeCommand, TypeOK, ThreadInv
    <2>3. failing = <<>> /\ ~closed
      BY <1>3 DEF TakeCommand, ThreadInv
    <2>4. ThreadInv'
      BY <1>3, <2>2, <2>3 DEF TakeCommand, ThreadInv
    <2>5. ASSUME NEW d \in Calls PROVE CommandInv(d)'
      <3>1. InSeq(d, queue) <=> d = c \/ InSeq(d, queue)'
        BY <1>3, <2>0, InTail DEF TakeCommand, TypeOK
      <3>2. ~InSeq(d, failing)' /\ ~InSeq(d, failing)
        BY <1>3, <2>3, InEmpty DEF TakeCommand
      <3>3. CommandInv(d) /\ CommandInv(c)
        BY <2>1
      <3>4. ~InSeq(c, queue)'
        BY <1>3, <2>2 DEF TakeCommand
      <3>5. current' = c /\ ran' = ran \cup {c} /\ UNCHANGED <<closed, lock, fut, handler>> /\ runner' = "running" /\ runner = "take"
        BY <1>3, <2>0 DEF TakeCommand, loopVars
      <3> QED BY <2>1, <2>3, <3>1, <3>2, <3>3, <3>4, <3>5 DEF CommandInv
    <2> QED BY <2>4, <2>5
  <1>4. CASE CommandReturns
    <2>1. ThreadInv'
      BY <1>4 DEF CommandReturns, ThreadInv
    <2>2. ASSUME NEW d \in Calls PROVE CommandInv(d)'
      BY <1>4 DEF CommandReturns, CommandInv, InSeq, ThreadInv, TypeOK
    <2> QED BY <2>1, <2>2
  <1>5. CASE CommandEndsLoop
    <2>1. ThreadInv'
      BY <1>5 DEF CommandEndsLoop, ThreadInv
    <2>2. ASSUME NEW d \in Calls PROVE CommandInv(d)'
      BY <1>5 DEF CommandEndsLoop, CommandInv, InSeq, loopVars
    <2> QED BY <2>1, <2>2
  <1>6. CASE Close
    <2>1. failing = <<>> /\ ~closed
      BY <1>6 DEF Close, ThreadInv
    <2>2. ThreadInv'
      BY <1>6, <2>1 DEF Close, ThreadInv, Distinct, LoopIsFree
    <2>3. ASSUME NEW d \in Calls PROVE CommandInv(d)'
      <3>1. ~InSeq(d, queue)' /\ ~InSeq(d, failing)
        BY <1>6, <2>1, InEmpty DEF Close
      <3>2. InSeq(d, failing)' <=> InSeq(d, queue)
        BY <1>6 DEF Close, InSeq
      <3>3. CommandInv(d)
        OBVIOUS
      <3> QED BY <1>6, <2>1, <3>1, <3>2, <3>3 DEF Close, CommandInv, loopVars
    <2> QED BY <2>2, <2>3
  <1>7. CASE FailQueued
    <2>0. PICK c \in Calls : c = Head(failing)
      BY <1>7, InTail DEF FailQueued, TypeOK
    <2>1. c \in Calls /\ InSeq(c, failing)
      BY <1>7, <2>0, InTail DEF FailQueued, TypeOK
    <2>2. Distinct(Tail(failing)) /\ ~InSeq(c, Tail(failing))
      BY <1>7, <2>0, DistinctSteps DEF FailQueued, TypeOK, ThreadInv
    <2>3. ThreadInv'
      BY <1>7, <2>2 DEF FailQueued, ThreadInv
    <2>4. ASSUME NEW d \in Calls PROVE CommandInv(d)'
      <3>1. InSeq(d, failing) <=> d = c \/ InSeq(d, failing)'
        BY <1>7, <2>0, InTail DEF FailQueued, TypeOK
      <3>2. InSeq(d, queue)' <=> InSeq(d, queue)
        BY <1>7 DEF FailQueued, InSeq
      <3>3. CommandInv(d) /\ CommandInv(c)
        BY <2>1
      <3>4. ~InSeq(c, failing)' /\ closed /\ runner = "failing"
        BY <1>7, <2>2 DEF FailQueued, ThreadInv
      <3>5. fut' = IF fut[c] = "pending" THEN [fut EXCEPT ![c] = "shutdown"] ELSE fut
        BY <1>7, <2>0 DEF FailQueued
      <3>6. UNCHANGED <<closed, lock, runner, current, ran, handler>> /\ fut \in [Calls -> {"none", "pending", "outcome", "shutdown", "cancelled"}]
        BY <1>7 DEF FailQueued, TypeOK
      <3>7. CASE d = c
        <4>1. fut'[c] = IF fut[c] = "pending" THEN "shutdown" ELSE fut[c]
          BY <3>5, <3>6
        <4>2. fut[c] \in {"pending", "cancelled"} /\ c \notin ran
          BY <2>1, <3>3 DEF CommandInv
        <4>0. ~InSeq(c, queue)
          BY <3>4, InEmpty DEF ThreadInv
        <4>3. CommandInv(c)'
          BY <4>0, <2>1, <3>2, <3>3, <3>4, <3>6, <3>7, <4>1, <4>2 DEF CommandInv
        <4> QED BY <3>7, <4>3
      <3>8. CASE d # c
        <4>1. fut'[d] = fut[d]
          BY <3>5, <3>6, <3>8
        <4> QED BY <3>1, <3>2, <3>3, <3>6, <3>8, <4>1 DEF CommandInv
      <3> QED BY <3>7, <3>8
    <2> QED BY <2>3, <2>4
  <1>8. CASE RunnerEnds
    <2>1. ThreadInv'
      BY <1>8 DEF RunnerEnds, ThreadInv
    <2>2. ASSUME NEW d \in Calls PROVE CommandInv(d)'
      BY <1>8 DEF RunnerEnds, CommandInv, InSeq, loopVars
    <2> QED BY <2>1, <2>2
  <1> QED
    BY <1>1, <1>2, <1>3, <1>4, <1>5, <1>6, <1>7, <1>8 DEF RunnerStep

\* Every step keeps the invariant.
LEMMA InvStep == IInv /\ [Next]_vars => IInv'
  <1> SUFFICES ASSUME IInv, [Next]_vars PROVE IInv'
    OBVIOUS
  <1>1. TypeOK'
    BY TypeStep
  <1>2. RunnerInv'
    BY LoopInv, QuietStepsInv, RunnerStepInv DEF Next, LoopStep
  <1> QED BY <1>1, <1>2 DEF IInv

\* The invariant holds in every state.
LEMMA InvHolds == Spec => []IInv
  BY InvInit, InvStep, PTL DEF Spec

\* The variables of the runner keep their types.
THEOREM TypeCorrect == Spec => []TypeOK
  <1>1. IInv => TypeOK
    BY DEF IInv
  <1> QED BY <1>1, InvHolds, PTL

\* Every command is run, failed by the drain, or rejected: no future that
\* nobody will complete, except that of a command that has ended the runner.
THEOREM NoCommandIsLost == Spec => []NoCommandLost
  <1>1. IInv => NoCommandLost
    <2> SUFFICES ASSUME IInv, NEW c \in Calls, fut[c] = "pending"
                 PROVE  \/ InSeq(c, queue) /\ runner \notin {"failing", "ended"}
                        \/ InSeq(c, failing)
                        \/ c = current
      BY DEF NoCommandLost
    <2>1. CommandInv(c) /\ ThreadInv
      BY DEF IInv, RunnerInv
    <2>2. closed => ~InSeq(c, queue)
      BY <2>1, InEmpty DEF ThreadInv
    <2> QED BY <2>1, <2>2 DEF CommandInv, ThreadInv
  <1> QED BY <1>1, InvHolds, PTL

-----------------------------------------------------------------------------
(* The order of log messages and responses *)

Completed == {"outcome", "shutdown"}

\* A callback for a command that is not completed yet goes to the end.
LEMMA PostInv ==
    ASSUME TypeOK, LogInv, NEW k \in {"log", "done"}, NEW c \in Calls, Post(k, c),
           fut[c] \notin Completed, k = "done" => fut'[c] \in Completed,
           \A d \in Calls : d # c => fut'[d] = fut[d], UNCHANGED handler
    PROVE  LogInv'
  <1> DEFINE n == Len(ready)
             new == [kind |-> k, call |-> c, turn |-> 1]
  <1>1. n \in Nat /\ Len(ready') = n + 1 /\ ready'[n + 1] = new
    BY DEF Post, TypeOK
  <1>2. \A i \in 1..n : ready'[i] = ready[i] /\ ready[i] \in Callbacks
    BY DEF Post, TypeOK
  <1>3. \A i \in 1..n : ready[i].kind = "done" => ready[i].call # c
    BY DEF LogInv, Completed
  <1>4. handler[c] # "returned"
    BY DEF LogInv, Completed
  <1>5. ASSUME NEW j \in 1..Len(ready'), ready'[j].kind = "done"
        PROVE  /\ fut'[ready'[j].call] \in Completed
               /\ handler'[ready'[j].call] # "returned"
               /\ IsLast(j, ready')
    <2>1. CASE j = n + 1
      <3>1. k = "done" /\ ready'[j].call = c /\ ready'[j].turn = 1
        BY <1>1, <1>5, <2>1
      <3>2. ASSUME NEW i \in 1..Len(ready'), i # j, ready'[i].call = c
            PROVE  ready'[i].kind = "log" /\ i < j /\ ready'[i].turn >= 1
        <4>1. i \in 1..n /\ i < j
          BY <1>1, <2>1, <3>2
        <4>2. ready[i].kind \in {"log", "done"} /\ ready[i].turn \in {1, 2} /\ ready'[i] = ready[i]
          BY <4>1, <1>2 DEF Callbacks
        <4> QED BY <4>1, <4>2, <1>3, <3>2
      <3> QED BY <3>1, <3>2, <1>4 DEF IsLast
    <2>2. CASE j \in 1..n
      <3>1. ready'[j] = ready[j] /\ ready[j].call \in Calls /\ ready[j].call # c /\ ready[j].kind = "done"
        BY <1>2, <1>3, <1>5, <2>2 DEF Callbacks
      <3>2. IsLast(j, ready) /\ fut[ready[j].call] \in Completed /\ handler[ready[j].call] # "returned"
        BY <2>2, <3>1 DEF LogInv, Completed
      <3>3. IsLast(j, ready')
        <4> SUFFICES ASSUME NEW i \in 1..Len(ready'), i # j, ready'[i].call = ready'[j].call
                     PROVE  /\ ready'[i].kind = "log" /\ ready'[i].turn >= ready'[j].turn
                            /\ i < j \/ ready'[i].turn > ready'[j].turn
          BY DEF IsLast
        <4>1. i \in 1..n
          BY <1>1, <3>1
        <4> QED BY <4>1, <1>2, <3>1, <3>2 DEF IsLast
      <3> QED BY <3>1, <3>2, <3>3
    <2> QED BY <1>1, <2>1, <2>2
  <1>6. ASSUME NEW d \in Calls, handler'[d] = "returned"
        PROVE  fut'[d] \in Completed /\ \A i \in 1..Len(ready') : ready'[i].call # d
    <2>1. d # c /\ fut[d] \in Completed /\ \A i \in 1..n : ready[i].call # d
      BY <1>4, <1>6 DEF LogInv, Completed
    <2>2. ASSUME NEW i \in 1..Len(ready') PROVE ready'[i].call # d
      BY <1>1, <1>2, <2>1
    <2> QED BY <2>1, <2>2
  <1> QED BY <1>5, <1>6 DEF LogInv, Completed

\* The last index and the ones before it.
LEMMA LastIndex ==
    ASSUME NEW n \in Nat
    PROVE  \A i \in 1..n : i = n \/ (i \in 1..(n - 1) /\ i + 1 \in 1..n /\ i + 1 # 1 /\ ~(i + 1 < 1))
  OBVIOUS

\* The first turn takes the oldest callback to the end.
LEMMA FirstTurnInv ==
    ASSUME TypeOK, LogInv, ready # <<>>, Head(ready).turn = 1, FirstTurn(Head(ready)), UNCHANGED fut
    PROVE  LogInv'
  <1> DEFINE n == Len(ready)
             head == [ready[1] EXCEPT !.turn = 2]
  <1>1. n \in Nat /\ n >= 1 /\ Head(ready) = ready[1] /\ Len(Tail(ready)) = n - 1
        /\ Tail(ready) \in Seq(Callbacks)
    BY DEF TypeOK
  <1>0. \A i \in 1..n : i = n \/ (i \in 1..(n - 1) /\ i + 1 \in 1..n /\ i + 1 # 1 /\ ~(i + 1 < 1))
    BY <1>1, LastIndex
  <1>2. \A i \in 1..n : ready[i] \in Callbacks
    BY DEF TypeOK
  <1>3. head \in Callbacks /\ head.kind = ready[1].kind /\ head.call = ready[1].call
        /\ head.turn = 2 /\ ready[1].turn = 1
    <2>1. ready[1] \in Callbacks
      BY <1>1, <1>2
    <2> QED BY <1>1, <2>1 DEF Callbacks
  <1>4. ready' = Append(Tail(ready), head)
    BY <1>1 DEF FirstTurn
  <1> HIDE DEF head
  <1>5. Len(ready') = n /\ ready'[n] = head
    BY <1>1, <1>3, <1>4
  <1>6. \A i \in 1..(n - 1) : ready'[i] = ready[i + 1] /\ i + 1 \in 1..n
    BY <1>1, <1>3, <1>4
  <1>7. ASSUME NEW j \in 1..n, ready'[j].kind = "done"
        PROVE  /\ fut[ready'[j].call] \in Completed
               /\ handler[ready'[j].call] # "returned"
               /\ IsLast(j, ready')
    <2>1. CASE j = n
      <3>1. 1 \in 1..n /\ ready[1].kind = "done" /\ IsLast(1, ready)
            /\ fut[ready[1].call] \in Completed /\ handler[ready[1].call] # "returned"
        BY <1>1, <1>3, <1>5, <1>7, <2>1 DEF LogInv, Completed
      <3>2. ASSUME NEW i \in 1..n, i # n, ready'[i].call = head.call
            PROVE  ready'[i].kind = "log" /\ ready'[i].turn >= 2
        <4>1. i \in 1..(n - 1) /\ i + 1 \in 1..n /\ i + 1 # 1 /\ ~(i + 1 < 1)
          BY <1>0, <3>2
        <4>2. ready'[i] = ready[i + 1] /\ ready[i + 1].turn \in {1, 2}
          BY <4>1, <1>2, <1>6 DEF Callbacks
        <4>3. ready[i + 1].kind = "log" /\ ready[i + 1].turn > 1
          BY <4>1, <4>2, <3>1, <3>2, <1>3 DEF IsLast
        <4> QED BY <4>2, <4>3
      <3>3. IsLast(n, ready')
        BY <1>1, <1>3, <1>5, <3>2 DEF IsLast
      <3> QED BY <1>3, <1>5, <2>1, <3>1, <3>3
    <2>2. CASE j \in 1..(n - 1)
      <3>1. ready'[j] = ready[j + 1] /\ j + 1 \in 1..n /\ ready[j + 1].kind = "done"
        BY <1>6, <1>7, <2>2
      <3>2. /\ fut[ready[j + 1].call] \in Completed /\ handler[ready[j + 1].call] # "returned"
            /\ IsLast(j + 1, ready) /\ ready[j + 1].turn \in {1, 2}
        BY <3>1, <1>2 DEF LogInv, Completed, Callbacks
      <3>3. IsLast(j, ready')
        <4> SUFFICES ASSUME NEW i \in 1..n, i # j, ready'[i].call = ready[j + 1].call
                     PROVE  /\ ready'[i].kind = "log" /\ ready'[i].turn >= ready[j + 1].turn
                            /\ i < j \/ ready'[i].turn > ready[j + 1].turn
          BY <1>5, <3>1 DEF IsLast
        <4>1. CASE i = n
          <5>1. 1 \in 1..n /\ 1 # j + 1 /\ ready[1].call = ready[j + 1].call
            BY <1>1, <1>3, <1>5, <2>2, <4>1
          <5>2. ready[1].kind = "log" /\ ready[1].turn >= ready[j + 1].turn
            BY <5>1, <3>2 DEF IsLast
          <5> QED BY <5>2, <1>3, <1>5, <3>2, <4>1
        <4>2. CASE i \in 1..(n - 1)
          <5>1. ready'[i] = ready[i + 1] /\ i + 1 \in 1..n /\ i + 1 # j + 1 /\ (i + 1 < j + 1 => i < j)
            BY <1>6, <4>2
          <5>2. ready[i + 1].call = ready[j + 1].call
            BY <5>1
          <5> QED BY <5>1, <5>2, <3>2 DEF IsLast
        <4> QED BY <1>0, <4>1, <4>2
      <3> QED BY <3>1, <3>2, <3>3
    <2> QED BY <1>0, <2>1, <2>2
  <1>8. ASSUME NEW d \in Calls, handler[d] = "returned"
        PROVE  fut[d] \in Completed /\ \A i \in 1..n : ready'[i].call # d
    <2>1. fut[d] \in Completed /\ \A i \in 1..n : ready[i].call # d
      BY <1>8 DEF LogInv, Completed
    <2>2. ASSUME NEW i \in 1..n PROVE ready'[i].call # d
      <3>1. CASE i = n
        BY <1>1, <1>3, <1>5, <2>1, <3>1
      <3>2. CASE i \in 1..(n - 1)
        BY <1>6, <2>1, <3>2
      <3> QED BY <1>0, <3>1, <3>2
    <2> QED BY <2>1, <2>2
  <1>9. UNCHANGED handler
    BY DEF FirstTurn
  <1> QED BY <1>5, <1>7, <1>8, <1>9 DEF LogInv, Completed

\* In the second turn, a completion is the last callback of its command.
LEMMA SecondTurnInv ==
    ASSUME TypeOK, LogInv, ready # <<>>, Head(ready).turn = 2, SecondTurn(Head(ready)), UNCHANGED fut
    PROVE  LogInv'
  <1> DEFINE n == Len(ready)
  <1>1. n \in Nat /\ n >= 1 /\ Head(ready) = ready[1] /\ Len(Tail(ready)) = n - 1
    BY DEF TypeOK
  <1>2. \A i \in 1..n : ready[i] \in Callbacks
    BY DEF TypeOK
  <1>3. \A i \in 1..(n - 1) : ready'[i] = ready[i + 1] /\ i + 1 \in 1..n
    BY <1>1 DEF SecondTurn, TypeOK
  <1>4. Len(ready') = n - 1
    BY <1>1 DEF SecondTurn
  <1>5. ready[1].kind = "done" => \A i \in 1..(n - 1) : ready'[i].call # ready[1].call
    <2> SUFFICES ASSUME ready[1].kind = "done", NEW i \in 1..(n - 1), ready'[i].call = ready[1].call
                 PROVE  FALSE
      OBVIOUS
    <2>1. IsLast(1, ready) /\ 1 \in 1..n
      BY <1>1 DEF LogInv
    <2>2. i + 1 \in 1..n /\ i + 1 # 1 /\ ~(i + 1 < 1) /\ ready[i + 1].call = ready[1].call
      BY <1>3
    <2>3. ready[i + 1].turn \in {1, 2} /\ ready[1].turn = 2
      BY <1>1, <1>2, <2>2 DEF Callbacks
    <2> QED BY <2>1, <2>2, <2>3 DEF IsLast
  <1>6. ASSUME NEW d \in Calls, handler'[d] # handler[d]
        PROVE  ready[1].kind = "done" /\ d = ready[1].call
    BY <1>1, <1>6 DEF SecondTurn, TypeOK
  <1>7. ASSUME NEW j \in 1..(n - 1), ready'[j].kind = "done"
        PROVE  /\ fut[ready'[j].call] \in Completed
               /\ handler'[ready'[j].call] # "returned"
               /\ IsLast(j, ready')
    <2>1. ready'[j] = ready[j + 1] /\ j + 1 \in 1..n /\ ready[j + 1].kind = "done"
      BY <1>3, <1>7
    <2>2. /\ fut[ready[j + 1].call] \in Completed /\ handler[ready[j + 1].call] # "returned"
          /\ IsLast(j + 1, ready)
      BY <2>1 DEF LogInv, Completed
    <2>3. ready[j + 1].call \in Calls
      BY <2>1, <1>2 DEF Callbacks
    <2>4. handler'[ready'[j].call] # "returned"
      BY <1>5, <1>6, <2>1, <2>2, <2>3
    <2>5. IsLast(j, ready')
      <3> SUFFICES ASSUME NEW i \in 1..(n - 1), i # j, ready'[i].call = ready[j + 1].call
                   PROVE  /\ ready'[i].kind = "log" /\ ready'[i].turn >= ready[j + 1].turn
                          /\ i < j \/ ready'[i].turn > ready[j + 1].turn
        BY <1>4, <2>1 DEF IsLast
      <3>1. ready'[i] = ready[i + 1] /\ i + 1 \in 1..n /\ i + 1 # j + 1 /\ (i + 1 < j + 1 => i < j)
        BY <1>3
      <3>2. ready[i + 1].call = ready[j + 1].call
        BY <3>1
      <3> QED BY <3>1, <3>2, <2>2 DEF IsLast
    <2> QED BY <2>1, <2>2, <2>4, <2>5
  <1>8. ASSUME NEW d \in Calls, handler'[d] = "returned"
        PROVE  fut[d] \in Completed /\ \A i \in 1..(n - 1) : ready'[i].call # d
    <2>1. CASE handler[d] = "returned"
      <3>1. fut[d] \in Completed /\ \A i \in 1..n : ready[i].call # d
        BY <2>1 DEF LogInv, Completed
      <3> QED BY <1>3, <3>1
    <2>2. CASE handler[d] # "returned"
      <3>1. ready[1].kind = "done" /\ d = ready[1].call /\ 1 \in 1..n
        BY <1>1, <1>6, <1>8, <2>2
      <3>2. fut[d] \in Completed
        BY <3>1 DEF LogInv, Completed
      <3> QED BY <1>5, <3>1, <3>2
    <2> QED BY <2>1, <2>2
  <1> QED BY <1>4, <1>7, <1>8 DEF LogInv, Completed

\* Steps that post nothing and complete nothing.
LEMMA LogFrame ==
    ASSUME TypeOK, LogInv, UNCHANGED ready,
           \A d \in Calls : fut[d] \in Completed => fut'[d] = fut[d],
           \A d \in Calls : handler'[d] = "returned" => handler[d] = "returned"
    PROVE  LogInv'
  <1>0. \A j \in 1..Len(ready) : ready[j] \in Callbacks
    BY DEF TypeOK
  <1>1. \A j \in 1..Len(ready) : ready[j].call \in Calls
    BY <1>0 DEF Callbacks
  <1> QED BY <1>1 DEF LogInv, Completed, IsLast

\* Every step keeps the order.
LEMMA LogStep == IInv /\ LogInv /\ [Next]_vars => LogInv'
  <1> SUFFICES ASSUME IInv, LogInv, [Next]_vars PROVE LogInv'
    OBVIOUS
  <1>0. TypeOK /\ ThreadInv /\ \A c \in Calls : CommandInv(c)
    BY DEF IInv, RunnerInv
  <1>1. CASE RunCallback
    <2>1. ready # <<>> /\ UNCHANGED fut
      BY <1>1 DEF RunCallback
    <2> QED BY <1>0, <1>1, <2>1, FirstTurnInv, SecondTurnInv DEF RunCallback
  <1>2. CASE LogMessage
    <2>1. active \in Calls /\ fut[active] \in {"pending", "cancelled"}
      BY <1>0, <1>2 DEF LogMessage, ThreadInv, CommandInv, TypeOK
    <2>2. Post("log", active) /\ UNCHANGED <<fut, handler>>
      BY <1>2 DEF LogMessage
    <2> QED BY <1>0, <2>1, <2>2, PostInv DEF Completed
  <1>3. CASE CommandReturns
    <2>1. current \in Calls /\ fut[current] = "pending"
      BY <1>0, <1>3 DEF CommandReturns, ThreadInv, TypeOK
    <2>2. /\ Post("done", current) /\ UNCHANGED handler /\ fut'[current] = "outcome"
          /\ \A d \in Calls : d # current => fut'[d] = fut[d]
      BY <1>0, <1>3, <2>1 DEF CommandReturns, TypeOK
    <2> QED BY <1>0, <2>1, <2>2, PostInv DEF Completed
  <1>4. CASE FailQueued
    <2>0. PICK c \in Calls : c = Head(failing)
      BY <1>0, <1>4 DEF FailQueued, TypeOK
    <2>1. CASE fut[c] = "pending"
      <3>1. /\ Post("done", c) /\ UNCHANGED handler /\ fut'[c] = "shutdown"
            /\ \A d \in Calls : d # c => fut'[d] = fut[d]
        BY <1>0, <1>4, <2>0, <2>1 DEF FailQueued, TypeOK
      <3> QED BY <1>0, <2>1, <3>1, PostInv DEF Completed
    <2>2. CASE fut[c] # "pending"
      BY <1>0, <1>4, <2>0, <2>2, LogFrame DEF FailQueued
    <2> QED BY <2>1, <2>2
  <1>5. CASE CheckStopped \/ TakeNothing \/ TakeCommand \/ CommandEndsLoop \/ Close \/ RunnerEnds \/ Stop
    BY <1>0, <1>5, LogFrame
    DEF CheckStopped, TakeNothing, TakeCommand, CommandEndsLoop, Close, RunnerEnds, Stop, loopVars
  <1>6. ASSUME NEW c \in Calls, SubmitCheck(c) \/ CancelHandler(c) \/ LoopStep(c)
        PROVE  LogInv'
    <2>1. UNCHANGED ready /\ \A d \in Calls : handler'[d] = "returned" => handler[d] = "returned"
      BY <1>0, <1>6 DEF SubmitCheck, CancelHandler, LoopStep, SubmitPut, CancelFuture, TypeOK
    <2>2. \A d \in Calls : fut[d] \in Completed => fut'[d] = fut[d]
      <3>1. handler[c] = "submitting" => fut[c] = "none"
        BY <1>0 DEF CommandInv
      <3> QED
        BY <1>0, <1>6, <3>1
        DEF SubmitCheck, CancelHandler, LoopStep, SubmitPut, CancelFuture, TypeOK, Completed
    <2> QED BY <1>0, <2>1, <2>2, LogFrame
  <1>7. CASE UNCHANGED vars
    BY <1>0, <1>7, LogFrame DEF vars, loopVars
  <1> QED BY <1>1, <1>2, <1>3, <1>4, <1>5, <1>6, <1>7 DEF Next, RunnerStep

\* All the log messages of a command are sent before its response.
THEOREM LogsComeFirst == Spec => []LogsPrecedeResponse
  <1>1. Init => LogInv
    BY DEF Init, LogInv
  <1>2. Spec => []LogInv
    BY <1>1, LogStep, InvHolds, PTL DEF Spec
  <1>3. IInv /\ LogInv => LogsPrecedeResponse
    BY DEF IInv, RunnerInv, ThreadInv, CommandInv, LogInv, LogsPrecedeResponse, TypeOK
  <1> QED BY <1>2, <1>3, InvHolds, PTL

-----------------------------------------------------------------------------
(* The runner implements CommandService. *)

Answer(c) == IF fut[c] \in {"outcome", "shutdown"} THEN fut[c] ELSE "none"
States == [c \in Calls |-> CommandState(c)]
Answers == [c \in Calls |-> Answer(c)]
Mapped == <<Mode, queue, States, Answers>>

\* A step that changes no command's state and no answer is one of the mode only.
LEMMA SameStates ==
    ASSUME \A d \in Calls : CommandState(d)' = CommandState(d) /\ Answer(d)' = Answer(d)
    PROVE  UNCHANGED <<States, Answers>>
  BY DEF States, Answers

\* A step that changes the state and the answer of one command.
LEMMA OneState ==
    ASSUME NEW c \in Calls, NEW st, NEW an, CommandState(c)' = st, Answer(c)' = an,
           \A d \in Calls : d # c => CommandState(d)' = CommandState(d) /\ Answer(d)' = Answer(d)
    PROVE  /\ States' = [States EXCEPT ![c] = st]
           /\ Answers' = [Answers EXCEPT ![c] = an]
           /\ CommandState(c) = st => UNCHANGED States
           /\ Answer(c) = an => UNCHANGED Answers
  BY DEF States, Answers

\* A submitted command joins the line while the service is not shut.
LEMMA PutRefines ==
    ASSUME IInv, NEW c \in Calls, SubmitPut(c)
    PROVE  Service!Submit(c)
  <1>0. TypeOK /\ ThreadInv /\ \A d \in Calls : CommandInv(d)
    BY DEF IInv, RunnerInv
  <1>1. /\ fut[c] = "none" /\ c \notin ran /\ ~closed
        /\ fut'[c] = "pending" /\ \A d \in Calls : d # c => fut'[d] = fut[d]
    BY <1>0 DEF SubmitPut, CommandInv, ThreadInv, TypeOK
  <1>2. \A d \in Calls : InSeq(d, queue)' <=> InSeq(d, queue) \/ d = c
    BY <1>0, InAppended DEF SubmitPut, TypeOK
  <1>3. Mode # "shut" /\ Mode' = Mode
    BY <1>1 DEF SubmitPut, Mode
  <1>4. CommandState(c) = "new" /\ CommandState(c)' = "waiting"
    BY <1>1, <1>2 DEF SubmitPut, CommandState
  <1>5. Answer(c) = "none" /\ Answer(c)' = "none"
    BY <1>1 DEF Answer
  <1>6. \A d \in Calls : d # c => CommandState(d)' = CommandState(d) /\ Answer(d)' = Answer(d)
    BY <1>1, <1>2 DEF SubmitPut, CommandState, Answer
  <1>7. States' = [States EXCEPT ![c] = "waiting"] /\ UNCHANGED Answers
    BY <1>4, <1>5, <1>6, OneState
  <1>8. States[c] = "new" /\ queue' = Append(queue, c)
    BY <1>4 DEF States, SubmitPut
  <1> QED BY <1>3, <1>7, <1>8 DEF Service!Submit, States, Answers, Answer

\* The stop leaves room for one more command if the runner waits for one.
LEMMA StopRefines ==
    ASSUME IInv, Stop
    PROVE  Service!Stop \/ UNCHANGED Mapped
  <1>0. ThreadInv
    BY DEF IInv, RunnerInv
  <1>1. UNCHANGED <<queue, States, Answers>>
    <2>1. \A d \in Calls : CommandState(d)' = CommandState(d) /\ Answer(d)' = Answer(d)
      BY DEF Stop, CommandState, Answer, InSeq, threadVars
    <2> QED BY <2>1, SameStates DEF Stop, threadVars
  <1>2. CASE closed \/ runner = "closing"
    <2>1. Mode' = Mode
      BY <1>2 DEF Stop, Mode, threadVars
    <2> QED BY <1>1, <2>1 DEF Mapped
  <1>3. CASE ~closed /\ runner # "closing"
    <2>1. Mode = "open" /\ Mode' \in {"last", "over"}
      BY <1>3 DEF Stop, Mode, threadVars
    <2> QED BY <1>1, <2>1 DEF Service!Stop, States, Answers, Answer
  <1> QED BY <1>2, <1>3

\* A command is taken in order, and after the stop it is the last one.
LEMMA TakeRefines ==
    ASSUME IInv, TakeCommand
    PROVE  \E c \in Calls : Service!Begin(c)
  <1>0. TypeOK /\ ThreadInv /\ \A d \in Calls : CommandInv(d)
    BY DEF IInv, RunnerInv
  <1>1. PICK c \in Calls : c = Head(queue)
    BY <1>0, InTail DEF TakeCommand, TypeOK
  <1>2. InSeq(c, queue) /\ \A d \in Calls : InSeq(d, queue) <=> d = c \/ InSeq(d, queue)'
    BY <1>0, <1>1, InTail DEF TakeCommand, TypeOK
  <1>3. /\ ran' = ran \cup {c} /\ current' = c /\ runner = "take" /\ runner' = "running"
        /\ queue # <<>> /\ queue' = Tail(queue) /\ UNCHANGED <<stopped, closed, fut>> /\ ~closed
    BY <1>0, <1>1 DEF TakeCommand, ThreadInv
  <1>4. fut[c] # "none" /\ c \notin ran
    BY <1>0, <1>2 DEF CommandInv
  <1>5. CommandState(c) = "waiting" /\ CommandState(c)' = "running"
    BY <1>2, <1>3, <1>4 DEF CommandState
  <1>6. \A d \in Calls : Answer(d)' = Answer(d) /\ CommandState(d) # "running"
    BY <1>3 DEF Answer, CommandState
  <1>7. \A d \in Calls : d # c => CommandState(d)' = CommandState(d)
    BY <1>2, <1>3 DEF CommandState
  <1>8. States' = [States EXCEPT ![c] = "running"] /\ UNCHANGED Answers
    BY <1>5, <1>6, <1>7, OneState, SameStates DEF Answers
  <1>9. \A d \in Calls : States[d] # "running"
    BY <1>6 DEF States
  <1>10. (Mode = "open" /\ Mode' = "open") \/ (Mode = "last" /\ Mode' = "over")
    BY <1>3 DEF Mode
  <1>11. Service!Begin(c)
    BY <1>1, <1>3, <1>8, <1>9, <1>10 DEF Service!Begin, States, Answers, Answer
  <1> QED BY <1>11

\* The running command finishes; if it does not answer, the service is over.
LEMMA FinishRefines ==
    ASSUME IInv, CommandReturns \/ CommandEndsLoop
    PROVE  \E c \in Calls : Service!Finish(c)
  <1>0. TypeOK /\ ThreadInv /\ \A d \in Calls : CommandInv(d)
    BY DEF IInv, RunnerInv
  <1>1. /\ runner = "running" /\ current \in ran /\ ~closed
        /\ runner' \in {"check", "closing"} /\ UNCHANGED <<stopped, closed, queue, current, ran>>
    BY <1>0 DEF CommandReturns, CommandEndsLoop, ThreadInv
  <1>2. PICK c \in Calls : c = current
    BY <1>0, <1>1 DEF TypeOK
  <1>3. CommandState(c) = "running" /\ CommandState(c)' = "finished"
    BY <1>1, <1>2 DEF CommandState
  <1>4. \A d \in Calls : d # c => CommandState(d)' = CommandState(d) /\ fut'[d] = fut[d]
    <2>1. \A d \in Calls : d # c => fut'[d] = fut[d]
      BY <1>0, <1>2 DEF CommandReturns, CommandEndsLoop, TypeOK
    <2> QED BY <1>1, <1>2, <2>1 DEF CommandState
  <1>5. \A d \in Calls : d # c => Answer(d)' = Answer(d)
    BY <1>4 DEF Answer
  <1>6. States' = [States EXCEPT ![c] = "finished"]
    BY <1>3, <1>4, <1>5, OneState
  <1>7. CASE CommandReturns
    <2>1. fut'[c] = "outcome"
      BY <1>0, <1>2, <1>7 DEF CommandReturns, TypeOK
    <2>2. Answers' = [Answers EXCEPT ![c] = "outcome"]
      <3>1. Answer(c)' = "outcome"
        BY <2>1 DEF Answer
      <3> QED BY <1>3, <1>4, <1>5, <3>1, OneState
    <2>3. UNCHANGED Mode
      BY <1>1, <1>7 DEF CommandReturns, Mode
    <2>4. Service!Finish(c)
      BY <1>1, <1>3, <1>6, <2>2, <2>3 DEF Service!Finish, States, Answers, Answer
    <2> QED BY <2>4
  <1>8. CASE CommandEndsLoop
    <2>1. UNCHANGED Answers
      BY <1>8 DEF CommandEndsLoop, Answers, Answer
    <2>2. Mode' = "over"
      BY <1>1, <1>8 DEF CommandEndsLoop, Mode
    <2>3. Service!Finish(c)
      BY <1>1, <1>3, <1>6, <2>1, <2>2 DEF Service!Finish, States, Answers, Answer
    <2> QED BY <2>3
  <1> QED BY <1>7, <1>8

\* The drain drops what waits.
LEMMA CloseRefines ==
    ASSUME IInv, Close
    PROVE  Service!Shut
  <1>0. TypeOK /\ ThreadInv /\ \A d \in Calls : CommandInv(d)
    BY DEF IInv, RunnerInv
  <1>1. Mode = "over" /\ Mode' = "shut" /\ queue' = <<>>
    BY <1>0 DEF Close, Mode, ThreadInv
  <1>2. \A d \in Calls : CommandState(d)' = IF CommandState(d) = "waiting" THEN "dropped" ELSE CommandState(d)
    <2>1. \A d \in Calls : ~InSeq(d, queue)'
      BY <1>1, InEmpty
    <2> QED BY <2>1 DEF Close, CommandState
  <1>3. UNCHANGED Answers
    BY DEF Close, Answers, Answer
  <1>4. States' = [c \in Calls |-> IF States[c] = "waiting" THEN "dropped" ELSE States[c]]
    BY <1>2 DEF States
  <1> QED BY <1>1, <1>3, <1>4 DEF Service!Shut, States, Answers, Answer

\* A dropped command is told of the shutdown, unless its handler is cancelled.
LEMMA FailRefines ==
    ASSUME IInv, FailQueued
    PROVE  (\E c \in Calls : Service!Tell(c)) \/ UNCHANGED Mapped
  <1>0. TypeOK /\ ThreadInv /\ \A d \in Calls : CommandInv(d)
    BY DEF IInv, RunnerInv
  <1>1. PICK c \in Calls : c = Head(failing)
    BY <1>0, InTail DEF FailQueued, TypeOK
  <1>2. InSeq(c, failing) /\ runner = "failing" /\ queue = <<>> /\ ~InSeq(c, queue)
    BY <1>0, <1>1, InTail, InEmpty DEF FailQueued, TypeOK, ThreadInv
  <1>3. c \notin ran /\ fut[c] \in {"pending", "cancelled"}
    BY <1>0, <1>2 DEF CommandInv
  <1>4. UNCHANGED <<stopped, closed, queue, runner, current, ran>> /\ UNCHANGED Mode
    BY DEF FailQueued, Mode
  <1>5. CASE fut[c] = "pending"
    <2>1. fut'[c] = "shutdown" /\ \A d \in Calls : d # c => fut'[d] = fut[d]
      BY <1>0, <1>1, <1>5 DEF FailQueued, TypeOK
    <2>2. CommandState(c) = "dropped" /\ CommandState(c)' = "dropped" /\ Answer(c)' = "shutdown"
      <3>1. ~InSeq(c, queue)'
        BY <1>2, <1>4 DEF InSeq
      <3> QED BY <1>2, <1>3, <1>4, <1>5, <2>1, <3>1 DEF CommandState, Answer
    <2>3. \A d \in Calls : d # c => CommandState(d)' = CommandState(d) /\ Answer(d)' = Answer(d)
      BY <1>4, <2>1 DEF CommandState, Answer, InSeq
    <2>4. UNCHANGED States /\ Answers' = [Answers EXCEPT ![c] = "shutdown"] /\ States[c] = "dropped"
      BY <2>2, <2>3, OneState DEF States
    <2>5. Service!Tell(c)
      BY <1>4, <2>4 DEF Service!Tell, States, Answers, Answer
    <2> QED BY <2>5
  <1>6. CASE fut[c] = "cancelled"
    <2>1. UNCHANGED fut
      BY <1>1, <1>6 DEF FailQueued
    <2>2. \A d \in Calls : CommandState(d)' = CommandState(d) /\ Answer(d)' = Answer(d)
      BY <1>4, <2>1 DEF CommandState, Answer, InSeq
    <2> QED BY <1>4, <2>2, SameStates DEF Mapped
  <1> QED BY <1>3, <1>5, <1>6

\* After the stop, a check or an empty queue ends the room for one more.
LEMMA CheckRefines ==
    ASSUME IInv, CheckStopped \/ TakeNothing \/ RunnerEnds
    PROVE  Service!Stop \/ UNCHANGED Mapped
  <1>0. TypeOK /\ ThreadInv /\ \A d \in Calls : CommandInv(d)
    BY DEF IInv, RunnerInv
  <1>1. UNCHANGED <<stopped, closed, queue, ran, fut>> /\ runner # "running" /\ runner' # "running"
    BY DEF CheckStopped, TakeNothing, RunnerEnds
  <1>2. UNCHANGED <<queue, States, Answers>>
    <2>1. \A d \in Calls : CommandState(d)' = CommandState(d) /\ Answer(d)' = Answer(d)
      BY <1>1 DEF CommandState, Answer, InSeq
    <2> QED BY <1>1, <2>1, SameStates
  <1>3. CASE TakeNothing /\ stopped
    <2>1. Mode = "last" /\ Mode' = "over"
      BY <1>0, <1>3 DEF TakeNothing, Mode, ThreadInv
    <2> QED BY <1>2, <2>1 DEF Service!Stop, States, Answers, Answer
  <1>4. CASE ~(TakeNothing /\ stopped)
    <2>1. UNCHANGED Mode
      BY <1>0, <1>4 DEF CheckStopped, TakeNothing, RunnerEnds, Mode, ThreadInv
    <2> QED BY <1>2, <2>1 DEF Mapped
  <1> QED BY <1>3, <1>4

\* The other steps of the event loop, and the log messages, are not seen.
LEMMA LoopRefines ==
    ASSUME IInv,
           \/ RunCallback \/ LogMessage \/ UNCHANGED vars
           \/ \E c \in Calls : SubmitCheck(c) \/ CancelHandler(c) \/ CancelFuture(c)
    PROVE  UNCHANGED Mapped
  <1>0. TypeOK
    BY DEF IInv, RunnerInv
  <1>1. UNCHANGED <<stopped, closed, queue, runner, current, ran>>
    BY DEF RunCallback, LogMessage, SubmitCheck, CancelHandler, CancelFuture, vars, threadVars
  <1>2. \A d \in Calls : fut'[d] = fut[d] \/ (fut[d] = "pending" /\ fut'[d] = "cancelled")
    BY <1>0 DEF RunCallback, LogMessage, SubmitCheck, CancelHandler, CancelFuture, vars, TypeOK
  <1>3. \A d \in Calls : CommandState(d)' = CommandState(d) /\ Answer(d)' = Answer(d)
    BY <1>1, <1>2 DEF CommandState, Answer, InSeq
  <1>4. UNCHANGED Mode
    BY <1>1 DEF Mode
  <1> QED BY <1>1, <1>3, <1>4, SameStates DEF Mapped

\* Every step is one of the service, or not seen.
LEMMA StepRefines == IInv /\ [Next]_vars => [Service!Next]_Mapped
  <1> SUFFICES ASSUME IInv, [Next]_vars PROVE Service!Next \/ UNCHANGED Mapped
    OBVIOUS
  <1>1. CASE Stop \/ RunnerStep
    BY <1>1, StopRefines, TakeRefines, FinishRefines, CloseRefines, FailRefines, CheckRefines
    DEF RunnerStep, Service!Next
  <1>2. ASSUME NEW c \in Calls, SubmitPut(c) PROVE Service!Next
    BY <1>2, PutRefines DEF Service!Next
  <1>3. CASE \/ RunCallback \/ LogMessage \/ UNCHANGED vars
             \/ \E c \in Calls : SubmitCheck(c) \/ CancelHandler(c) \/ CancelFuture(c)
    BY <1>3, LoopRefines
  <1> QED BY <1>1, <1>2, <1>3 DEF Next, LoopStep

\* Commands run one at a time and in the order of their submission, at most one
\* is started after the stop, and what never runs is all that the drain tells of
\* the shutdown.
THEOREM RunnerImplementsService == Spec => ServiceSpec
  <1>1. Init => Service!Init
    BY DEF Init, Service!Init, Mode, CommandState
  <1>2. IInv /\ [Next]_vars => [Service!Next]_Mapped
    BY StepRefines
  <1> QED
    BY <1>1, <1>2, InvHolds, PTL
    DEF Spec, ServiceSpec, Service!Spec, Service!vars, Mapped, States, Answers, Answer

=============================================================================
