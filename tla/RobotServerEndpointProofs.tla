--------------------- MODULE RobotServerEndpointProofs ---------------------
(***************************************************************************)
(* The invariants of RobotServerEndpoint, for any number of clients and    *)
(* libraries. EndpointInv is inductive: a command begins at most once and  *)
(* only from the line; what a library in the store, or gone from it, says  *)
(* of its commands; what the coroutine of an import knows; and which       *)
(* tokens the end of a connection still has before it.                     *)
(***************************************************************************)
EXTENDS RobotServerEndpoint, TLAPS

Import(i) == Command("import", i)
Keyword(i) == Command("keyword", i)
Finalize(i) == Command("finalize", i)
Release(i) == Command("release", i)

Ran(c) == state[c] \in {"running", "finished"}

\* What waits in the line is there once.
LineInv ==
    /\ \A k \in DOMAIN line : state[line[k]] = "waiting"
    /\ \A j, k \in DOMAIN line : line[j] = line[k] => j = k

Outcomes == \A c \in Commands : outcome[c] # "none" <=> Ran(c)

Answers ==
    /\ \A c \in Commands : answer[c] = "outcome" => state[c] = "finished"
    /\ \A c \in Commands : answer[c] = "shutdown" \/ state[c] = "dropped" => mode \in {"over", "shut"}

NewHandlers ==
    \A i \in Imports : /\ handler[Import(i)] = "new" => state[Import(i)] = "new"
                       /\ handler[Finalize(i)] = "new" => state[Finalize(i)] = "new"

CommandInv == Outcomes /\ Answers /\ NewHandlers

\* Before its import, a library is not there and was not; only then is there
\* anything else to do with it.
Unimported ==
    /\ \A i \in Imports : ~Ran(Import(i)) => i \notin store /\ torn[i] = 0
    /\ \A i \in Imports : /\ state[Finalize(i)] # "new" => Ran(Import(i))
                          /\ state[Release(i)] # "new" => Ran(Import(i))
    /\ \A i \in Called : state[Keyword(i)] # "new" => outcome[Import(i)] = "done"

Finalized ==
    \A i \in Imports : outcome[Finalize(i)] = "done" \/ outcome[Release(i)] = "done" => i \notin store

Missing ==
    \A i \in Imports : outcome[Import(i)] = "done" /\ i \notin store
                           => Ran(Finalize(i)) \/ Ran(Release(i))

\* A keyword fails for want of its library only once that may have been finalized.
Failures ==
    "unknown" \notin Levels => \A i \in Called : outcome[Keyword(i)] = "failed" =>
        state[Finalize(i)] # "new" \/ state[Release(i)] # "new"

\* A library is in the store between its import and its finalization.
StoreInv == Unimported /\ FinalizedOnce /\ Finalized /\ Missing /\ Failures

\* Nothing is left to do for a library, or nothing can be done.
Settled(i) == mode # "open" \/ outcome[Finalize(i)] = "done" \/ outcome[Release(i)] # "none"

Refused ==
    \A i \in Imports : handler[Import(i)] = "refused" =>
        \/ state[Import(i)] = "new" \/ mode # "open"
        \/ state[Import(i)] = "finished" /\ outcome[Import(i)] = "failed"

Returned ==
    \A i \in Imports : handler[Import(i)] = "returned" =>
        outcome[Import(i)] = "done" /\ (i \in tokens[Owner[i]] \/ Settled(i))

Released == \A i \in Imports : handler[Import(i)] = "released" => Settled(i)

\* What the coroutine of an import has come to.
ImportInv == Refused /\ Returned /\ Released

Recorded ==
    \A cl \in Clients : \A i \in tokens[cl] \cup leaving[cl] :
        Owner[i] = cl /\ handler[Import(i)] = "returned"

Connections ==
    \A cl \in Clients : /\ conn[cl] = "leaving" => tokens[cl] \subseteq leaving[cl]
                        /\ conn[cl] = "gone" => tokens[cl] = {}
                        /\ disconnected[cl] <=> conn[cl] # "open"

Releases == \A i \in Imports : state[Release(i)] # "new" => conn[Owner[i]] # "open"

LeaveInv == Recorded /\ Connections /\ Releases

EndpointInv == TypeOK /\ LineInv /\ CommandInv /\ StoreInv /\ ImportInv /\ LeaveInv

-----------------------------------------------------------------------------
(* Commands *)

LEMMA CommandsDiffer ==
    /\ \A o, p \in {"import", "keyword", "finalize", "release"} : \A i, j \in Imports :
          Command(o, i) = Command(p, j) => o = p /\ i = j
    /\ \A i \in Imports : Import(i) \in Commands /\ Finalize(i) \in Commands /\ Release(i) \in Commands
    /\ \A i \in Called : Keyword(i) \in Commands
BY DEF Command, Commands, Import, Keyword, Finalize, Release

LEMMA CommandIs ==
    ASSUME NEW c \in Commands
    PROVE  /\ c = Command(c.op, c.lib) /\ c.lib \in Imports
           /\ c.op \in {"import", "keyword", "finalize", "release"}
           /\ c.op = "keyword" => c.lib \in Called
BY CalledAreImports DEF Command, Commands

LEMMA LineSteps ==
    ASSUME TypeOK, LineInv
    PROVE  /\ \A c \in Commands : Service!Submit(c) => LineInv'
           /\ \A c : Service!Begin(c) => c \in Commands /\ state[c] = "waiting" /\ LineInv'
           /\ \A c \in Commands : Service!Finish(c) \/ Service!Tell(c) => LineInv'
           /\ Service!Shut \/ Service!Stop \/ UNCHANGED serviceVars => LineInv'
<1>0. line \in Seq(Commands) /\ state \in [Commands -> {"new", "waiting", "running", "finished", "dropped"}]
  BY DEF TypeOK
<1>1. ASSUME NEW c \in Commands, Service!Submit(c)
      PROVE  LineInv'
  <2>1. line' = Append(line, c) /\ state[c] = "new" /\ state' = [state EXCEPT ![c] = "waiting"]
    BY <1>1 DEF Service!Submit
  <2>2. \A k \in DOMAIN line : line[k] \in Commands /\ line[k] # c
    BY <1>0, <2>1 DEF LineInv
  <2>3. /\ DOMAIN line' = 1..(Len(line) + 1) /\ DOMAIN line = 1..Len(line) /\ Len(line) \in Nat
        /\ line'[Len(line) + 1] = c /\ \A k \in 1..Len(line) : line'[k] = line[k]
    BY <1>0, <2>1
  <2>4. \A k \in DOMAIN line' : state'[line'[k]] = "waiting"
    BY <1>0, <2>1, <2>2, <2>3 DEF LineInv
  <2>5. \A j, k \in DOMAIN line' : line'[j] = line'[k] => j = k
    BY <2>2, <2>3 DEF LineInv
  <2>. QED
    BY <2>4, <2>5 DEF LineInv
<1>2. ASSUME NEW c, Service!Begin(c)
      PROVE  c \in Commands /\ state[c] = "waiting" /\ LineInv'
  <2>1. line # <<>> /\ c = Head(line) /\ line' = Tail(line) /\ state' = [state EXCEPT ![c] = "running"]
    BY <1>2 DEF Service!Begin
  <2>2. /\ DOMAIN line' = 1..(Len(line) - 1) /\ DOMAIN line = 1..Len(line) /\ Len(line) \in Nat
        /\ Len(line) > 0 /\ c = line[1] /\ 1 \in DOMAIN line
        /\ \A k \in 1..(Len(line) - 1) : line'[k] = line[k + 1] /\ k + 1 \in DOMAIN line /\ k + 1 # 1
    BY <1>0, <2>1
  <2>3. c \in Commands /\ state[c] = "waiting"
    BY <1>0, <2>2 DEF LineInv
  <2>4. \A k \in DOMAIN line' : state'[line'[k]] = "waiting"
    <3>1. \A k \in DOMAIN line' : line'[k] \in Commands /\ line'[k] # c /\ state[line'[k]] = "waiting"
      BY <1>0, <2>2 DEF LineInv
    <3>. QED
      BY <1>0, <2>1, <3>1
  <2>5. \A j, k \in DOMAIN line' : line'[j] = line'[k] => j = k
    BY <2>2 DEF LineInv
  <2>. QED
    BY <2>3, <2>4, <2>5 DEF LineInv
<1>3. ASSUME NEW c \in Commands, Service!Finish(c) \/ Service!Tell(c)
      PROVE  LineInv'
  <2>1. line' = line /\ \A d \in Commands : state[d] = "waiting" => state'[d] = "waiting"
    BY <1>0, <1>3 DEF Service!Finish, Service!Tell
  <2>. QED
    BY <1>0, <2>1 DEF LineInv
<1>4. ASSUME Service!Shut
      PROVE  LineInv'
  <2>1. DOMAIN line' = {}
    BY <1>4 DEF Service!Shut
  <2>. QED
    BY <2>1 DEF LineInv
<1>5. ASSUME Service!Stop \/ UNCHANGED serviceVars
      PROVE  LineInv'
  BY <1>5 DEF Service!Stop, serviceVars, LineInv
<1>. QED
  BY <1>1, <1>2, <1>3, <1>4, <1>5

-----------------------------------------------------------------------------
(* The steps *)

ServiceTypeOK ==
    /\ mode \in {"open", "last", "over", "shut"}
    /\ line \in Seq(Commands)
    /\ state \in [Commands -> {"new", "waiting", "running", "finished", "dropped"}]
    /\ answer \in [Commands -> {"none", "outcome", "shutdown"}]

HandlerTypeOK ==
    handler \in [Commands -> {"new", "waiting", "releasing", "returned", "refused", "released"}]

RobotTypeOK ==
    /\ outcome \in [Commands -> {"none", "done", "failed"}]
    /\ store \subseteq Imports
    /\ torn \in [Imports -> Nat]

PeerTypeOK ==
    /\ greeted \in [Clients -> SUBSET Greetings]
    /\ level \in [Clients -> {"known"} \cup Levels]

LeaveTypeOK ==
    /\ tokens \in [Clients -> SUBSET Imports]
    /\ disconnected \in [Clients -> BOOLEAN]
    /\ conn \in [Clients -> {"open", "leaving", "gone"}]
    /\ leaving \in [Clients -> SUBSET Imports]

LEMMA PutType ==
    ASSUME NEW A, NEW B, NEW f \in [A -> B], NEW a, NEW b \in B
    PROVE  [f EXCEPT ![a] = b] \in [A -> B]
OBVIOUS

LEMMA ServiceTypes ==
    ASSUME ServiceTypeOK, \/ UNCHANGED serviceVars \/ Service!Shut \/ Service!Stop
                          \/ \E c \in Commands : \/ Service!Submit(c) \/ Service!Begin(c)
                                                \/ Service!Finish(c) \/ Service!Tell(c)
    PROVE  ServiceTypeOK'
<1>. USE DEF ServiceTypeOK
<1>1. CASE UNCHANGED serviceVars \/ Service!Stop
  BY <1>1 DEF serviceVars, Service!Stop
<1>2. CASE Service!Shut
  BY <1>2 DEF Service!Shut
<1>3. ASSUME NEW c \in Commands, Service!Submit(c)
      PROVE  ServiceTypeOK'
  <2>1. Append(line, c) \in Seq(Commands)
    OBVIOUS
  <2>. QED
    BY <1>3, <2>1 DEF Service!Submit
<1>4. ASSUME NEW c \in Commands, Service!Begin(c)
      PROVE  ServiceTypeOK'
  <2>1. Tail(line) \in Seq(Commands)
    BY <1>4 DEF Service!Begin
  <2>. QED
    BY <1>4, <2>1 DEF Service!Begin
<1>5. ASSUME NEW c \in Commands, Service!Finish(c) \/ Service!Tell(c)
      PROVE  ServiceTypeOK'
  BY <1>5 DEF Service!Finish, Service!Tell
<1>. QED
  BY <1>1, <1>2, <1>3, <1>4, <1>5

LEMMA CallTypes ==
    ASSUME ServiceTypeOK, HandlerTypeOK, NEW c \in Commands, Call(c)
    PROVE  ServiceTypeOK' /\ HandlerTypeOK'
<1>1. Service!Submit(c) \/ UNCHANGED serviceVars
  BY DEF Call, Refuse
<1>2. HandlerTypeOK'
  BY DEF Call, SetHandler, HandlerTypeOK
<1>. QED
  BY <1>1, <1>2, ServiceTypes

LEMMA HandshakeTypes ==
    ASSUME ServiceTypeOK, HandlerTypeOK, NEW cl, NEW c \in Commands, RequireHandshake(cl, c)
    PROVE  ServiceTypeOK' /\ HandlerTypeOK'
<1>1. CASE Call(c)
  BY <1>1, CallTypes
<1>2. CASE SetHandler(c, "refused") /\ UNCHANGED serviceVars
  BY <1>2, ServiceTypes DEF SetHandler, HandlerTypeOK
<1>. QED
  BY <1>1, <1>2 DEF RequireHandshake

LEMMA LeaveTypes ==
    ASSUME TypeOK, NEW cl \in Clients, NEW rest \in SUBSET Imports, NEW recorded \in SUBSET Imports,
           GoOn(cl, rest, recorded)
    PROVE  /\ ServiceTypeOK' /\ HandlerTypeOK'
           /\ leaving' \in [Clients -> SUBSET Imports] /\ tokens' \in [Clients -> SUBSET Imports]
           /\ conn' \in [Clients -> {"open", "leaving", "gone"}]
           /\ greeted' \in [Clients -> SUBSET Greetings]
<1>1. ServiceTypeOK /\ HandlerTypeOK
  BY DEF TypeOK, ServiceTypeOK, HandlerTypeOK
<1>2. UNCHANGED serviceVars \/ \E i \in rest : Service!Submit(Release(i))
  BY DEF GoOn, Refuse, Release
<1>3. ServiceTypeOK'
  BY <1>1, <1>2, ServiceTypes, CommandsDiffer
<1>4. HandlerTypeOK'
  BY <1>1 DEF GoOn, SetHandler, HandlerTypeOK
<1>6. PICK l \in SUBSET Imports, t \in SUBSET Imports, s \in {"leaving", "gone"} :
         /\ leaving' = [leaving EXCEPT ![cl] = l] /\ tokens' = [tokens EXCEPT ![cl] = t]
         /\ conn' = [conn EXCEPT ![cl] = s]
         /\ greeted' \in {greeted, [greeted EXCEPT ![cl] = {}]}
  <2>1. {} \in SUBSET Imports /\ recorded \ rest \in SUBSET Imports
    OBVIOUS
  <2>. QED
    BY <2>1 DEF GoOn
<1>7. leaving' \in [Clients -> SUBSET Imports] /\ tokens' \in [Clients -> SUBSET Imports]
  BY <1>6, PutType DEF TypeOK
<1>8. conn' \in [Clients -> {"open", "leaving", "gone"}]
  BY <1>6, PutType DEF TypeOK
<1>9. greeted' \in [Clients -> SUBSET Greetings]
  <2>1. {} \in SUBSET Greetings
    OBVIOUS
  <2>. QED
    BY <1>6, <2>1, PutType DEF TypeOK
<1>. QED
  BY <1>3, <1>4, <1>7, <1>8, <1>9

\* Every step keeps the types.
LEMMA TypeStep ==
    ASSUME TypeOK, [Next]_vars
    PROVE  TypeOK'
<1>1. ServiceTypeOK /\ HandlerTypeOK /\ RobotTypeOK /\ PeerTypeOK /\ LeaveTypeOK
  BY DEF TypeOK, ServiceTypeOK, HandlerTypeOK, RobotTypeOK, PeerTypeOK, LeaveTypeOK
<1>2. /\ UNCHANGED serviceVars => ServiceTypeOK'
      /\ UNCHANGED handler => HandlerTypeOK'
      /\ UNCHANGED robotVars => RobotTypeOK'
      /\ UNCHANGED peerVars => PeerTypeOK'
      /\ UNCHANGED leaveVars => LeaveTypeOK'
  BY <1>1 DEF ServiceTypeOK, HandlerTypeOK, RobotTypeOK, PeerTypeOK, LeaveTypeOK,
              serviceVars, robotVars, peerVars, leaveVars
<1>. SUFFICES ServiceTypeOK' /\ HandlerTypeOK' /\ RobotTypeOK' /\ PeerTypeOK' /\ LeaveTypeOK'
  BY DEF TypeOK, ServiceTypeOK, HandlerTypeOK, RobotTypeOK, PeerTypeOK, LeaveTypeOK
<1>3. \A c \in Commands : \A s \in {"waiting", "releasing", "returned", "refused", "released"} :
         SetHandler(c, s) => HandlerTypeOK'
  BY <1>1, PutType DEF SetHandler, HandlerTypeOK
<1>4. ASSUME NEW cl \in Clients, Initialize(cl) \/ Initialized(cl) \/ SetLogLevel(cl)
      PROVE  /\ UNCHANGED serviceVars /\ UNCHANGED handler /\ UNCHANGED robotVars
             /\ UNCHANGED leaveVars /\ PeerTypeOK'
  BY <1>1, <1>4 DEF Initialize, Initialized, SetLogLevel, PeerTypeOK, Greetings
<1>5. ASSUME NEW i \in Imports, ImportLibrary(i)
      PROVE  /\ ServiceTypeOK' /\ HandlerTypeOK'
             /\ UNCHANGED robotVars /\ UNCHANGED peerVars /\ UNCHANGED leaveVars
  <2>1. \/ RequireHandshake(Owner[i], Import(i))
        \/ SetHandler(Import(i), "refused") /\ UNCHANGED serviceVars
    BY <1>5 DEF ImportLibrary, Import
  <2>. QED
    BY <1>1, <1>2, <1>3, <1>5, <2>1, HandshakeTypes, CommandsDiffer DEF ImportLibrary
<1>6. ASSUME NEW i \in Called, RunKeyword(i)
      PROVE  /\ ServiceTypeOK' /\ HandlerTypeOK'
             /\ UNCHANGED robotVars /\ UNCHANGED peerVars /\ UNCHANGED leaveVars
  BY <1>1, <1>6, HandshakeTypes, CommandsDiffer DEF RunKeyword, Keyword
<1>7. ASSUME NEW i \in Imports, FinalizeLibrary(i)
      PROVE  /\ ServiceTypeOK' /\ HandlerTypeOK'
             /\ UNCHANGED robotVars /\ UNCHANGED peerVars /\ UNCHANGED leaveVars
  BY <1>1, <1>7, CallTypes, CommandsDiffer DEF FinalizeLibrary, Finalize
<1>8. ASSUME NEW i \in Imports, ImportResumes(i)
      PROVE  /\ ServiceTypeOK' /\ HandlerTypeOK' /\ LeaveTypeOK'
             /\ UNCHANGED robotVars /\ UNCHANGED peerVars
  <2>1. UNCHANGED serviceVars \/ Service!Submit(Release(i))
    BY <1>8 DEF ImportResumes, ImportSucceeds, ImportFails, Refuse, Release
  <2>2. ServiceTypeOK'
    BY <1>1, <2>1, ServiceTypes, CommandsDiffer
  <2>3. \E s \in {"returned", "releasing", "released", "refused"} : SetHandler(Import(i), s)
    BY <1>8 DEF ImportResumes, ImportSucceeds, ImportFails, Import
  <2>4. tokens' \in {tokens, [tokens EXCEPT ![Owner[i]] = tokens[Owner[i]] \cup {i}]}
        /\ UNCHANGED <<disconnected, conn, leaving>>
    BY <1>8 DEF ImportResumes, ImportSucceeds, ImportFails, leaveVars
  <2>5. tokens[Owner[i]] \cup {i} \in SUBSET Imports
    BY <1>1, OwnersAreClients DEF LeaveTypeOK
  <2>6. LeaveTypeOK'
    BY <1>1, <2>4, <2>5, PutType DEF LeaveTypeOK
  <2>. QED
    BY <1>3, <1>8, <2>2, <2>3, <2>6, CommandsDiffer DEF ImportResumes
<1>9. ASSUME NEW i \in Imports, ImportReleased(i)
      PROVE  /\ HandlerTypeOK' /\ UNCHANGED serviceVars /\ UNCHANGED robotVars
             /\ UNCHANGED peerVars /\ UNCHANGED leaveVars
  BY <1>3, <1>9, CommandsDiffer DEF ImportReleased, Import
<1>10. ASSUME NEW i \in Imports, FinalizeResumes(i)
       PROVE  /\ HandlerTypeOK' /\ LeaveTypeOK'
              /\ UNCHANGED serviceVars /\ UNCHANGED robotVars /\ UNCHANGED peerVars
  <2>1. tokens' \in {tokens, [tokens EXCEPT ![Owner[i]] = tokens[Owner[i]] \ {i}]}
        /\ UNCHANGED <<disconnected, conn, leaving>>
    BY <1>10 DEF FinalizeResumes
  <2>2. tokens[Owner[i]] \ {i} \in SUBSET Imports
    BY <1>1, OwnersAreClients DEF LeaveTypeOK
  <2>3. LeaveTypeOK'
    BY <1>1, <2>1, <2>2, PutType DEF LeaveTypeOK
  <2>. QED
    BY <1>3, <1>10, <2>3, CommandsDiffer DEF FinalizeResumes, Finalize
<1>11. ASSUME NEW i \in Called, KeywordResumes(i)
       PROVE  /\ HandlerTypeOK' /\ UNCHANGED serviceVars /\ UNCHANGED robotVars
              /\ UNCHANGED peerVars /\ UNCHANGED leaveVars
  BY <1>3, <1>11, CommandsDiffer DEF KeywordResumes, Keyword
<1>12. ASSUME NEW cl \in Clients, FinalizeAll(cl) \/ FinalizeNext(cl)
       PROVE  /\ ServiceTypeOK' /\ HandlerTypeOK' /\ PeerTypeOK' /\ LeaveTypeOK'
              /\ UNCHANGED robotVars
  <2>1. PICK rest \in SUBSET Imports, recorded \in SUBSET Imports : GoOn(cl, rest, recorded)
    <3>1. tokens[cl] \in SUBSET Imports /\ leaving[cl] \in SUBSET Imports
      BY <1>1 DEF LeaveTypeOK
    <3>2. \A i : tokens[cl] \ {i} \in SUBSET Imports /\ leaving[cl] \ {i} \in SUBSET Imports
      BY <3>1
    <3>. QED
      BY <1>12, <3>1, <3>2 DEF FinalizeAll, FinalizeNext
  <2>2. UNCHANGED robotVars /\ level' = level
        /\ disconnected' \in {disconnected, [disconnected EXCEPT ![cl] = TRUE]}
    BY <1>12 DEF FinalizeAll, FinalizeNext
  <2>3. disconnected' \in [Clients -> BOOLEAN]
    BY <1>1, <2>2 DEF LeaveTypeOK
  <2>. QED
    BY <1>1, <2>1, <2>2, <2>3, LeaveTypes DEF LeaveTypeOK, PeerTypeOK
<1>13. ASSUME NEW c \in Commands, RunnerBegins(c)
       PROVE  /\ ServiceTypeOK' /\ RobotTypeOK'
              /\ UNCHANGED handler /\ UNCHANGED peerVars /\ UNCHANGED leaveVars
  <2>1. ServiceTypeOK'
    BY <1>1, <1>13, ServiceTypes DEF RunnerBegins
  <2>2. c = Command(c.op, c.lib) /\ c.lib \in Imports
    BY CommandIs
  <2>3. store' \subseteq store \cup {c.lib}
    BY <1>13, <2>2 DEF RunnerBegins, Execute, ImportInRobot, KeywordInRobot, FinalizeInRobot
  <2>4. torn' \in {torn, [torn EXCEPT ![c.lib] = IF c.lib \in store THEN torn[c.lib] + 1 ELSE torn[c.lib]]}
    BY <1>13, <2>2 DEF RunnerBegins, Execute, FinalizeInRobot
  <2>5. torn' \in [Imports -> Nat]
    BY <1>1, <2>2, <2>4 DEF RobotTypeOK
  <2>6. \E o \in {"done", "failed"} : outcome' = [outcome EXCEPT ![c] = o]
    <3>. USE <2>2
    <3>1. CASE level[Owner[c.lib]] = "unknown"
      BY <1>13, <3>1 DEF RunnerBegins, Execute
    <3>2. CASE level[Owner[c.lib]] = "known"
      BY <1>13, <3>2 DEF RunnerBegins, Execute, ImportInRobot, KeywordInRobot, FinalizeInRobot
    <3>. QED
      BY <1>13, <3>1, <3>2 DEF RunnerBegins, Execute
  <2>7. outcome' \in [Commands -> {"none", "done", "failed"}]
    BY <1>1, <2>6, PutType DEF RobotTypeOK
  <2>8. RobotTypeOK'
    BY <1>1, <2>2, <2>3, <2>5, <2>7 DEF RobotTypeOK
  <2>. QED
    BY <1>13, <2>1, <2>8 DEF RunnerBegins
<1>14. CASE RunnerGoesOn \/ ServerStops
  <2>1. Service!Shut \/ Service!Stop \/ \E c \in Commands : Service!Finish(c) \/ Service!Tell(c)
    BY <1>14 DEF RunnerGoesOn, ServerStops
  <2>2. UNCHANGED robotVars /\ UNCHANGED peerVars /\ UNCHANGED leaveVars /\ UNCHANGED handler
    BY <1>14 DEF RunnerGoesOn, ServerStops
  <2>. QED
    BY <1>1, <1>2, <2>1, <2>2, ServiceTypes
<1>15. CASE UNCHANGED vars
  BY <1>2, <1>15 DEF vars
<1>. QED
  BY <1>1, <1>2, <1>4, <1>5, <1>6, <1>7, <1>8, <1>9, <1>10, <1>11, <1>12, <1>13, <1>14, <1>15
     DEF Next, Resume, Runner

-----------------------------------------------------------------------------
(* What the steps do to one command, and to the others *)

LEMMA SubmitEffect ==
    ASSUME TypeOK, NEW c \in Commands, Service!Submit(c)
    PROVE  /\ mode' = mode /\ answer' = answer
           /\ state[c] = "new" /\ state'[c] = "waiting"
           /\ \A d \in Commands : d # c => state'[d] = state[d]
BY DEF TypeOK, Service!Submit

LEMMA HandshakeEffect ==
    ASSUME TypeOK, NEW c \in Commands,
           Call(c) \/ \E cl \in Clients : RequireHandshake(cl, c)
    PROVE  /\ mode' = mode /\ answer' = answer
           /\ \A d \in Commands : d # c => state'[d] = state[d] /\ handler'[d] = handler[d]
           /\ \/ state[c] = "new" /\ state'[c] = "waiting" /\ handler'[c] = "waiting"
              \/ state'[c] = state[c] /\ handler'[c] = "refused"
<1>1. \/ Service!Submit(c) /\ SetHandler(c, "waiting")
      \/ UNCHANGED serviceVars /\ SetHandler(c, "refused")
  BY DEF Call, RequireHandshake, Refuse
<1>2. \A s : SetHandler(c, s) => handler'[c] = s /\ \A d \in Commands : d # c => handler'[d] = handler[d]
  BY DEF TypeOK, SetHandler
<1>. QED
  BY <1>1, <1>2, SubmitEffect DEF serviceVars

\* A command begins, and what it does is its own library's affair.
Begun(c) ==
    /\ mode \in {"open", "last"} /\ mode' \in {mode, "over"} /\ answer' = answer
    /\ mode = "open" => mode' = "open"
    /\ state[c] = "waiting" /\ state'[c] = "running"
    /\ outcome'[c] \in {"done", "failed"}
    /\ \A d \in Commands : d # c => state'[d] = state[d] /\ outcome'[d] = outcome[d]
    /\ \A i \in Imports : i # c.lib => (i \in store' <=> i \in store) /\ torn'[i] = torn[i]
    /\ \/ /\ torn' = torn
          /\ \/ store' = store /\ (c.op = "import" => outcome'[c] = "failed")
             \/ c.op = "import" /\ c.lib \in store'
          /\ c.op \in {"finalize", "release"} => outcome'[c] = "failed"
       \/ /\ c.op \in {"finalize", "release"} /\ c.lib \notin store'
          /\ torn'[c.lib] = IF c.lib \in store THEN torn[c.lib] + 1 ELSE torn[c.lib]
    /\ c.op = "keyword" /\ c.lib \in store /\ level[Owner[c.lib]] = "known" => outcome'[c] = "done"
    /\ UNCHANGED <<handler, tokens, disconnected, conn, leaving, level>>

LEMMA BeginEffect ==
    ASSUME TypeOK, LineInv, NEW c \in Commands, RunnerBegins(c)
    PROVE  Begun(c)
<1>. USE DEF Begun
<1>1. /\ mode \in {"open", "last"} /\ mode' \in {mode, "over"} /\ answer' = answer
      /\ mode = "open" => mode' = "open"
      /\ state' = [state EXCEPT ![c] = "running"]
  BY DEF RunnerBegins, Service!Begin
<1>2. state[c] = "waiting"
  BY LineSteps DEF RunnerBegins
<1>3. c = Command(c.op, c.lib) /\ c.lib \in Imports
  BY CommandIs
<1>4. \/ outcome' = [outcome EXCEPT ![c] = "failed"] /\ UNCHANGED <<store, torn>>
      \/ /\ c.op = "import" /\ torn' = torn /\ store' = store \cup {c.lib}
         /\ \E o \in {"done", "failed"} : outcome' = [outcome EXCEPT ![c] = o]
      \/ /\ c.op = "keyword" /\ UNCHANGED <<store, torn>>
         /\ \E o \in {"done", "failed"} : outcome' = [outcome EXCEPT ![c] = o]
      \/ /\ c.op \in {"finalize", "release"} /\ store' = store \ {c.lib}
         /\ torn' = [torn EXCEPT ![c.lib] = IF c.lib \in store THEN torn[c.lib] + 1 ELSE torn[c.lib]]
         /\ outcome' = [outcome EXCEPT ![c] = "done"]
  <2>. USE <1>3
  <2>1. Execute(c)
    BY DEF RunnerBegins
  <2>2. CASE level[Owner[c.lib]] = "unknown"
    BY <2>1, <2>2 DEF Execute
  <2>3. CASE c.op = "import" /\ ImportInRobot(c.lib) /\ UNCHANGED torn
    BY <2>3 DEF ImportInRobot
  <2>4. CASE c.op = "keyword" /\ KeywordInRobot(c.lib) /\ UNCHANGED torn
    BY <2>4 DEF KeywordInRobot
  <2>5. CASE c.op \in {"finalize", "release"} /\ FinalizeInRobot(c.op, c.lib)
    BY <2>5 DEF FinalizeInRobot
  <2>. QED
    BY <2>1, <2>2, <2>3, <2>4, <2>5 DEF Execute
<1>5. state'[c] = "running" /\ \A d \in Commands : d # c => state'[d] = state[d]
  BY <1>1 DEF TypeOK
<1>6. outcome \in [Commands -> {"none", "done", "failed"}] /\ torn \in [Imports -> Nat]
  BY DEF TypeOK
<1>7. /\ outcome'[c] \in {"done", "failed"}
      /\ \A d \in Commands : d # c => outcome'[d] = outcome[d]
  BY <1>4, <1>6
<1>8. \A i \in Imports : i # c.lib => (i \in store' <=> i \in store) /\ torn'[i] = torn[i]
  BY <1>4, <1>6
<1>9. \/ /\ torn' = torn
         /\ \/ store' = store /\ (c.op = "import" => outcome'[c] = "failed")
            \/ c.op = "import" /\ c.lib \in store'
         /\ c.op \in {"finalize", "release"} => outcome'[c] = "failed"
      \/ /\ c.op \in {"finalize", "release"} /\ c.lib \notin store'
         /\ torn'[c.lib] = IF c.lib \in store THEN torn[c.lib] + 1 ELSE torn[c.lib]
  BY <1>3, <1>4, <1>6
<1>10. UNCHANGED <<handler, tokens, disconnected, conn, leaving, level>>
  BY DEF RunnerBegins, leaveVars, peerVars
<1>11. ASSUME c.op = "keyword", c.lib \in store, level[Owner[c.lib]] = "known"
       PROVE  outcome'[c] = "done"
  <2>1. outcome' = [outcome EXCEPT ![Command("keyword", c.lib)] = "done"]
    BY <1>11 DEF RunnerBegins, Execute, KeywordInRobot
  <2>. QED
    BY <1>3, <1>6, <1>11, <2>1
<1>. QED
  BY <1>1, <1>2, <1>5, <1>7, <1>8, <1>9, <1>10, <1>11

\* An import has succeeded: its client is there, or the library is to be finalized.
Imported(i) ==
    /\ mode' = mode /\ answer' = answer /\ outcome' = outcome /\ store' = store
    /\ torn' = torn /\ level' = level
    /\ UNCHANGED <<disconnected, conn, leaving>>
    /\ handler[Import(i)] = "waiting" /\ answer[Import(i)] = "outcome"
    /\ outcome[Import(i)] = "done"
    /\ \A d \in Commands : d # Import(i) => handler'[d] = handler[d]
    /\ \A d \in Commands : d # Release(i) => state'[d] = state[d]
    /\ \A cl \in Clients : cl # Owner[i] => tokens'[cl] = tokens[cl]
    /\ \/ /\ ~disconnected[Owner[i]] /\ handler'[Import(i)] = "returned" /\ state' = state
          /\ tokens'[Owner[i]] = tokens[Owner[i]] \cup {i}
       \/ /\ disconnected[Owner[i]] /\ tokens' = tokens
          /\ \/ handler'[Import(i)] = "releasing"
                /\ state[Release(i)] = "new" /\ state'[Release(i)] = "waiting"
             \/ handler'[Import(i)] = "released" /\ mode # "open" /\ state' = state

LEMMA ImportEffect ==
    ASSUME TypeOK, NEW i \in Imports, ImportSucceeds(i) /\ UNCHANGED <<robotVars, peerVars>>
    PROVE  Imported(i)
<1>. USE DEF Imported
<1>1. /\ outcome' = outcome /\ store' = store /\ torn' = torn /\ level' = level
      /\ UNCHANGED <<disconnected, conn, leaving>>
      /\ handler[Import(i)] = "waiting" /\ answer[Import(i)] = "outcome"
      /\ outcome[Import(i)] = "done"
  BY DEF ImportSucceeds, Answered, Succeeded, Import, robotVars, peerVars
<1>2. \/ /\ ~disconnected[Owner[i]] /\ SetHandler(Import(i), "returned") /\ UNCHANGED serviceVars
         /\ tokens' = [tokens EXCEPT ![Owner[i]] = tokens[Owner[i]] \cup {i}]
      \/ /\ disconnected[Owner[i]] /\ tokens' = tokens
         /\ \/ SetHandler(Import(i), "releasing") /\ Service!Submit(Release(i))
            \/ SetHandler(Import(i), "released") /\ mode # "open" /\ UNCHANGED serviceVars
  BY DEF ImportSucceeds, Refuse, Import, Release
<1>3. \A s : SetHandler(Import(i), s) =>
         /\ handler'[Import(i)] = s
         /\ \A d \in Commands : d # Import(i) => handler'[d] = handler[d]
  BY CommandsDiffer DEF TypeOK, SetHandler
<1>4. UNCHANGED serviceVars => mode' = mode /\ answer' = answer /\ state' = state
  BY DEF serviceVars
<1>5. tokens' = [tokens EXCEPT ![Owner[i]] = tokens[Owner[i]] \cup {i}] =>
         /\ tokens'[Owner[i]] = tokens[Owner[i]] \cup {i}
         /\ \A cl \in Clients : cl # Owner[i] => tokens'[cl] = tokens[cl]
  BY OwnersAreClients DEF TypeOK
<1>6. Release(i) \in Commands
  BY CommandsDiffer
<1>. QED
  BY <1>1, <1>2, <1>3, <1>4, <1>5, <1>6, SubmitEffect

\* One step of the end of a connection, with `rest` before it.
GoneOn(cl, rest, recorded) ==
    /\ mode' = mode /\ answer' = answer
    /\ conn'[cl] \in {"leaving", "gone"} /\ tokens'[cl] \subseteq recorded
    /\ leaving'[cl] \subseteq rest
    /\ conn'[cl] = "leaving" => leaving'[cl] = rest
    /\ conn'[cl] = "gone" => tokens'[cl] = recorded \ rest
    /\ mode = "open" /\ conn'[cl] = "gone" => rest = {}
    /\ conn'[cl] = "leaving" => tokens'[cl] = recorded
    /\ \A d \in Clients : d # cl => /\ conn'[d] = conn[d] /\ leaving'[d] = leaving[d]
                                   /\ tokens'[d] = tokens[d]
    /\ \/ state' = state /\ handler' = handler
       \/ \E i \in rest : /\ state[Release(i)] = "new" /\ state'[Release(i)] = "waiting"
                           /\ \A d \in Commands : d # Release(i) =>
                                 state'[d] = state[d] /\ handler'[d] = handler[d]

LEMMA LeaveEffect ==
    ASSUME TypeOK, NEW cl \in Clients, NEW rest \in SUBSET Imports, NEW recorded \in SUBSET Imports,
           GoOn(cl, rest, recorded)
    PROVE  GoneOn(cl, rest, recorded)
<1>. USE DEF GoneOn
<1>1. CASE \E i \in rest : /\ Service!Submit(Release(i))
                           /\ SetHandler(Release(i), "waiting")
                           /\ leaving' = [leaving EXCEPT ![cl] = rest]
                           /\ tokens' = [tokens EXCEPT ![cl] = recorded]
                           /\ conn' = [conn EXCEPT ![cl] = "leaving"]
  <2>1. PICK i \in rest : /\ Service!Submit(Release(i))
                          /\ SetHandler(Release(i), "waiting")
                          /\ leaving' = [leaving EXCEPT ![cl] = rest]
                          /\ tokens' = [tokens EXCEPT ![cl] = recorded]
                          /\ conn' = [conn EXCEPT ![cl] = "leaving"]
    BY <1>1
  <2>2. Release(i) \in Commands
    BY CommandsDiffer
  <2>3. /\ conn'[cl] = "leaving" /\ leaving'[cl] = rest /\ tokens'[cl] = recorded
        /\ \A d \in Clients : d # cl => /\ conn'[d] = conn[d] /\ leaving'[d] = leaving[d]
                                       /\ tokens'[d] = tokens[d]
    BY <2>1 DEF TypeOK
  <2>4. \A d \in Commands : d # Release(i) => handler'[d] = handler[d]
    BY <2>1, <2>2 DEF TypeOK, SetHandler
  <2>. QED
    BY <2>1, <2>2, <2>3, <2>4, SubmitEffect
<1>2. CASE /\ rest = {} \/ mode # "open"
           /\ UNCHANGED serviceVars
           /\ leaving' = [leaving EXCEPT ![cl] = {}]
           /\ tokens' = [tokens EXCEPT ![cl] = recorded \ rest]
           /\ conn' = [conn EXCEPT ![cl] = "gone"]
           /\ UNCHANGED handler
  <2>1. /\ conn'[cl] = "gone" /\ leaving'[cl] = {} /\ tokens'[cl] = recorded \ rest
        /\ \A d \in Clients : d # cl => /\ conn'[d] = conn[d] /\ leaving'[d] = leaving[d]
                                       /\ tokens'[d] = tokens[d]
    BY <1>2 DEF TypeOK
  <2>. QED
    BY <1>2, <2>1 DEF serviceVars
<1>. QED
  BY <1>1, <1>2 DEF GoOn, Refuse, Release

\* A request that becomes a command.
Requests(c) ==
    \/ \E i \in Imports : c = Import(i) /\ ImportLibrary(i)
    \/ \E i \in Called : c = Keyword(i) /\ RunKeyword(i)
    \/ \E i \in Imports : c = Finalize(i) /\ FinalizeLibrary(i)

\* A request is submitted, or refused.
Requested(c) ==
    /\ mode' = mode /\ answer' = answer
    /\ UNCHANGED <<outcome, store, torn, level, tokens, disconnected, conn, leaving>>
    /\ handler[c] = "new" /\ c.op # "release"
    /\ c.op \in {"keyword", "finalize"} => handler[Import(c.lib)] = "returned"
    /\ \A d \in Commands : d # c => state'[d] = state[d] /\ handler'[d] = handler[d]
    /\ \/ state[c] = "new" /\ state'[c] = "waiting" /\ handler'[c] = "waiting"
       \/ state'[c] = state[c] /\ handler'[c] = "refused"

LEMMA RequestEffect ==
    ASSUME TypeOK, NEW c \in Commands, Requests(c)
    PROVE  Requested(c)
<1>. USE DEF Requested
<1>1. /\ UNCHANGED <<outcome, store, torn, level, tokens, disconnected, conn, leaving>>
      /\ handler[c] = "new" /\ c.op # "release"
      /\ c.op \in {"keyword", "finalize"} => handler[Import(c.lib)] = "returned"
  <2>1. CASE \E i \in Imports : c = Import(i) /\ ImportLibrary(i)
    BY <2>1 DEF ImportLibrary, Import, Command, robotVars, peerVars, leaveVars
  <2>2. CASE \E i \in Called : c = Keyword(i) /\ RunKeyword(i)
    BY <2>2 DEF RunKeyword, Known, Import, Keyword, Command, robotVars, peerVars, leaveVars
  <2>3. CASE \E i \in Imports : c = Finalize(i) /\ FinalizeLibrary(i)
    BY <2>3 DEF FinalizeLibrary, Known, Import, Finalize, Command, robotVars, peerVars, leaveVars
  <2>. QED
    BY <2>1, <2>2, <2>3 DEF Requests
<1>2. \/ Call(c) \/ \E cl \in Clients : RequireHandshake(cl, c)
      \/ SetHandler(c, "refused") /\ UNCHANGED serviceVars
  BY OwnersAreClients, CalledAreImports
     DEF Requests, ImportLibrary, RunKeyword, FinalizeLibrary, Import, Keyword, Finalize
<1>3. SetHandler(c, "refused") =>
         handler'[c] = "refused" /\ \A d \in Commands : d # c => handler'[d] = handler[d]
  BY DEF TypeOK, SetHandler
<1>. QED
  BY <1>1, <1>2, <1>3, HandshakeEffect DEF serviceVars

\* The end of a connection begins or goes on.
Ended(cl) ==
    /\ mode' = mode /\ answer' = answer /\ UNCHANGED <<outcome, store, torn, level>>
    /\ conn'[cl] \in {"leaving", "gone"} /\ disconnected'[cl]
    /\ tokens'[cl] \subseteq tokens[cl] /\ leaving'[cl] \subseteq tokens[cl] \cup leaving[cl]
    /\ conn'[cl] = "leaving" => tokens'[cl] \subseteq leaving'[cl]
    /\ conn'[cl] = "gone" => tokens'[cl] = {}
    /\ \A i \in tokens[cl] : i \notin tokens'[cl] => Settled(i)
    /\ \A d \in Clients : d # cl => /\ conn'[d] = conn[d] /\ leaving'[d] = leaving[d]
                                   /\ tokens'[d] = tokens[d]
                                   /\ disconnected'[d] = disconnected[d]
    /\ \/ state' = state /\ handler' = handler
       \/ \E i \in Imports \cap (tokens[cl] \cup leaving[cl]) :
             /\ state[Release(i)] = "new" /\ state'[Release(i)] = "waiting"
             /\ \A d \in Commands : d # Release(i) =>
                   state'[d] = state[d] /\ handler'[d] = handler[d]

\* What is taken out of the tokens at the end of a connection is settled.
LEMMA EndEffect ==
    ASSUME TypeOK, CommandInv, LeaveInv, NEW cl \in Clients, FinalizeAll(cl) \/ FinalizeNext(cl)
    PROVE  Ended(cl)
<1>. USE DEF Ended
<1>0. tokens[cl] \in SUBSET Imports /\ leaving[cl] \in SUBSET Imports
  BY DEF TypeOK
<1>1. CASE FinalizeAll(cl)
  <2>1. GoOn(cl, tokens[cl], tokens[cl]) /\ UNCHANGED <<outcome, store, torn, level>>
    BY <1>1 DEF FinalizeAll, robotVars
  <2>2. disconnected'[cl] /\ \A d \in Clients : d # cl => disconnected'[d] = disconnected[d]
    BY <1>1 DEF FinalizeAll, TypeOK
  <2>3. GoneOn(cl, tokens[cl], tokens[cl])
    BY <1>0, <2>1, LeaveEffect
  <2>. QED
    BY <1>0, <2>1, <2>2, <2>3 DEF Settled, GoneOn, Release
<1>2. CASE FinalizeNext(cl)
  <2>1. PICK i \in leaving[cl] : /\ Answered(Release(i))
                                 /\ GoOn(cl, leaving[cl] \ {i}, tokens[cl] \ {i})
    BY <1>2 DEF FinalizeNext, Release
  <2>2. conn[cl] = "leaving" /\ UNCHANGED <<outcome, store, torn, level, disconnected>>
    BY <1>2 DEF FinalizeNext, robotVars
  <2>3. disconnected[cl] /\ tokens[cl] \subseteq leaving[cl]
    BY <2>2 DEF LeaveInv, Connections
  <2>4. Settled(i)
    <3>1. Release(i) \in Commands
      BY <1>0, CommandsDiffer
    <3>2. answer[Release(i)] \in {"outcome", "shutdown"}
      BY <2>1, <3>1 DEF TypeOK, Answered
    <3>. QED
      BY <3>1, <3>2 DEF CommandInv, Answers, Outcomes, Settled, Ran
  <2>5. leaving[cl] \ {i} \in SUBSET Imports /\ tokens[cl] \ {i} \in SUBSET Imports
    BY <1>0
  <2>6. GoneOn(cl, leaving[cl] \ {i}, tokens[cl] \ {i})
    BY <2>1, <2>5, LeaveEffect
  <2>7. \A j \in tokens[cl] : j \notin tokens'[cl] => Settled(j)
    BY <2>4, <2>6 DEF Settled, GoneOn
  <2>. QED
    BY <1>0, <2>1, <2>2, <2>3, <2>6, <2>7 DEF GoneOn, TypeOK
<1>. QED
  BY <1>1, <1>2

\* The library is off its client's list only if it has been finalized.
FinalizeResumed(i) ==
    /\ UNCHANGED <<mode, state, answer, outcome, store, torn, disconnected, conn, leaving>>
    /\ handler'[Finalize(i)] = "returned"
    /\ \A d \in Commands : d # Finalize(i) => handler'[d] = handler[d]
    /\ \A cl \in Clients : tokens'[cl] \subseteq tokens[cl]
    /\ \A cl \in Clients : \A j \in tokens[cl] :
          j \notin tokens'[cl] => j = i /\ outcome[Finalize(i)] = "done"

LEMMA FinalizeEffect ==
    ASSUME TypeOK, NEW i \in Imports, FinalizeResumes(i)
    PROVE  FinalizeResumed(i)
<1>1. /\ UNCHANGED <<mode, state, answer, outcome, store, torn, disconnected, conn, leaving>>
      /\ SetHandler(Finalize(i), "returned")
      /\ \/ tokens' = tokens
         \/ /\ tokens' = [tokens EXCEPT ![Owner[i]] = tokens[Owner[i]] \ {i}]
            /\ outcome[Finalize(i)] = "done"
  BY DEF FinalizeResumes, Succeeded, Finalize, serviceVars, robotVars
<1>2. /\ handler'[Finalize(i)] = "returned"
      /\ \A d \in Commands : d # Finalize(i) => handler'[d] = handler[d]
  BY <1>1, CommandsDiffer DEF TypeOK, SetHandler
<1>3. Owner[i] \in Clients /\ tokens \in [Clients -> SUBSET Imports]
  BY OwnersAreClients DEF TypeOK
<1>. QED
  BY <1>1, <1>2, <1>3 DEF FinalizeResumed

\* A coroutine goes on, and only its own state changes.
Resumed(c, s) ==
    /\ UNCHANGED <<mode, state, answer, outcome, store, torn, tokens, disconnected, conn, leaving>>
    /\ handler[c] \in {"waiting", "releasing"} /\ handler'[c] = s
    /\ \A d \in Commands : d # c => handler'[d] = handler[d]

LEMMA ResumeEffect ==
    ASSUME TypeOK
    PROVE  /\ \A i \in Imports :
                 ImportFails(i) /\ UNCHANGED <<robotVars, peerVars>> => Resumed(Import(i), "refused")
           /\ \A i \in Imports : ImportReleased(i) => Resumed(Import(i), "released")
           /\ \A i \in Called : KeywordResumes(i) => Resumed(Keyword(i), "returned")
<1>1. \A c \in Commands : \A s : SetHandler(c, s) =>
         handler'[c] = s /\ \A d \in Commands : d # c => handler'[d] = handler[d]
  BY DEF TypeOK, SetHandler
<1>2. ASSUME NEW i \in Imports, ImportFails(i) /\ UNCHANGED <<robotVars, peerVars>>
      PROVE  Resumed(Import(i), "refused")
  BY <1>1, <1>2, CommandsDiffer
     DEF Resumed, ImportFails, Answered, Import, serviceVars, robotVars, leaveVars
<1>3. ASSUME NEW i \in Imports, ImportReleased(i)
      PROVE  Resumed(Import(i), "released")
  BY <1>1, <1>3, CommandsDiffer
     DEF Resumed, ImportReleased, Import, serviceVars, robotVars, leaveVars
<1>4. ASSUME NEW i \in Called, KeywordResumes(i)
      PROVE  Resumed(Keyword(i), "returned")
  BY <1>1, <1>4, CommandsDiffer
     DEF Resumed, KeywordResumes, Answered, Keyword, serviceVars, robotVars, leaveVars
<1>. QED
  BY <1>2, <1>3, <1>4

\* The runner goes on with the commands that it has begun, or comes to its end.
Served ==
    /\ UNCHANGED <<outcome, store, torn, level, tokens, disconnected, conn, leaving, handler>>
    /\ mode \in {"over", "shut"} => mode' \in {"over", "shut"}
    /\ mode # "open" => mode' # "open"
    /\ \A d \in Commands :
          \/ state'[d] = state[d]
          \/ state[d] = "running" /\ state'[d] = "finished"
          \/ state[d] = "waiting" /\ state'[d] = "dropped" /\ mode' = "shut"
    /\ \A d \in Commands :
          \/ answer'[d] = answer[d]
          \/ answer'[d] = "outcome" /\ state'[d] = "finished"
          \/ answer'[d] = "shutdown" /\ state[d] = "dropped" /\ mode' = mode

LEMMA ServeEffect ==
    ASSUME TypeOK, RunnerGoesOn \/ ServerStops
    PROVE  Served
<1>1. UNCHANGED <<outcome, store, torn, level, tokens, disconnected, conn, leaving, handler>>
  BY DEF RunnerGoesOn, ServerStops, robotVars, peerVars, leaveVars
<1>2. CASE Service!Stop
  BY <1>1, <1>2 DEF Served, Service!Stop
<1>3. CASE Service!Shut
  BY <1>1, <1>3 DEF Served, Service!Shut
<1>4. ASSUME NEW c \in Commands, Service!Finish(c) \/ Service!Tell(c)
      PROVE  Served
  <2>1. state \in [Commands -> {"new", "waiting", "running", "finished", "dropped"}]
        /\ answer \in [Commands -> {"none", "outcome", "shutdown"}]
    BY DEF TypeOK
  <2>. QED
    BY <1>1, <1>4, <2>1 DEF Served, Service!Finish, Service!Tell
<1>. QED
  BY <1>2, <1>3, <1>4 DEF RunnerGoesOn, ServerStops

LEMMA Kinds ==
    /\ \A i \in Imports : /\ Import(i) \in Commands /\ Import(i).op = "import" /\ Import(i).lib = i
                          /\ Finalize(i) \in Commands /\ Finalize(i).op = "finalize"
                          /\ Finalize(i).lib = i
                          /\ Release(i) \in Commands /\ Release(i).op = "release" /\ Release(i).lib = i
    /\ \A i \in Called : /\ i \in Imports
                         /\ Keyword(i) \in Commands /\ Keyword(i).op = "keyword" /\ Keyword(i).lib = i
    /\ \A c \in Commands : /\ c.lib \in Imports
                           /\ \/ c.op = "import" /\ c = Import(c.lib)
                              \/ c.op = "keyword" /\ c = Keyword(c.lib) /\ c.lib \in Called
                              \/ c.op = "finalize" /\ c = Finalize(c.lib)
                              \/ c.op = "release" /\ c = Release(c.lib)
<1>1. \A i \in Imports : /\ Import(i).op = "import" /\ Import(i).lib = i
                       /\ Finalize(i).op = "finalize" /\ Finalize(i).lib = i
                       /\ Release(i).op = "release" /\ Release(i).lib = i
                       /\ Keyword(i).op = "keyword" /\ Keyword(i).lib = i
  BY DEF Import, Keyword, Finalize, Release, Command
<1>2. \A c \in Commands : /\ c.lib \in Imports
                         /\ \/ c.op = "import" /\ c = Import(c.lib)
                            \/ c.op = "keyword" /\ c = Keyword(c.lib) /\ c.lib \in Called
                            \/ c.op = "finalize" /\ c = Finalize(c.lib)
                            \/ c.op = "release" /\ c = Release(c.lib)
  BY CommandIs DEF Import, Keyword, Finalize, Release
<1>. QED
  BY <1>1, <1>2, CommandsDiffer, CalledAreImports

LEMMA Ranges ==
    ASSUME TypeOK
    PROVE  /\ \A c \in Commands : /\ outcome[c] \in {"none", "done", "failed"}
                                  /\ answer[c] \in {"none", "outcome", "shutdown"}
           /\ \A i \in Imports : torn[i] \in Nat /\ Owner[i] \in Clients
           /\ \A cl \in Clients : tokens[cl] \subseteq Imports /\ leaving[cl] \subseteq Imports
           /\ "unknown" \notin Levels => \A cl \in Clients : level[cl] = "known"
<1>1. \A c \in Commands : /\ outcome[c] \in {"none", "done", "failed"}
                         /\ answer[c] \in {"none", "outcome", "shutdown"}
  BY DEF TypeOK
<1>2. \A i \in Imports : torn[i] \in Nat /\ Owner[i] \in Clients
  BY OwnersAreClients DEF TypeOK
<1>3. \A cl \in Clients : tokens[cl] \subseteq Imports /\ leaving[cl] \subseteq Imports
  BY DEF TypeOK
<1>4. "unknown" \notin Levels => \A cl \in Clients : level[cl] = "known"
  <2>1. level \in [Clients -> {"known"} \cup Levels]
    BY DEF TypeOK
  <2>. QED
    BY <2>1, LevelsAreLevels
<1>. QED
  BY <1>1, <1>2, <1>3, <1>4

-----------------------------------------------------------------------------
(* The steps and the invariants *)

\* A command has an outcome once it has begun, and an answer once it has one.
LEMMA CommandStep ==
    ASSUME EndpointInv, [Next]_vars
    PROVE  CommandInv'
<1>1. ASSUME NEW cl \in Clients, Initialize(cl) \/ Initialized(cl) \/ SetLogLevel(cl)
      PROVE  CommandInv'
  BY <1>1 DEF Initialize, Initialized, SetLogLevel, EndpointInv, CommandInv, Outcomes, Answers,
     NewHandlers, Ran, Settled, serviceVars, robotVars, leaveVars
<1>2. ASSUME NEW c \in Commands, Requests(c)
      PROVE  CommandInv'
  <2>1. Requested(c)
    BY <1>2, RequestEffect DEF EndpointInv
  <2>2. Outcomes'
    BY <2>1, Kinds, Ranges DEF Requested, EndpointInv, CommandInv, Outcomes, Ran
  <2>3. Answers'
    BY <2>1, Kinds, Ranges DEF Requested, EndpointInv, CommandInv, Answers
  <2>4. NewHandlers'
    BY <2>1, Kinds, Ranges DEF Requested, EndpointInv, CommandInv, NewHandlers
  <2>. QED
    BY <2>2, <2>3, <2>4 DEF CommandInv
<1>3. ASSUME NEW i \in Imports, ImportSucceeds(i) /\ UNCHANGED <<robotVars, peerVars>>
      PROVE  CommandInv'
  <2>1. Imported(i)
    BY <1>3, ImportEffect DEF EndpointInv
  <2>2. Outcomes'
    BY <2>1, Kinds, Ranges DEF Imported, EndpointInv, CommandInv, Outcomes, Ran
  <2>3. Answers'
    BY <2>1, Kinds, Ranges DEF Imported, EndpointInv, CommandInv, Answers
  <2>4. NewHandlers'
    BY <2>1, Kinds, Ranges DEF Imported, EndpointInv, CommandInv, NewHandlers
  <2>. QED
    BY <2>2, <2>3, <2>4 DEF CommandInv
<1>4. ASSUME NEW i \in Imports, ImportFails(i) /\ UNCHANGED <<robotVars, peerVars>>
      PROVE  CommandInv'
  <2>1. Resumed(Import(i), "refused")
    BY <1>4, ResumeEffect DEF EndpointInv
  <2>2. Outcomes'
    BY <2>1, Kinds, Ranges DEF Resumed, EndpointInv, CommandInv, Outcomes, Ran
  <2>3. Answers'
    BY <2>1, Kinds, Ranges DEF Resumed, EndpointInv, CommandInv, Answers
  <2>4. NewHandlers'
    BY <2>1, Kinds, Ranges DEF Resumed, EndpointInv, CommandInv, NewHandlers
  <2>. QED
    BY <2>2, <2>3, <2>4 DEF CommandInv
<1>5. ASSUME NEW i \in Imports, ImportReleased(i)
      PROVE  CommandInv'
  <2>1. Resumed(Import(i), "released")
    BY <1>5, ResumeEffect DEF EndpointInv
  <2>2. Outcomes'
    BY <2>1, Kinds, Ranges DEF Resumed, EndpointInv, CommandInv, Outcomes, Ran
  <2>3. Answers'
    BY <2>1, Kinds, Ranges DEF Resumed, EndpointInv, CommandInv, Answers
  <2>4. NewHandlers'
    BY <2>1, Kinds, Ranges DEF Resumed, EndpointInv, CommandInv, NewHandlers
  <2>. QED
    BY <2>2, <2>3, <2>4 DEF CommandInv
<1>6. ASSUME NEW i \in Imports, FinalizeResumes(i)
      PROVE  CommandInv'
  <2>1. FinalizeResumed(i)
    BY <1>6, FinalizeEffect DEF EndpointInv
  <2>2. Outcomes'
    BY <2>1, Kinds, Ranges DEF FinalizeResumed, EndpointInv, CommandInv, Outcomes, Ran
  <2>3. Answers'
    BY <2>1, Kinds, Ranges DEF FinalizeResumed, EndpointInv, CommandInv, Answers
  <2>4. NewHandlers'
    BY <2>1, Kinds, Ranges DEF FinalizeResumed, EndpointInv, CommandInv, NewHandlers
  <2>. QED
    BY <2>2, <2>3, <2>4 DEF CommandInv
<1>7. ASSUME NEW i \in Called, KeywordResumes(i)
      PROVE  CommandInv'
  <2>1. Resumed(Keyword(i), "returned")
    BY <1>7, ResumeEffect DEF EndpointInv
  <2>2. Outcomes'
    BY <2>1, Kinds, Ranges DEF Resumed, EndpointInv, CommandInv, Outcomes, Ran
  <2>3. Answers'
    BY <2>1, Kinds, Ranges DEF Resumed, EndpointInv, CommandInv, Answers
  <2>4. NewHandlers'
    BY <2>1, Kinds, Ranges DEF Resumed, EndpointInv, CommandInv, NewHandlers
  <2>. QED
    BY <2>2, <2>3, <2>4 DEF CommandInv
<1>8. ASSUME NEW cl \in Clients, FinalizeAll(cl) \/ FinalizeNext(cl)
      PROVE  CommandInv'
  <2>1. Ended(cl)
    BY <1>8, EndEffect DEF EndpointInv
  <2>2. Outcomes'
    BY <2>1, Kinds, Ranges DEF Ended, EndpointInv, CommandInv, Outcomes, Ran
  <2>3. Answers'
    BY <2>1, Kinds, Ranges DEF Ended, EndpointInv, CommandInv, Answers
  <2>4. NewHandlers'
    BY <2>1, Kinds, Ranges DEF Ended, EndpointInv, CommandInv, NewHandlers
  <2>. QED
    BY <2>2, <2>3, <2>4 DEF CommandInv
<1>9. ASSUME NEW c \in Commands, RunnerBegins(c)
      PROVE  CommandInv'
  <2>1. Begun(c)
    BY <1>9, BeginEffect DEF EndpointInv
  <2>2. Outcomes'
    BY <2>1, Kinds, Ranges DEF Begun, EndpointInv, CommandInv, Outcomes, Ran
  <2>3. Answers'
    BY <2>1, Kinds, Ranges DEF Begun, EndpointInv, CommandInv, Answers
  <2>4. NewHandlers'
    BY <2>1, Kinds, Ranges DEF Begun, EndpointInv, CommandInv, NewHandlers
  <2>. QED
    BY <2>2, <2>3, <2>4 DEF CommandInv
<1>10. CASE RunnerGoesOn \/ ServerStops
  <2>1. Served
    BY <1>10, ServeEffect DEF EndpointInv
  <2>2. Outcomes'
    BY <2>1, Kinds, Ranges DEF Served, EndpointInv, CommandInv, Outcomes, Ran
  <2>3. Answers'
    BY <2>1, Kinds, Ranges DEF Served, EndpointInv, CommandInv, Answers
  <2>4. NewHandlers'
    BY <2>1, Kinds, Ranges DEF Served, EndpointInv, CommandInv, NewHandlers
  <2>. QED
    BY <2>2, <2>3, <2>4 DEF CommandInv
<1>11. CASE UNCHANGED vars
  BY <1>11 DEF vars, EndpointInv, CommandInv, Outcomes, Answers, NewHandlers, Ran, Settled,
     serviceVars, robotVars, leaveVars
<1>. QED
  BY <1>1, <1>2, <1>3, <1>4, <1>5, <1>6, <1>7, <1>8, <1>9, <1>10, <1>11, CommandsDiffer
     DEF Next, Requests, Resume, Runner, ImportResumes

\* A library that leaves the store does not come back.
LEMMA StoreStep ==
    ASSUME EndpointInv, [Next]_vars
    PROVE  StoreInv'
<1>1. ASSUME NEW cl \in Clients, Initialize(cl) \/ Initialized(cl) \/ SetLogLevel(cl)
      PROVE  StoreInv'
  BY <1>1 DEF Initialize, Initialized, SetLogLevel, EndpointInv, StoreInv, Unimported,
     FinalizedOnce, Finalized, Missing, Failures, Ran, Settled, serviceVars, robotVars,
     leaveVars
<1>2. ASSUME NEW c \in Commands, Requests(c)
      PROVE  StoreInv'
  <2>1. Requested(c)
    BY <1>2, RequestEffect DEF EndpointInv
  <2>2. Unimported'
    BY <2>1, Kinds, Ranges DEF Requested, EndpointInv, CommandInv, Outcomes, NewHandlers,
       StoreInv, Unimported, ImportInv, Returned, LeaveInv, Recorded, Ran
  <2>3. FinalizedOnce'
    BY <2>1, Kinds, Ranges DEF Requested, EndpointInv, StoreInv, Unimported, FinalizedOnce, Ran
  <2>4. Finalized'
    BY <2>1, Kinds, Ranges DEF Requested, EndpointInv, CommandInv, Outcomes, StoreInv,
       Unimported, Finalized, Ran
  <2>5. Missing'
    BY <2>1, Kinds, Ranges DEF Requested, EndpointInv, CommandInv, Outcomes, StoreInv, Missing,
       Ran
  <2>6. Failures'
    BY <2>1, Kinds, Ranges DEF Requested, EndpointInv, CommandInv, Outcomes, StoreInv,
       Unimported, Missing, Failures, Ran
  <2>. QED
    BY <2>2, <2>3, <2>4, <2>5, <2>6 DEF StoreInv
<1>3. ASSUME NEW i \in Imports, ImportSucceeds(i) /\ UNCHANGED <<robotVars, peerVars>>
      PROVE  StoreInv'
  <2>1. Imported(i)
    BY <1>3, ImportEffect DEF EndpointInv
  <2>2. Unimported'
    BY <2>1, Kinds, Ranges DEF Imported, EndpointInv, CommandInv, Outcomes, NewHandlers,
       StoreInv, Unimported, ImportInv, Returned, LeaveInv, Recorded, Ran
  <2>3. FinalizedOnce'
    BY <2>1, Kinds, Ranges DEF Imported, EndpointInv, StoreInv, Unimported, FinalizedOnce, Ran
  <2>4. Finalized'
    BY <2>1, Kinds, Ranges DEF Imported, EndpointInv, CommandInv, Outcomes, StoreInv,
       Unimported, Finalized, Ran
  <2>5. Missing'
    BY <2>1, Kinds, Ranges DEF Imported, EndpointInv, CommandInv, Outcomes, StoreInv, Missing,
       Ran
  <2>6. Failures'
    BY <2>1, Kinds, Ranges DEF Imported, EndpointInv, CommandInv, Outcomes, StoreInv,
       Unimported, Missing, Failures, Ran
  <2>. QED
    BY <2>2, <2>3, <2>4, <2>5, <2>6 DEF StoreInv
<1>4. ASSUME NEW i \in Imports, ImportFails(i) /\ UNCHANGED <<robotVars, peerVars>>
      PROVE  StoreInv'
  <2>1. Resumed(Import(i), "refused")
    BY <1>4, ResumeEffect DEF EndpointInv
  <2>2. Unimported'
    BY <2>1, Kinds, Ranges DEF Resumed, EndpointInv, CommandInv, Outcomes, NewHandlers,
       StoreInv, Unimported, ImportInv, Returned, LeaveInv, Recorded, Ran
  <2>3. FinalizedOnce'
    BY <2>1, Kinds, Ranges DEF Resumed, EndpointInv, StoreInv, Unimported, FinalizedOnce, Ran
  <2>4. Finalized'
    BY <2>1, Kinds, Ranges DEF Resumed, EndpointInv, CommandInv, Outcomes, StoreInv, Unimported,
       Finalized, Ran
  <2>5. Missing'
    BY <2>1, Kinds, Ranges DEF Resumed, EndpointInv, CommandInv, Outcomes, StoreInv, Missing,
       Ran
  <2>6. Failures'
    BY <2>1, Kinds, Ranges DEF Resumed, EndpointInv, CommandInv, Outcomes, StoreInv, Unimported,
       Missing, Failures, Ran
  <2>. QED
    BY <2>2, <2>3, <2>4, <2>5, <2>6 DEF StoreInv
<1>5. ASSUME NEW i \in Imports, ImportReleased(i)
      PROVE  StoreInv'
  <2>1. Resumed(Import(i), "released")
    BY <1>5, ResumeEffect DEF EndpointInv
  <2>2. Unimported'
    BY <2>1, Kinds, Ranges DEF Resumed, EndpointInv, CommandInv, Outcomes, NewHandlers,
       StoreInv, Unimported, ImportInv, Returned, LeaveInv, Recorded, Ran
  <2>3. FinalizedOnce'
    BY <2>1, Kinds, Ranges DEF Resumed, EndpointInv, StoreInv, Unimported, FinalizedOnce, Ran
  <2>4. Finalized'
    BY <2>1, Kinds, Ranges DEF Resumed, EndpointInv, CommandInv, Outcomes, StoreInv, Unimported,
       Finalized, Ran
  <2>5. Missing'
    BY <2>1, Kinds, Ranges DEF Resumed, EndpointInv, CommandInv, Outcomes, StoreInv, Missing,
       Ran
  <2>6. Failures'
    BY <2>1, Kinds, Ranges DEF Resumed, EndpointInv, CommandInv, Outcomes, StoreInv, Unimported,
       Missing, Failures, Ran
  <2>. QED
    BY <2>2, <2>3, <2>4, <2>5, <2>6 DEF StoreInv
<1>6. ASSUME NEW i \in Imports, FinalizeResumes(i)
      PROVE  StoreInv'
  <2>1. FinalizeResumed(i)
    BY <1>6, FinalizeEffect DEF EndpointInv
  <2>2. Unimported'
    BY <2>1, Kinds, Ranges DEF FinalizeResumed, EndpointInv, CommandInv, Outcomes, NewHandlers,
       StoreInv, Unimported, ImportInv, Returned, LeaveInv, Recorded, Ran
  <2>3. FinalizedOnce'
    BY <2>1, Kinds, Ranges DEF FinalizeResumed, EndpointInv, StoreInv, Unimported,
       FinalizedOnce, Ran
  <2>4. Finalized'
    BY <2>1, Kinds, Ranges DEF FinalizeResumed, EndpointInv, CommandInv, Outcomes, StoreInv,
       Unimported, Finalized, Ran
  <2>5. Missing'
    BY <2>1, Kinds, Ranges DEF FinalizeResumed, EndpointInv, CommandInv, Outcomes, StoreInv,
       Missing, Ran
  <2>6. Failures'
    BY <2>1, Kinds, Ranges DEF FinalizeResumed, EndpointInv, CommandInv, Outcomes, StoreInv,
       Unimported, Missing, Failures, Ran
  <2>. QED
    BY <2>2, <2>3, <2>4, <2>5, <2>6 DEF StoreInv
<1>7. ASSUME NEW i \in Called, KeywordResumes(i)
      PROVE  StoreInv'
  <2>1. Resumed(Keyword(i), "returned")
    BY <1>7, ResumeEffect DEF EndpointInv
  <2>2. Unimported'
    BY <2>1, Kinds, Ranges DEF Resumed, EndpointInv, CommandInv, Outcomes, NewHandlers,
       StoreInv, Unimported, ImportInv, Returned, LeaveInv, Recorded, Ran
  <2>3. FinalizedOnce'
    BY <2>1, Kinds, Ranges DEF Resumed, EndpointInv, StoreInv, Unimported, FinalizedOnce, Ran
  <2>4. Finalized'
    BY <2>1, Kinds, Ranges DEF Resumed, EndpointInv, CommandInv, Outcomes, StoreInv, Unimported,
       Finalized, Ran
  <2>5. Missing'
    BY <2>1, Kinds, Ranges DEF Resumed, EndpointInv, CommandInv, Outcomes, StoreInv, Missing,
       Ran
  <2>6. Failures'
    BY <2>1, Kinds, Ranges DEF Resumed, EndpointInv, CommandInv, Outcomes, StoreInv, Unimported,
       Missing, Failures, Ran
  <2>. QED
    BY <2>2, <2>3, <2>4, <2>5, <2>6 DEF StoreInv
<1>8. ASSUME NEW cl \in Clients, FinalizeAll(cl) \/ FinalizeNext(cl)
      PROVE  StoreInv'
  <2>1. Ended(cl)
    BY <1>8, EndEffect DEF EndpointInv
  <2>2. Unimported'
    BY <2>1, Kinds, Ranges DEF Ended, EndpointInv, CommandInv, Outcomes, NewHandlers, StoreInv,
       Unimported, ImportInv, Returned, LeaveInv, Recorded, Ran
  <2>3. FinalizedOnce'
    BY <2>1, Kinds, Ranges DEF Ended, EndpointInv, StoreInv, Unimported, FinalizedOnce, Ran
  <2>4. Finalized'
    BY <2>1, Kinds, Ranges DEF Ended, EndpointInv, CommandInv, Outcomes, StoreInv, Unimported,
       Finalized, Ran
  <2>5. Missing'
    BY <2>1, Kinds, Ranges DEF Ended, EndpointInv, CommandInv, Outcomes, StoreInv, Missing, Ran
  <2>6. Failures'
    BY <2>1, Kinds, Ranges DEF Ended, EndpointInv, CommandInv, Outcomes, StoreInv, Unimported,
       Missing, Failures, Ran
  <2>. QED
    BY <2>2, <2>3, <2>4, <2>5, <2>6 DEF StoreInv
<1>9. ASSUME NEW c \in Commands, RunnerBegins(c)
      PROVE  StoreInv'
  <2>1. Begun(c)
    BY <1>9, BeginEffect DEF EndpointInv
  <2>2. Unimported'
    BY <2>1, Kinds, Ranges DEF Begun, EndpointInv, CommandInv, Outcomes, NewHandlers, StoreInv,
       Unimported, ImportInv, Returned, LeaveInv, Recorded, Ran
  <2>3. FinalizedOnce'
    BY <2>1, Kinds, Ranges DEF Begun, EndpointInv, StoreInv, Unimported, FinalizedOnce, Ran
  <2>4. Finalized'
    BY <2>1, Kinds, Ranges DEF Begun, EndpointInv, CommandInv, Outcomes, StoreInv, Unimported,
       Finalized, Ran
  <2>5. Missing'
    BY <2>1, Kinds, Ranges DEF Begun, EndpointInv, CommandInv, Outcomes, StoreInv, Missing, Ran
  <2>6. Failures'
    BY <2>1, Kinds, Ranges DEF Begun, EndpointInv, CommandInv, Outcomes, StoreInv, Unimported,
       Missing, Failures, Ran
  <2>. QED
    BY <2>2, <2>3, <2>4, <2>5, <2>6 DEF StoreInv
<1>10. CASE RunnerGoesOn \/ ServerStops
  <2>1. Served
    BY <1>10, ServeEffect DEF EndpointInv
  <2>2. Unimported'
    BY <2>1, Kinds, Ranges DEF Served, EndpointInv, CommandInv, Outcomes, NewHandlers, StoreInv,
       Unimported, ImportInv, Returned, LeaveInv, Recorded, Ran
  <2>3. FinalizedOnce'
    BY <2>1, Kinds, Ranges DEF Served, EndpointInv, StoreInv, Unimported, FinalizedOnce, Ran
  <2>4. Finalized'
    BY <2>1, Kinds, Ranges DEF Served, EndpointInv, CommandInv, Outcomes, StoreInv, Unimported,
       Finalized, Ran
  <2>5. Missing'
    BY <2>1, Kinds, Ranges DEF Served, EndpointInv, CommandInv, Outcomes, StoreInv, Missing, Ran
  <2>6. Failures'
    BY <2>1, Kinds, Ranges DEF Served, EndpointInv, CommandInv, Outcomes, StoreInv, Unimported,
       Missing, Failures, Ran
  <2>. QED
    BY <2>2, <2>3, <2>4, <2>5, <2>6 DEF StoreInv
<1>11. CASE UNCHANGED vars
  BY <1>11 DEF vars, EndpointInv, StoreInv, Unimported, FinalizedOnce, Finalized, Missing,
     Failures, Ran, Settled, serviceVars, robotVars, leaveVars
<1>. QED
  BY <1>1, <1>2, <1>3, <1>4, <1>5, <1>6, <1>7, <1>8, <1>9, <1>10, <1>11, CommandsDiffer
     DEF Next, Requests, Resume, Runner, ImportResumes

\* An import is recorded, or what it brought is settled.
LEMMA ImportStep ==
    ASSUME EndpointInv, [Next]_vars
    PROVE  ImportInv'
<1>1. ASSUME NEW cl \in Clients, Initialize(cl) \/ Initialized(cl) \/ SetLogLevel(cl)
      PROVE  ImportInv'
  BY <1>1 DEF Initialize, Initialized, SetLogLevel, EndpointInv, ImportInv, Refused, Returned,
     Released, Ran, Settled, serviceVars, robotVars, leaveVars
<1>2. ASSUME NEW c \in Commands, Requests(c)
      PROVE  ImportInv'
  <2>1. Requested(c)
    BY <1>2, RequestEffect DEF EndpointInv
  <2>2. Refused'
    BY <2>1, Kinds, Ranges DEF Requested, EndpointInv, CommandInv, Outcomes, Answers,
       NewHandlers, ImportInv, Refused, Ran
  <2>3. Returned'
    BY <2>1, Kinds, Ranges DEF Requested, EndpointInv, CommandInv, Outcomes, ImportInv,
       Returned, Settled, LeaveInv, Recorded, Ran
  <2>4. Released'
    BY <2>1, Kinds, Ranges DEF Requested, EndpointInv, CommandInv, Outcomes, Answers, ImportInv,
       Released, Settled, Ran
  <2>. QED
    BY <2>2, <2>3, <2>4 DEF ImportInv
<1>3. ASSUME NEW i \in Imports, ImportSucceeds(i) /\ UNCHANGED <<robotVars, peerVars>>
      PROVE  ImportInv'
  <2>1. Imported(i)
    BY <1>3, ImportEffect DEF EndpointInv
  <2>2. Refused'
    BY <2>1, Kinds, Ranges DEF Imported, EndpointInv, CommandInv, Outcomes, Answers,
       NewHandlers, ImportInv, Refused, Ran
  <2>3. Returned'
    BY <2>1, Kinds, Ranges DEF Imported, EndpointInv, CommandInv, Outcomes, ImportInv, Returned,
       Settled, LeaveInv, Recorded, Ran
  <2>4. Released'
    BY <2>1, Kinds, Ranges DEF Imported, EndpointInv, CommandInv, Outcomes, Answers, ImportInv,
       Released, Settled, Ran
  <2>. QED
    BY <2>2, <2>3, <2>4 DEF ImportInv
<1>4. ASSUME NEW i \in Imports, ImportFails(i) /\ UNCHANGED <<robotVars, peerVars>>
      PROVE  ImportInv'
  <2>1. Resumed(Import(i), "refused")
    BY <1>4, ResumeEffect DEF EndpointInv
  <2>0. /\ handler[Import(i)] = "waiting" /\ answer[Import(i)] # "none"
        /\ answer[Import(i)] # "outcome" \/ outcome[Import(i)] # "done"
    BY <1>4 DEF ImportFails, Answered, Succeeded, Import
  <2>2. Refused'
    BY <2>0, <2>1, Kinds, Ranges DEF Resumed, EndpointInv, CommandInv, Outcomes, Answers,
       NewHandlers, ImportInv, Refused, Ran
  <2>3. Returned'
    BY <2>0, <2>1, Kinds, Ranges DEF Resumed, EndpointInv, CommandInv, Outcomes, ImportInv,
       Returned, Settled, LeaveInv, Recorded, Ran
  <2>4. Released'
    BY <2>0, <2>1, Kinds, Ranges DEF Resumed, EndpointInv, CommandInv, Outcomes, Answers,
       ImportInv, Released, Settled, Ran
  <2>. QED
    BY <2>2, <2>3, <2>4 DEF ImportInv
<1>5. ASSUME NEW i \in Imports, ImportReleased(i)
      PROVE  ImportInv'
  <2>1. Resumed(Import(i), "released")
    BY <1>5, ResumeEffect DEF EndpointInv
  <2>0. answer[Release(i)] # "none"
    BY <1>5 DEF ImportReleased, Release
  <2>2. Refused'
    BY <2>0, <2>1, Kinds, Ranges DEF Resumed, EndpointInv, CommandInv, Outcomes, Answers,
       NewHandlers, ImportInv, Refused, Ran
  <2>3. Returned'
    BY <2>0, <2>1, Kinds, Ranges DEF Resumed, EndpointInv, CommandInv, Outcomes, ImportInv,
       Returned, Settled, LeaveInv, Recorded, Ran
  <2>4. Released'
    BY <2>0, <2>1, Kinds, Ranges DEF Resumed, EndpointInv, CommandInv, Outcomes, Answers,
       ImportInv, Released, Settled, Ran
  <2>. QED
    BY <2>2, <2>3, <2>4 DEF ImportInv
<1>6. ASSUME NEW i \in Imports, FinalizeResumes(i)
      PROVE  ImportInv'
  <2>1. FinalizeResumed(i)
    BY <1>6, FinalizeEffect DEF EndpointInv
  <2>2. Refused'
    BY <2>1, Kinds, Ranges DEF FinalizeResumed, EndpointInv, CommandInv, Outcomes, Answers,
       NewHandlers, ImportInv, Refused, Ran
  <2>3. Returned'
    BY <2>1, Kinds, Ranges DEF FinalizeResumed, EndpointInv, CommandInv, Outcomes, ImportInv,
       Returned, Settled, LeaveInv, Recorded, Ran
  <2>4. Released'
    BY <2>1, Kinds, Ranges DEF FinalizeResumed, EndpointInv, CommandInv, Outcomes, Answers,
       ImportInv, Released, Settled, Ran
  <2>. QED
    BY <2>2, <2>3, <2>4 DEF ImportInv
<1>7. ASSUME NEW i \in Called, KeywordResumes(i)
      PROVE  ImportInv'
  <2>1. Resumed(Keyword(i), "returned")
    BY <1>7, ResumeEffect DEF EndpointInv
  <2>2. Refused'
    BY <2>1, Kinds, Ranges DEF Resumed, EndpointInv, CommandInv, Outcomes, Answers, NewHandlers,
       ImportInv, Refused, Ran
  <2>3. Returned'
    BY <2>1, Kinds, Ranges DEF Resumed, EndpointInv, CommandInv, Outcomes, ImportInv, Returned,
       Settled, LeaveInv, Recorded, Ran
  <2>4. Released'
    BY <2>1, Kinds, Ranges DEF Resumed, EndpointInv, CommandInv, Outcomes, Answers, ImportInv,
       Released, Settled, Ran
  <2>. QED
    BY <2>2, <2>3, <2>4 DEF ImportInv
<1>8. ASSUME NEW cl \in Clients, FinalizeAll(cl) \/ FinalizeNext(cl)
      PROVE  ImportInv'
  <2>1. Ended(cl)
    BY <1>8, EndEffect DEF EndpointInv
  <2>2. Refused'
    BY <2>1, Kinds, Ranges DEF Ended, EndpointInv, CommandInv, Outcomes, Answers, NewHandlers,
       ImportInv, Refused, Ran
  <2>3. Returned'
    BY <2>1, Kinds, Ranges DEF Ended, EndpointInv, CommandInv, Outcomes, ImportInv, Returned,
       Settled, LeaveInv, Recorded, Ran
  <2>4. Released'
    BY <2>1, Kinds, Ranges DEF Ended, EndpointInv, CommandInv, Outcomes, Answers, ImportInv,
       Released, Settled, Ran
  <2>. QED
    BY <2>2, <2>3, <2>4 DEF ImportInv
<1>9. ASSUME NEW c \in Commands, RunnerBegins(c)
      PROVE  ImportInv'
  <2>1. Begun(c)
    BY <1>9, BeginEffect DEF EndpointInv
  <2>2. Refused'
    BY <2>1, Kinds, Ranges DEF Begun, EndpointInv, CommandInv, Outcomes, Answers, NewHandlers,
       ImportInv, Refused, Ran
  <2>3. Returned'
    BY <2>1, Kinds, Ranges DEF Begun, EndpointInv, CommandInv, Outcomes, ImportInv, Returned,
       Settled, LeaveInv, Recorded, Ran
  <2>4. Released'
    BY <2>1, Kinds, Ranges DEF Begun, EndpointInv, CommandInv, Outcomes, Answers, ImportInv,
       Released, Settled, Ran
  <2>. QED
    BY <2>2, <2>3, <2>4 DEF ImportInv
<1>10. CASE RunnerGoesOn \/ ServerStops
  <2>1. Served
    BY <1>10, ServeEffect DEF EndpointInv
  <2>2. Refused'
    BY <2>1, Kinds, Ranges DEF Served, EndpointInv, CommandInv, Outcomes, Answers, NewHandlers,
       ImportInv, Refused, Ran
  <2>3. Returned'
    BY <2>1, Kinds, Ranges DEF Served, EndpointInv, CommandInv, Outcomes, ImportInv, Returned,
       Settled, LeaveInv, Recorded, Ran
  <2>4. Released'
    BY <2>1, Kinds, Ranges DEF Served, EndpointInv, CommandInv, Outcomes, Answers, ImportInv,
       Released, Settled, Ran
  <2>. QED
    BY <2>2, <2>3, <2>4 DEF ImportInv
<1>11. CASE UNCHANGED vars
  BY <1>11 DEF vars, EndpointInv, ImportInv, Refused, Returned, Released, Ran, Settled,
     serviceVars, robotVars, leaveVars
<1>. QED
  BY <1>1, <1>2, <1>3, <1>4, <1>5, <1>6, <1>7, <1>8, <1>9, <1>10, <1>11, CommandsDiffer
     DEF Next, Requests, Resume, Runner, ImportResumes

\* The end of a connection has its libraries before it.
LEMMA LeaveStep ==
    ASSUME EndpointInv, [Next]_vars
    PROVE  LeaveInv'
<1>1. ASSUME NEW cl \in Clients, Initialize(cl) \/ Initialized(cl) \/ SetLogLevel(cl)
      PROVE  LeaveInv'
  BY <1>1 DEF Initialize, Initialized, SetLogLevel, EndpointInv, LeaveInv, Recorded,
     Connections, Releases, Ran, Settled, serviceVars, robotVars, leaveVars
<1>2. ASSUME NEW c \in Commands, Requests(c)
      PROVE  LeaveInv'
  <2>1. Requested(c)
    BY <1>2, RequestEffect DEF EndpointInv
  <2>2. Recorded'
    BY <2>1, Kinds, Ranges DEF Requested, EndpointInv, LeaveInv, Recorded
  <2>3. Connections'
    BY <2>1, Kinds, Ranges DEF Requested, EndpointInv, LeaveInv, Connections
  <2>4. Releases'
    BY <2>1, Kinds, Ranges DEF Requested, EndpointInv, LeaveInv, Recorded, Connections, Releases
  <2>. QED
    BY <2>2, <2>3, <2>4 DEF LeaveInv
<1>3. ASSUME NEW i \in Imports, ImportSucceeds(i) /\ UNCHANGED <<robotVars, peerVars>>
      PROVE  LeaveInv'
  <2>1. Imported(i)
    BY <1>3, ImportEffect DEF EndpointInv
  <2>2. Recorded'
    BY <2>1, Kinds, Ranges DEF Imported, EndpointInv, LeaveInv, Recorded
  <2>3. Connections'
    BY <2>1, Kinds, Ranges DEF Imported, EndpointInv, LeaveInv, Connections
  <2>4. Releases'
    BY <2>1, Kinds, Ranges DEF Imported, EndpointInv, LeaveInv, Recorded, Connections, Releases
  <2>. QED
    BY <2>2, <2>3, <2>4 DEF LeaveInv
<1>4. ASSUME NEW i \in Imports, ImportFails(i) /\ UNCHANGED <<robotVars, peerVars>>
      PROVE  LeaveInv'
  <2>1. Resumed(Import(i), "refused")
    BY <1>4, ResumeEffect DEF EndpointInv
  <2>2. Recorded'
    BY <2>1, Kinds, Ranges DEF Resumed, EndpointInv, LeaveInv, Recorded
  <2>3. Connections'
    BY <2>1, Kinds, Ranges DEF Resumed, EndpointInv, LeaveInv, Connections
  <2>4. Releases'
    BY <2>1, Kinds, Ranges DEF Resumed, EndpointInv, LeaveInv, Recorded, Connections, Releases
  <2>. QED
    BY <2>2, <2>3, <2>4 DEF LeaveInv
<1>5. ASSUME NEW i \in Imports, ImportReleased(i)
      PROVE  LeaveInv'
  <2>1. Resumed(Import(i), "released")
    BY <1>5, ResumeEffect DEF EndpointInv
  <2>2. Recorded'
    BY <2>1, Kinds, Ranges DEF Resumed, EndpointInv, LeaveInv, Recorded
  <2>3. Connections'
    BY <2>1, Kinds, Ranges DEF Resumed, EndpointInv, LeaveInv, Connections
  <2>4. Releases'
    BY <2>1, Kinds, Ranges DEF Resumed, EndpointInv, LeaveInv, Recorded, Connections, Releases
  <2>. QED
    BY <2>2, <2>3, <2>4 DEF LeaveInv
<1>6. ASSUME NEW i \in Imports, FinalizeResumes(i)
      PROVE  LeaveInv'
  <2>1. FinalizeResumed(i)
    BY <1>6, FinalizeEffect DEF EndpointInv
  <2>2. Recorded'
    BY <2>1, Kinds, Ranges DEF FinalizeResumed, EndpointInv, LeaveInv, Recorded
  <2>3. Connections'
    BY <2>1, Kinds, Ranges DEF FinalizeResumed, EndpointInv, LeaveInv, Connections
  <2>4. Releases'
    BY <2>1, Kinds, Ranges DEF FinalizeResumed, EndpointInv, LeaveInv, Recorded, Connections,
       Releases
  <2>. QED
    BY <2>2, <2>3, <2>4 DEF LeaveInv
<1>7. ASSUME NEW i \in Called, KeywordResumes(i)
      PROVE  LeaveInv'
  <2>1. Resumed(Keyword(i), "returned")
    BY <1>7, ResumeEffect DEF EndpointInv
  <2>2. Recorded'
    BY <2>1, Kinds, Ranges DEF Resumed, EndpointInv, LeaveInv, Recorded
  <2>3. Connections'
    BY <2>1, Kinds, Ranges DEF Resumed, EndpointInv, LeaveInv, Connections
  <2>4. Releases'
    BY <2>1, Kinds, Ranges DEF Resumed, EndpointInv, LeaveInv, Recorded, Connections, Releases
  <2>. QED
    BY <2>2, <2>3, <2>4 DEF LeaveInv
<1>8. ASSUME NEW cl \in Clients, FinalizeAll(cl) \/ FinalizeNext(cl)
      PROVE  LeaveInv'
  <2>1. Ended(cl)
    BY <1>8, EndEffect DEF EndpointInv
  <2>2. Recorded'
    BY <2>1, Kinds, Ranges DEF Ended, EndpointInv, LeaveInv, Recorded
  <2>3. Connections'
    BY <2>1, Kinds, Ranges DEF Ended, EndpointInv, LeaveInv, Connections
  <2>4. Releases'
    BY <2>1, Kinds, Ranges DEF Ended, EndpointInv, LeaveInv, Recorded, Connections, Releases
  <2>. QED
    BY <2>2, <2>3, <2>4 DEF LeaveInv
<1>9. ASSUME NEW c \in Commands, RunnerBegins(c)
      PROVE  LeaveInv'
  <2>1. Begun(c)
    BY <1>9, BeginEffect DEF EndpointInv
  <2>2. Recorded'
    BY <2>1, Kinds, Ranges DEF Begun, EndpointInv, LeaveInv, Recorded
  <2>3. Connections'
    BY <2>1, Kinds, Ranges DEF Begun, EndpointInv, LeaveInv, Connections
  <2>4. Releases'
    BY <2>1, Kinds, Ranges DEF Begun, EndpointInv, LeaveInv, Recorded, Connections, Releases
  <2>. QED
    BY <2>2, <2>3, <2>4 DEF LeaveInv
<1>10. CASE RunnerGoesOn \/ ServerStops
  <2>1. Served
    BY <1>10, ServeEffect DEF EndpointInv
  <2>2. Recorded'
    BY <2>1, Kinds, Ranges DEF Served, EndpointInv, LeaveInv, Recorded
  <2>3. Connections'
    BY <2>1, Kinds, Ranges DEF Served, EndpointInv, LeaveInv, Connections
  <2>4. Releases'
    BY <2>1, Kinds, Ranges DEF Served, EndpointInv, LeaveInv, Recorded, Connections, Releases
  <2>. QED
    BY <2>2, <2>3, <2>4 DEF LeaveInv
<1>11. CASE UNCHANGED vars
  BY <1>11 DEF vars, EndpointInv, LeaveInv, Recorded, Connections, Releases, Ran, Settled,
     serviceVars, robotVars, leaveVars
<1>. QED
  BY <1>1, <1>2, <1>3, <1>4, <1>5, <1>6, <1>7, <1>8, <1>9, <1>10, <1>11, CommandsDiffer
     DEF Next, Requests, Resume, Runner, ImportResumes

-----------------------------------------------------------------------------
(* The theorems *)

LEMMA LineStep ==
    ASSUME EndpointInv, [Next]_vars
    PROVE  LineInv'
<1>. TypeOK /\ LineInv
  BY DEF EndpointInv
<1>1. UNCHANGED serviceVars => LineInv'
  BY LineSteps
<1>2. \A c \in Commands : Call(c) \/ (\E cl : RequireHandshake(cl, c)) => LineInv'
  BY <1>1, LineSteps DEF Call, RequireHandshake, Refuse
<1>3. \A cl : \A rest \in SUBSET Imports : \A recorded : GoOn(cl, rest, recorded) => LineInv'
  BY <1>1, LineSteps, CommandsDiffer DEF GoOn, Refuse, Release
<1>4. ASSUME NEW cl \in Clients, Initialize(cl) \/ Initialized(cl) \/ SetLogLevel(cl)
      PROVE  LineInv'
  BY <1>1, <1>4 DEF Initialize, Initialized, SetLogLevel
<1>5. ASSUME NEW c \in Commands, Requests(c)
      PROVE  LineInv'
  BY <1>1, <1>2, <1>5 DEF Requests, ImportLibrary, RunKeyword, FinalizeLibrary, Import, Keyword, Finalize
<1>6. ASSUME NEW i \in Imports, Resume(i)
      PROVE  LineInv'
  BY <1>1, <1>6, LineSteps, CommandsDiffer
     DEF Resume, ImportResumes, ImportSucceeds, ImportFails, Refuse, ImportReleased,
         FinalizeResumes, KeywordResumes, Release
<1>7. ASSUME NEW cl \in Clients, FinalizeAll(cl) \/ FinalizeNext(cl)
      PROVE  LineInv'
  <2>1. tokens[cl] \in SUBSET Imports /\ leaving[cl] \in SUBSET Imports
    BY DEF TypeOK
  <2>2. \A i : leaving[cl] \ {i} \in SUBSET Imports
    BY <2>1
  <2>. QED
    BY <1>3, <1>7, <2>1, <2>2 DEF FinalizeAll, FinalizeNext
<1>8. CASE RunnerGoesOn \/ ServerStops \/ \E c \in Commands : RunnerBegins(c)
  BY <1>8, LineSteps DEF RunnerGoesOn, ServerStops, RunnerBegins
<1>9. CASE UNCHANGED vars
  BY <1>1, <1>9 DEF vars
<1>. QED
  BY <1>4, <1>5, <1>6, <1>7, <1>8, <1>9, CommandsDiffer DEF Next, Requests, Runner

LEMMA InitInv ==
    ASSUME Init
    PROVE  EndpointInv
<1>. USE Kinds DEF Init, Service!Init
<1>1. TypeOK
  <2>1. <<>> \in Seq(Commands)
    OBVIOUS
  <2>. QED
    BY <2>1 DEF TypeOK
<1>2. LineInv /\ CommandInv
  BY DEF LineInv, CommandInv, Outcomes, Answers, NewHandlers, Ran
<1>3. StoreInv
  BY DEF StoreInv, Unimported, FinalizedOnce, Finalized, Missing, Failures, Ran
<1>4. ImportInv
  BY DEF ImportInv, Refused, Returned, Released
<1>5. LeaveInv
  BY OwnersAreClients DEF LeaveInv, Recorded, Connections, Releases
<1>. QED
  BY <1>1, <1>2, <1>3, <1>4, <1>5 DEF EndpointInv

\* The invariant holds at all times.
LEMMA InvHolds == Spec => []EndpointInv
<1>1. EndpointInv /\ [Next]_vars => EndpointInv'
  <2>. SUFFICES ASSUME EndpointInv, [Next]_vars
                PROVE  EndpointInv'
    OBVIOUS
  <2>1. TypeOK'
    BY TypeStep DEF EndpointInv
  <2>. QED
    BY <2>1, LineStep, CommandStep, StoreStep, ImportStep, LeaveStep DEF EndpointInv
<1>. QED
  BY <1>1, InitInv, PTL DEF Spec

\* Every variable keeps its type.
THEOREM TypeCorrect == Spec => []TypeOK
<1>1. EndpointInv => TypeOK
  BY DEF EndpointInv
<1>. QED
  BY <1>1, InvHolds, PTL

\* The scope of a library is ended at most once, and never while the library is
\* in the store: whether its client, finalize_all() or the import that has outlived
\* its client asks for it, and if two of them do.
THEOREM LibrariesAreFinalizedOnce == Spec => []FinalizedOnce
<1>1. EndpointInv => FinalizedOnce
  BY DEF EndpointInv, StoreInv
<1>. QED
  BY <1>1, InvHolds, PTL

\* Once finalize_all() of a client is through, every library of the client that
\* is still in the store has been given up, or its import has yet to resume.
THEOREM NoLibraryIsForgotten == Spec => []NoLibraryForgotten
<1>1. EndpointInv => NoLibraryForgotten
  <2>. SUFFICES ASSUME EndpointInv, NEW i \in store, conn[Owner[i]] = "gone", mode = "open", ~GivenUp(i)
                PROVE  handler[Import(i)] \in {"waiting", "releasing"}
    BY DEF NoLibraryForgotten, Import
  <2>. USE DEF EndpointInv
  <2>1. i \in Imports /\ Import(i) \in Commands /\ Release(i) \in Commands /\ Owner[i] \in Clients
    BY Kinds, OwnersAreClients DEF TypeOK
  <2>2. Ran(Import(i)) /\ outcome[Import(i)] # "failed" /\ outcome[Release(i)] # "failed"
    BY <2>1 DEF StoreInv, Unimported, GivenUp, Import, Release
  <2>3. outcome[Import(i)] = "done"
    BY <2>1, <2>2, Ranges DEF CommandInv, Outcomes
  <2>4. ~Settled(i)
    BY <2>1, <2>2, Ranges DEF Settled, StoreInv, Finalized
  <2>5. handler[Import(i)] \notin {"new", "refused", "returned", "released"}
    BY <2>1, <2>2, <2>3, <2>4
       DEF CommandInv, NewHandlers, ImportInv, Refused, Returned, Released, LeaveInv, Connections, Ran
  <2>. QED
    BY <2>1, <2>5 DEF TypeOK
<1>. QED
  BY <1>1, InvHolds, PTL

\* Where every log level that a client reports is one that Robot Framework knows:
\* a library that its client has imported and not yet asked to finalize is in the
\* store, and none of its keywords fails for want of it.
THEOREM ImportedLibrariesAreUsable ==
    ASSUME "unknown" \notin Levels
    PROVE  Spec => []ImportedLibraryIsUsable
<1>1. EndpointInv => ImportedLibraryIsUsable
  <2>. SUFFICES ASSUME EndpointInv, NEW i \in Imports, Known(i), conn[Owner[i]] = "open",
                       handler[Finalize(i)] = "new"
                PROVE  i \in store /\ (i \in Called => outcome[Keyword(i)] # "failed")
    BY DEF ImportedLibraryIsUsable, Finalize, Keyword
  <2>. USE DEF EndpointInv
  <2>1. state[Finalize(i)] = "new" /\ state[Release(i)] = "new"
    BY DEF CommandInv, NewHandlers, LeaveInv, Releases
  <2>2. outcome[Import(i)] = "done"
    BY DEF Known, Import, ImportInv, Returned
  <2>. QED
    BY <2>1, <2>2 DEF StoreInv, Missing, Failures, Ran
<1>. QED
  BY <1>1, InvHolds, PTL

=============================================================================
