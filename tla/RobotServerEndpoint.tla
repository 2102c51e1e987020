------------------------ MODULE RobotServerEndpoint ------------------------
(***************************************************************************)
(* The endpoints of the server, one for each client connection: handshake, *)
(* import, keyword call and finalization, and the release of the libraries *)
(* of a client that is gone. They share one runner, which CommandService   *)
(* specifies, and Robot Framework's one store of libraries. A library is   *)
(* known by the token of its import, so a token and an import are one.     *)
(***************************************************************************)
EXTENDS Naturals, Sequences

CONSTANTS
    Clients,       \* the connections
    Imports,       \* the requests to import a library
    Owner,         \* the connection of each
    Called,        \* those of which the client calls a keyword
    Undescribed,   \* those whose library may not let itself be described
    Levels         \* the log levels that a client may report, "known" or "unknown"

ASSUME OwnersAreClients == Owner \in [Imports -> Clients]
ASSUME CalledAreImports == Called \subseteq Imports
ASSUME UndescribedAreImports == Undescribed \subseteq Imports
ASSUME LevelsAreLevels == Levels \subseteq {"known", "unknown"}

\* A "release" finalizes a library that has no client anymore.
Commands == [op : {"import", "finalize", "release"}, lib : Imports]
                \cup [op : {"keyword"}, lib : Called]
Command(op, i) == [op |-> op, lib |-> i]

VARIABLES
    mode, line, state, answer,   \* the runner: the variables of CommandService
    outcome,      \* how each command went: "none", "done" or "failed"
    store,        \* the libraries in Robot Framework's store
    torn,         \* how often the scope of each library was ended
    greeted,      \* which of the two messages of the handshake came, per client
    level,        \* log_level of each endpoint
    tokens,       \* _imported_tokens of each endpoint
    disconnected, \* the flag _disconnected of each endpoint
    conn,         \* "open", "leaving": in finalize_all(), or "gone"
    leaving,      \* what finalize_all() has yet to finalize
    handler       \* the coroutine of each command

Service == INSTANCE CommandService WITH Calls <- Commands

serviceVars == <<mode, line, state, answer>>
robotVars == <<outcome, store, torn>>
peerVars == <<greeted, level>>
leaveVars == <<tokens, disconnected, conn, leaving>>
vars == <<serviceVars, robotVars, peerVars, leaveVars, handler>>

Greetings == {"initialize", "initialized"}

TypeOK ==
    /\ mode \in {"open", "last", "over", "shut"}
    /\ line \in Seq(Commands)
    /\ state \in [Commands -> {"new", "waiting", "running", "finished", "dropped"}]
    /\ answer \in [Commands -> {"none", "outcome", "shutdown"}]
    /\ outcome \in [Commands -> {"none", "done", "failed"}]
    /\ store \subseteq Imports
    /\ torn \in [Imports -> Nat]
    /\ greeted \in [Clients -> SUBSET Greetings]
    /\ level \in [Clients -> {"known"} \cup Levels]
    /\ tokens \in [Clients -> SUBSET Imports]
    /\ disconnected \in [Clients -> BOOLEAN]
    /\ conn \in [Clients -> {"open", "leaving", "gone"}]
    /\ leaving \in [Clients -> SUBSET Imports]
    /\ handler \in [Commands -> {"new", "waiting", "releasing", "returned", "refused", "released"}]

Init ==
    /\ Service!Init
    /\ outcome = [c \in Commands |-> "none"]
    /\ store = {} /\ torn = [i \in Imports |-> 0]
    /\ greeted = [cl \in Clients |-> {}]
    /\ level = [cl \in Clients |-> "known"]
    /\ tokens = [cl \in Clients |-> {}]
    /\ disconnected = [cl \in Clients |-> FALSE]
    /\ conn = [cl \in Clients |-> "open"]
    /\ leaving = [cl \in Clients |-> {}]
    /\ handler = [c \in Commands |-> "new"]

-----------------------------------------------------------------------------
(* Handlers of requests and notifications. One that stands in a batch may  *)
(* still be started when the connection has ended.                         *)

Initialize(cl) ==
    /\ greeted' = [greeted EXCEPT ![cl] = @ \cup {"initialize"}]
    /\ level' \in {level} \cup {[level EXCEPT ![cl] = l] : l \in Levels}
    /\ UNCHANGED <<serviceVars, robotVars, leaveVars, handler>>

Initialized(cl) ==
    /\ greeted' = [greeted EXCEPT ![cl] = @ \cup {"initialized"}]
    /\ UNCHANGED <<serviceVars, robotVars, level, leaveVars, handler>>

SetLogLevel(cl) ==
    /\ level' \in {[level EXCEPT ![cl] = l] : l \in Levels}
    /\ UNCHANGED <<serviceVars, robotVars, greeted, leaveVars, handler>>

\* Once the stop has begun, the runner takes no more commands: the one that is
\* being submitted at that moment may still get in.
Refuse == mode # "open" /\ UNCHANGED serviceVars

SetHandler(c, s) == handler' = [handler EXCEPT ![c] = s]

Call(c) ==
    \/ Service!Submit(c) /\ SetHandler(c, "waiting")
    \/ Refuse /\ SetHandler(c, "refused")

RequireHandshake(cl, c) ==
    \/ greeted[cl] = Greetings /\ Call(c)
    \/ greeted[cl] # Greetings /\ SetHandler(c, "refused") /\ UNCHANGED serviceVars

\* Whether the client has been told the token.
Known(i) == handler[Command("import", i)] = "returned"

\* The server may not serve the library of that name, or have none for no name.
ImportLibrary(i) ==
    /\ handler[Command("import", i)] = "new"
    /\ \/ RequireHandshake(Owner[i], Command("import", i))
       \/ SetHandler(Command("import", i), "refused") /\ UNCHANGED serviceVars
    /\ UNCHANGED <<robotVars, peerVars, leaveVars>>

RunKeyword(i) ==
    /\ Known(i) /\ handler[Command("keyword", i)] = "new"
    /\ RequireHandshake(Owner[i], Command("keyword", i))
    /\ UNCHANGED <<robotVars, peerVars, leaveVars>>

FinalizeLibrary(i) ==
    /\ Known(i) /\ handler[Command("finalize", i)] = "new"
    /\ Call(Command("finalize", i))
    /\ UNCHANGED <<robotVars, peerVars, leaveVars>>

\* The answer to the command has reached the coroutine that awaits it.
Answered(c) == handler[c] = "waiting" /\ answer[c] # "none"
Succeeded(c) == answer[c] = "outcome" /\ outcome[c] = "done"

\* Defect: what is recorded is the command and not its token.
RecordCommand(i) ==
    /\ Answered(Command("import", i)) /\ Succeeded(Command("import", i))
    /\ tokens' = [tokens EXCEPT ![Owner[i]] = @ \cup {Command("import", i)}]
    /\ SetHandler(Command("import", i), "returned")
    /\ UNCHANGED <<serviceVars, disconnected, conn, leaving>>

\* Defect: the token is recorded whether or not the client is still there.
RecordAlways(i) ==
    /\ Answered(Command("import", i)) /\ Succeeded(Command("import", i))
    /\ tokens' = [tokens EXCEPT ![Owner[i]] = @ \cup {i}]
    /\ SetHandler(Command("import", i), "returned")
    /\ UNCHANGED <<serviceVars, disconnected, conn, leaving>>

ImportSucceeds(i) ==
    /\ Answered(Command("import", i)) /\ Succeeded(Command("import", i))
    /\ \/ /\ ~disconnected[Owner[i]]
          /\ tokens' = [tokens EXCEPT ![Owner[i]] = @ \cup {i}]
          /\ SetHandler(Command("import", i), "returned")
          /\ UNCHANGED serviceVars
       \/ /\ disconnected[Owner[i]]
          /\ \/ Service!Submit(Command("release", i)) /\ SetHandler(Command("import", i), "releasing")
             \/ Refuse /\ SetHandler(Command("import", i), "released")
          /\ UNCHANGED tokens
    /\ UNCHANGED <<disconnected, conn, leaving>>

ImportFails(i) ==
    /\ Answered(Command("import", i)) /\ ~Succeeded(Command("import", i))
    /\ SetHandler(Command("import", i), "refused")
    /\ UNCHANGED <<serviceVars, leaveVars>>

ImportResumes(i) ==
    /\ ImportSucceeds(i) \/ ImportFails(i)
    /\ UNCHANGED <<robotVars, peerVars>>

\* _finalize() of the import that has outlived its client: a failure is logged.
ImportReleased(i) ==
    /\ handler[Command("import", i)] = "releasing"
    /\ answer[Command("release", i)] # "none"
    /\ SetHandler(Command("import", i), "released")
    /\ UNCHANGED <<serviceVars, robotVars, peerVars, leaveVars>>

\* The token is discarded only if the runner has finalized the library.
FinalizeResumes(i) ==
    /\ Answered(Command("finalize", i))
    /\ SetHandler(Command("finalize", i), "returned")
    /\ tokens' = IF Succeeded(Command("finalize", i))
                 THEN [tokens EXCEPT ![Owner[i]] = @ \ {i}] ELSE tokens
    /\ UNCHANGED <<serviceVars, robotVars, peerVars, disconnected, conn, leaving>>

KeywordResumes(i) ==
    /\ Answered(Command("keyword", i))
    /\ SetHandler(Command("keyword", i), "returned")
    /\ UNCHANGED <<serviceVars, robotVars, peerVars, leaveVars>>

-----------------------------------------------------------------------------
(* The end of a connection: finalize_all() and cleanup() in handle_client. *)

\* From one of its awaits to the next: submit the next library of `rest`, or
\* come to the end, and to cleanup(). A runner that refuses one refuses all.
GoOn(cl, rest, recorded) ==
    \/ \E i \in rest :
          /\ Service!Submit(Command("release", i))
          /\ SetHandler(Command("release", i), "waiting")
          /\ leaving' = [leaving EXCEPT ![cl] = rest]
          /\ tokens' = [tokens EXCEPT ![cl] = recorded]
          /\ conn' = [conn EXCEPT ![cl] = "leaving"]
          /\ UNCHANGED greeted
    \/ /\ \/ rest = {} /\ UNCHANGED serviceVars
          \/ rest # {} /\ Refuse
       /\ leaving' = [leaving EXCEPT ![cl] = {}]
       /\ tokens' = [tokens EXCEPT ![cl] = recorded \ rest]
       /\ conn' = [conn EXCEPT ![cl] = "gone"]
       /\ greeted' = [greeted EXCEPT ![cl] = {}]
       /\ UNCHANGED handler

\* Defect: everything in the store is taken for the client's.
FinalizeStore(cl) ==
    /\ conn[cl] = "open"
    /\ disconnected' = [disconnected EXCEPT ![cl] = TRUE]
    /\ GoOn(cl, {i \in store : handler[Command("release", i)] = "new"}, tokens[cl])
    /\ UNCHANGED <<robotVars, level>>

\* Defect: the mark is left out.
FinalizeUnmarked(cl) ==
    /\ conn[cl] = "open"
    /\ GoOn(cl, tokens[cl], tokens[cl])
    /\ UNCHANGED <<robotVars, level, disconnected>>

\* The connection has ended, by whatever cause.
FinalizeAll(cl) ==
    /\ conn[cl] = "open"
    /\ disconnected' = [disconnected EXCEPT ![cl] = TRUE]
    /\ GoOn(cl, tokens[cl], tokens[cl])
    /\ UNCHANGED <<robotVars, level>>

\* Defect: a library that cannot be finalized keeps the others from it.
FinalizeNextIfWell(cl) ==
    /\ conn[cl] = "leaving"
    /\ \E i \in leaving[cl] :
          /\ Answered(Command("release", i)) /\ Succeeded(Command("release", i))
          /\ GoOn(cl, leaving[cl] \ {i}, tokens[cl] \ {i})
    /\ UNCHANGED <<robotVars, level, disconnected>>

\* The await of one library is over; that it has failed is only logged.
FinalizeNext(cl) ==
    /\ conn[cl] = "leaving"
    /\ \E i \in leaving[cl] :
          /\ Answered(Command("release", i))
          /\ GoOn(cl, leaving[cl] \ {i}, tokens[cl] \ {i})
    /\ UNCHANGED <<robotVars, level, disconnected>>

-----------------------------------------------------------------------------
(* The runner, and what the commands do inside of Robot Framework. *)

\* What the command of a library does to the store, and how it goes.
ImportInRobot(i) ==
    \/ store' = store \cup {i} /\ outcome' = [outcome EXCEPT ![Command("import", i)] = "done"]
    \/ UNCHANGED store /\ outcome' = [outcome EXCEPT ![Command("import", i)] = "failed"]
    \/ /\ i \in Undescribed
       /\ store' = store \cup {i} /\ outcome' = [outcome EXCEPT ![Command("import", i)] = "failed"]

\* A keyword of a library that is there may fail, too: that is its own affair.
KeywordInRobot(i) ==
    /\ outcome' = [outcome EXCEPT ![Command("keyword", i)] = IF i \in store THEN "done" ELSE "failed"]
    /\ UNCHANGED store

\* Defect: the library is torn down and stays in the store.
FinalizeWithoutPop(op, i) ==
    /\ UNCHANGED store
    /\ torn' = [torn EXCEPT ![i] = IF i \in store THEN @ + 1 ELSE @]
    /\ outcome' = [outcome EXCEPT ![Command(op, i)] = "done"]

FinalizeInRobot(op, i) ==
    /\ store' = store \ {i}
    /\ torn' = [torn EXCEPT ![i] = IF i \in store THEN @ + 1 ELSE @]
    /\ outcome' = [outcome EXCEPT ![Command(op, i)] = "done"]

\* The log level comes first: if Robot does not know it, nothing is run.
Execute(c) ==
    \/ /\ level[Owner[c.lib]] = "unknown"
       /\ outcome' = [outcome EXCEPT ![c] = "failed"]
       /\ UNCHANGED <<store, torn>>
    \/ /\ level[Owner[c.lib]] = "known"
       /\ \/ c.op = "import" /\ ImportInRobot(c.lib) /\ UNCHANGED torn
          \/ c.op = "keyword" /\ KeywordInRobot(c.lib) /\ UNCHANGED torn
          \/ c.op \in {"finalize", "release"} /\ FinalizeInRobot(c.op, c.lib)

RunnerBegins(c) ==
    /\ Service!Begin(c)
    /\ Execute(c)
    /\ UNCHANGED <<peerVars, leaveVars, handler>>

RunnerGoesOn ==
    /\ Service!Shut \/ \E c \in Commands : Service!Finish(c) \/ Service!Tell(c)
    /\ UNCHANGED <<robotVars, peerVars, leaveVars, handler>>

ServerStops ==
    /\ Service!Stop
    /\ UNCHANGED <<robotVars, peerVars, leaveVars, handler>>

-----------------------------------------------------------------------------

Resume(i) ==
    \/ ImportResumes(i) \/ ImportReleased(i) \/ FinalizeResumes(i)
    \/ i \in Called /\ KeywordResumes(i)

Runner == RunnerGoesOn \/ \E c \in Commands : RunnerBegins(c)

Next ==
    \/ ServerStops \/ Runner
    \/ \E cl \in Clients :
          \/ Initialize(cl) \/ Initialized(cl) \/ SetLogLevel(cl)
          \/ FinalizeAll(cl) \/ FinalizeNext(cl)
    \/ \E i \in Imports : ImportLibrary(i) \/ FinalizeLibrary(i) \/ Resume(i)
    \/ \E i \in Called : RunKeyword(i)

Spec == Init /\ [][Next]_vars

\* Every command comes to its end, and the event loop resumes what can go on.
FairSpec ==
    /\ Spec
    /\ WF_vars(Runner)
    /\ \A cl \in Clients : WF_vars(FinalizeNext(cl))
    /\ \A i \in Imports : WF_vars(Resume(i))

-----------------------------------------------------------------------------
(* Properties *)

\* "When a client disconnects, the server SHALL finalize every library that it
\* imported for that client" (openspec/specs/server/spec.md): once finalize_all()
\* is through, a library of its client is still in the store only if its import
\* has yet to resume and to finalize it.
EveryLibraryIsFinalized ==
    \A i \in store :
        conn[Owner[i]] = "gone" /\ mode = "open"
            => handler[Command("import", i)] \in {"waiting", "releasing"}

\* Robot has the library, and its import failed all the same, or the command
\* that was to finalize it did: the cases in which the code gives it up.
GivenUp(i) == \E op \in {"import", "release"} : outcome[Command(op, i)] = "failed"

\* The code keeps that promise for every library that it does not give up, also
\* if the import was still running, or if a finalize_library() has failed before.
NoLibraryForgotten ==
    \A i \in store :
        conn[Owner[i]] = "gone" /\ mode = "open" /\ ~GivenUp(i)
            => handler[Command("import", i)] \in {"waiting", "releasing"}

\* "each once": whether the client asked for it, finalize_all() did it, or both
\* at the same time, the scope of a library is ended once, and for good.
FinalizedOnce == \A i \in Imports : torn[i] + (IF i \in store THEN 1 ELSE 0) <= 1

\* Until its client finalizes it or goes, a library stays in the store for its
\* keywords, whatever becomes of the other clients of the same store.
ImportedLibraryIsUsable ==
    \A i \in Imports :
        Known(i) /\ conn[Owner[i]] = "open" /\ handler[Command("finalize", i)] = "new"
            => i \in store /\ (i \in Called => outcome[Command("keyword", i)] # "failed")

\* "When a client disconnects, the server SHALL finalize every library that it
\* imported for that client" (openspec/specs/server/spec.md): finalize_all() ends
\* although a finalization fails, the connection is closed, and everything that
\* its client has imported leaves the store, also if the import ends later; unless
\* the code gives a library up or the server stops.
LeavingReleases ==
    \A cl \in Clients :
        conn[cl] # "open"
            ~> \/ mode # "open"
               \/ /\ conn[cl] = "gone"
                  /\ \A i \in Imports : Owner[i] = cl => i \notin store \/ GivenUp(i)

=============================================================================
