--------------------------- MODULE RemoteLibrary ---------------------------
(***************************************************************************)
(* JsonRpcRemote, the library that Robot Framework imports: it connects to *)
(* the server, runs keywords in its session, replaces a session that was   *)
(* lost, and stops it at the end of its scope. All of this runs on the     *)
(* thread of the test, while the connection may be lost, and the server    *)
(* may go, come and change its library, at any time.                       *)
(***************************************************************************)
EXTENDS Naturals

CONSTANTS
    Sessions,      \* names of sessions; one that was stopped may be used again
    NoSession,     \* stands for None
    Definitions,   \* what the definition of the remote library may be
    Nothing        \* no definition, or a server that cannot be reached

ASSUME NoSessionIsNone == NoSession \notin Sessions
ASSUME NothingIsNone == Nothing \notin Definitions

VARIABLES
    retry,         \* whether the option rpc_connect_retry_timeout is set
    session,       \* __session
    outage,        \* loss and window_spent of _outage; FALSE also without one
    incompatible,  \* whether _incompatible is set
    registered,    \* _registered_definition
    op, pc,        \* what the thread does, and where it is
    window,        \* the retry window of _connect_with_retry(), "none" if it tries once
    mine,          \* the session that run_keyword() has read
    sent,          \* how often the keyword of that call was sent
    state,         \* of each session: "unused", "up", "lost" or "stopped"
    definition,    \* and its library_definition
    server,        \* the definition of the server's library
    \* History of the scope, and of the outage
    replaced,      \* whether a lost session of this scope was given up
    opened,        \* whether this scope has had a session
    announced,     \* the sessions whose beginning was logged as a warning
    waited         \* whether a window has passed since the last connection

objectVars == <<session, outage, incompatible, registered>>
callVars == <<op, pc, window, mine, sent>>
sessionVars == <<state, definition>>
historyVars == <<replaced, opened, announced, waited>>
vars == <<retry, objectVars, callVars, sessionVars, server, historyVars>>

Outages == [loss : BOOLEAN, spent : BOOLEAN]
NoOutage == [loss |-> FALSE, spent |-> FALSE]

TypeOK ==
    /\ retry \in BOOLEAN /\ incompatible \in BOOLEAN
    /\ session \in Sessions \cup {NoSession} /\ mine \in Sessions \cup {NoSession}
    /\ outage \in Outages
    /\ registered \in Definitions \cup {Nothing} /\ server \in Definitions \cup {Nothing}
    /\ op \in {"import", "look", "keyword", "none"}
    /\ pc \in {"ensure", "connect", "sleep", "submit", "await", "idle", "gone"}
    /\ window \in {"none", "open", "passed"}
    /\ sent \in Nat
    /\ state \in [Sessions -> {"unused", "up", "lost", "stopped"}]
    /\ definition \in [Sessions -> Definitions \cup {Nothing}]
    /\ replaced \in BOOLEAN /\ opened \in BOOLEAN /\ waited \in BOOLEAN
    /\ announced \subseteq Sessions

Init ==
    /\ retry \in BOOLEAN
    /\ session = NoSession /\ outage = NoOutage /\ incompatible = FALSE
    /\ registered = Nothing
    /\ op = "import" /\ pc = "ensure" /\ window = "none" /\ mine = NoSession /\ sent = 0
    /\ state = [s \in Sessions |-> "unused"]
    /\ definition = [s \in Sessions |-> Nothing]
    /\ server \in Definitions \cup {Nothing}
    /\ replaced = FALSE /\ opened = FALSE /\ announced = {} /\ waited = FALSE

-----------------------------------------------------------------------------
(* How a call begins and ends *)

\* A keyword call, or a question of Robot Framework about a keyword.
Begin(what) ==
    /\ pc = "idle"
    /\ op' = what /\ pc' = "ensure" /\ sent' = 0
    /\ UNCHANGED <<retry, objectVars, window, mine, sessionVars, server, historyVars>>

\* An object whose __init__() has failed is never used.
Fail ==
    /\ pc' = IF op = "import" THEN "gone" ELSE "idle"
    /\ op' = "none" /\ window' = "none" /\ mine' = NoSession
    /\ UNCHANGED sent

\* There is a session: a keyword goes on with it.
Proceed(s) ==
    /\ IF op = "keyword" THEN op' = op /\ pc' = "submit" /\ mine' = s
                         ELSE op' = "none" /\ pc' = "idle" /\ mine' = NoSession
    /\ window' = "none"
    /\ UNCHANGED sent

-----------------------------------------------------------------------------
(* _ensure_session() *)

Lost == session # NoSession /\ state[session] = "lost"

Refuse ==
    /\ pc = "ensure"
    /\ incompatible \/ (Lost /\ ~retry)
    /\ Fail
    /\ UNCHANGED <<retry, objectVars, sessionVars, server, historyVars>>

Reuse ==
    /\ pc = "ensure" /\ ~incompatible
    /\ session # NoSession /\ ~Lost
    /\ Proceed(session)
    /\ UNCHANGED <<retry, objectVars, sessionVars, server, historyVars>>

\* _connect_with_retry() begins: once a window was spent, it does not wait.
Connect(spent) ==
    /\ pc' = "connect"
    /\ window' = IF retry /\ ~spent THEN "open" ELSE "none"
    /\ UNCHANGED <<op, mine, sent>>

ConnectAnew ==
    /\ pc = "ensure" /\ ~incompatible
    /\ session = NoSession
    /\ Connect(outage.spent)
    /\ UNCHANGED <<retry, objectVars, sessionVars, server, historyVars>>

\* Defect: the lost session is dropped and not stopped.
ReplaceUnstopped ==
    /\ pc = "ensure" /\ ~incompatible
    /\ Lost /\ retry
    /\ session' = NoSession
    /\ outage' = [loss |-> TRUE, spent |-> FALSE]
    /\ Connect(FALSE)
    /\ replaced' = TRUE
    /\ UNCHANGED <<retry, incompatible, registered, sessionVars, server, opened, announced, waited>>

Replace ==
    /\ pc = "ensure" /\ ~incompatible
    /\ Lost /\ retry
    /\ session' = NoSession
    /\ state' = [state EXCEPT ![session] = "stopped"]
    /\ outage' = [loss |-> TRUE, spent |-> FALSE]
    /\ Connect(FALSE)
    /\ replaced' = TRUE
    /\ UNCHANGED <<retry, incompatible, registered, definition, server, opened, announced, waited>>

-----------------------------------------------------------------------------
(* _connect_with_retry(), and what _ensure_session() makes of the connection *)

\* Defect: a failed attempt begins an outage of its own.
AttemptFailsAnew ==
    /\ pc = "connect"
    /\ outage' = [loss |-> FALSE, spent |-> window = "passed"]
    /\ IF window = "open" THEN pc' = "sleep" /\ UNCHANGED <<op, window, mine, sent>> ELSE Fail
    /\ waited' = (waited \/ window = "passed")
    /\ UNCHANGED <<retry, session, incompatible, registered, sessionVars, server, replaced, opened, announced>>

\* Defect: that the window was spent is not remembered.
AttemptFailsUnspent ==
    /\ pc = "connect"
    /\ IF window = "open" THEN pc' = "sleep" /\ UNCHANGED <<op, window, mine, sent>> ELSE Fail
    /\ waited' = (waited \/ window = "passed")
    /\ UNCHANGED <<retry, objectVars, sessionVars, server, replaced, opened, announced>>

\* An attempt fails, whatever the server is doing: refused, timed out, or in the
\* handshake. It leaves no session behind.
AttemptFails ==
    /\ pc = "connect"
    /\ outage' = [outage EXCEPT !.spent = @ \/ window = "passed"]
    /\ IF window = "open" THEN pc' = "sleep" /\ UNCHANGED <<op, window, mine, sent>> ELSE Fail
    /\ waited' = (waited \/ window = "passed")
    /\ UNCHANGED <<retry, session, incompatible, registered, sessionVars, server, replaced, opened, announced>>

\* Defect: the deadline is not looked at.
TryAgainInANewWindow ==
    /\ pc = "sleep"
    /\ pc' = "connect" /\ window' = "open"
    /\ UNCHANGED <<retry, objectVars, op, mine, sent, sessionVars, server, historyVars>>

TryAgain ==
    /\ pc = "sleep"
    /\ pc' = "connect"
    /\ UNCHANGED <<retry, objectVars, op, window, mine, sent, sessionVars, server, historyVars>>

WindowPasses ==
    /\ window = "open"
    /\ window' = "passed"
    /\ UNCHANGED <<retry, objectVars, op, pc, mine, sent, sessionVars, server, historyVars>>

\* The server has another library now than Robot Framework has registered.
Changed == outage.loss /\ server # registered

Connected(s) ==
    /\ pc = "connect"
    /\ server # Nothing /\ state[s] \in {"unused", "stopped"}
    /\ definition' = [definition EXCEPT ![s] = server]
    /\ outage' = NoOutage
    /\ waited' = FALSE

\* _check_definition() stops the new session.
ConnectionIsRejected(s) ==
    /\ Connected(s) /\ Changed
    /\ state' = [state EXCEPT ![s] = "stopped"]
    /\ incompatible' = TRUE
    /\ Fail
    /\ UNCHANGED <<retry, session, registered, server, replaced, opened, announced>>

\* The warning is logged if the outage began with a loss.
ConnectionIsAccepted(s) ==
    /\ Connected(s) /\ ~Changed
    /\ session' = s
    /\ state' = [state EXCEPT ![s] = "up"]
    /\ registered' = IF op = "import" THEN server ELSE registered
    /\ Proceed(s)
    /\ announced' = IF outage.loss THEN announced \cup {s} ELSE announced \ {s}
    /\ opened' = TRUE
    /\ UNCHANGED <<retry, incompatible, server, replaced>>

-----------------------------------------------------------------------------
(* run_keyword() *)

Submit ==
    /\ pc = "submit"
    /\ state[mine] = "up"
    /\ pc' = "await" /\ sent' = sent + 1
    /\ UNCHANGED <<retry, objectVars, op, window, mine, sessionVars, server, historyVars>>

\* A result, an error of the keyword, or a cancellation by Robot Framework.
KeywordEnds ==
    /\ pc = "await"
    /\ Fail
    /\ UNCHANGED <<retry, objectVars, sessionVars, server, historyVars>>

\* The session is lost, before the keyword is sent or while it runs.
KeywordIsLost ==
    /\ pc \in {"submit", "await"}
    /\ state[mine] = "lost"
    /\ Fail
    /\ UNCHANGED <<retry, objectVars, sessionVars, server, historyVars>>

-----------------------------------------------------------------------------
(* The end of a session, and the world outside *)

StopSession ==
    /\ pc = "idle"
    /\ incompatible' = FALSE
    /\ outage' = [outage EXCEPT !.loss = FALSE]
    /\ session' = NoSession
    /\ state' = [s \in Sessions |-> IF s = session THEN "stopped" ELSE state[s]]
    /\ replaced' = FALSE /\ opened' = FALSE
    /\ UNCHANGED registered

EndScope ==
    /\ StopSession
    /\ UNCHANGED <<retry, callVars, definition, server, announced, waited>>

Delete ==
    /\ StopSession
    /\ pc' = "gone"
    /\ UNCHANGED <<retry, op, window, mine, sent, definition, server, announced, waited>>

LoseConnection(s) ==
    /\ state[s] = "up"
    /\ state' = [state EXCEPT ![s] = "lost"]
    /\ UNCHANGED <<retry, objectVars, callVars, definition, server, historyVars>>

ServerChanges ==
    /\ server' \in Definitions \cup {Nothing}
    /\ UNCHANGED <<retry, objectVars, callVars, sessionVars, historyVars>>

-----------------------------------------------------------------------------

Ensure == Refuse \/ Reuse \/ ConnectAnew \/ Replace

Attempt ==
    \/ AttemptFails
    \/ \E s \in Sessions : ConnectionIsAccepted(s) \/ ConnectionIsRejected(s)

RunKeyword == Submit \/ KeywordEnds \/ KeywordIsLost

Next ==
    \/ \E what \in {"look", "keyword"} : Begin(what)
    \/ Ensure \/ Attempt \/ TryAgain \/ RunKeyword
    \/ EndScope \/ Delete \/ WindowPasses \/ ServerChanges
    \/ \E s \in Sessions : LoseConnection(s)

Spec == Init /\ [][Next]_vars

\* The thread goes on, time passes, every attempt is limited by rpc_timeout, and
\* a keyword comes to its end.
FairSpec ==
    /\ Spec
    /\ WF_vars(Ensure) /\ WF_vars(Attempt) /\ WF_vars(TryAgain) /\ WF_vars(RunKeyword)
    /\ WF_vars(WindowPasses)

-----------------------------------------------------------------------------
(* Properties *)

\* A session that replaces a lost one of the same scope was announced with a
\* warning and has the registered definition, however many calls and failed
\* attempts lie in between; no other session is announced.
LossIsAnnounced ==
    session # NoSession =>
        /\ session \in announced <=> replaced
        /\ replaced => definition[session] = registered

\* "further calls in the same session fail the same way without opening a
\* connection" (openspec/specs/client/spec.md): not after an incompatible
\* reconnect, and without connect retry not after the first session of a scope.
NoUnaskedConnection ==
    pc = "connect" => ~incompatible /\ (opened => retry /\ replaced)

\* "Until a connection succeeds again, every further call SHALL make exactly one
\* connection attempt without waiting" (openspec/specs/client/spec.md), also in
\* the next scope.
OneWindowPerOutage == waited /\ pc \in {"connect", "sleep"} => window = "none"

\* Only the session in use is left running or unstopped: one that was replaced,
\* rejected or ended with its scope was stopped.
NothingLeftBehind == \A s \in Sessions : state[s] \in {"up", "lost"} => s = session

\* A keyword goes to the server once, also if the connection is lost under it:
\* the server may have run it.
SentOnce == sent <= 1

\* Every call comes to its end, although the server stays away.
CallsReturn == pc \notin {"idle", "gone"} ~> pc \in {"idle", "gone"}

=============================================================================
